----------------------------- MODULE PageProofs -----------------------------
(***************************************************************************)
(* Proofs about the pages of the web interface, each on its own and then   *)
(* together: whatever order answers come in, what a page shows once it     *)
(* waits for nothing is what it should show.  A page is unmounted when it  *)
(* is left, so that its invariant also says what is left of it: nothing.   *)
(***************************************************************************)
EXTENDS WebPages, FiniteSetTheorems, WellFoundedInduction, TLAPS

-----------------------------------------------------------------------------
(* GraphZoom: the page keeps one drawing with the view the user has chosen,  *)
(* for any number of redraws and any set of places.                          *)

\* The cells the argument needs: an svg that can be looked up in gBox.
Ranges ==
    /\ gTodo \in 0..MaxRenders
    /\ gSvg \in 0..MaxRenders
    /\ gCount \in 0..MaxRenders
    /\ DOMAIN gBox = Svgs

\* The attached svg always carries the view.
Viewed == gSvg # 0 => gBox[gSvg] = gView

\* Where the drawings are: without an overlay #pipeline-graph holds the attached
\* svg or an error text.  With one, the svg that was moved may have left it empty,
\* and then the object remembers to put the attached svg back.
Placed ==
    /\ gOverlay # 0 => gSvg # 0
    /\ gSvg # 0 => \/ 0 \in gEl
                   \/ gEl = {gSvg}
                   \/ gOverlay # 0 /\ gEl = {} /\ gParent

\* One key handler for one overlay.
Keyed == gKeys = IF gOverlay = 0 THEN 0 ELSE 1

ZoomInv == Ranges /\ Viewed /\ Placed /\ Keyed

-----------------------------------------------------------------------------
\* The page starts with the invariant.
LEMMA InitZoom == GraphIdle => ZoomInv
  BY ZoomAssumption DEF GraphIdle, ZoomInv, Ranges, Viewed, Placed, Keyed

\* attachSVG gives the new svg the view that goes on.
LEMMA AttachView ==
  ASSUME NEW s \in Svgs, DOMAIN gBox = Svgs, attachSVG(s)
  PROVE  gSvg' = s /\ gBox'[s] = gView' /\ DOMAIN gBox' = Svgs
  BY DEF attachSVG

\* applyViewBox writes the view to the attached svg.
LEMMA ApplyView ==
  ASSUME Ranges, applyViewBox, gSvg' = gSvg
  PROVE  DOMAIN gBox' = Svgs /\ Viewed'
<1>1. CASE gSvg = 0
  BY <1>1 DEF Ranges, applyViewBox, Viewed
<1>2. CASE gSvg # 0
  <2>1. gSvg \in Svgs
    BY <1>2, ZoomAssumption DEF Ranges, Svgs
  <2>2. gBox' = [gBox EXCEPT ![gSvg] = gView']
    BY <1>2 DEF applyViewBox
  <2> QED BY <2>1, <2>2 DEF Ranges, Viewed
<1> QED BY <1>1, <1>2

\* A graph arrives, is drawn in place of the old one, or cannot be drawn.
LEMMA GraphDrawn == ZoomInv /\ (GraphChanged \/ Drawn \/ DrawingFails) => ZoomInv'
<1> SUFFICES ASSUME ZoomInv, GraphChanged \/ Drawn \/ DrawingFails PROVE ZoomInv'
  OBVIOUS
<1>1. CASE GraphChanged
  <2>1. gCount' \in 0..MaxRenders /\ gTodo' \in 0..MaxRenders
    BY <1>1, ZoomAssumption DEF GraphChanged, ZoomInv, Ranges
  <2>2. UNCHANGED <<gEl, viewing, screen>>
    BY <1>1 DEF GraphChanged
  <2> QED BY <2>1, <2>2 DEF ZoomInv, Ranges, Viewed, Placed, Keyed, viewing, screen
<1>2. CASE Drawn
  <2>1. gTodo \in Svgs
    BY <1>2, ZoomAssumption DEF Drawn, ZoomInv, Ranges, Svgs
  <2>2. attachSVG(gTodo) /\ gEl' = {gTodo} /\ gTodo' = 0
    BY <1>2 DEF Drawn
  <2>3. gSvg' = gTodo /\ gBox'[gTodo] = gView' /\ DOMAIN gBox' = Svgs
    BY <2>1, <2>2, AttachView DEF ZoomInv, Ranges
  <2>4. gTodo # 0
    BY <1>2, ZoomAssumption DEF Drawn, ZoomInv, Ranges
  <2>5. UNCHANGED <<gCount, screen>>
    BY <1>2 DEF Drawn
  <2>6. Ranges'
    BY <2>2, <2>3, <2>5, ZoomAssumption DEF ZoomInv, Ranges
  <2> QED BY <2>2, <2>3, <2>4, <2>5, <2>6 DEF ZoomInv, Viewed, Placed, Keyed, screen
<1>3. CASE DrawingFails
  <2>1. gEl' = {0} /\ gTodo' = 0 /\ UNCHANGED <<gCount, viewing, screen>>
    BY <1>3 DEF DrawingFails
  <2> QED BY <2>1, ZoomAssumption
          DEF ZoomInv, Ranges, Viewed, Placed, Keyed, viewing, screen
<1> QED BY <1>1, <1>2, <1>3

\* Zooming, resetting and dragging change the view and the svg together.
LEMMA GraphMoved ==
  ASSUME ZoomInv,
         reset \/ (\E p \in Places : onPanMove(p) \/ \E d \in {-1, 1} : ZoomBy(d, p))
  PROVE  ZoomInv'
<1>1. applyViewBox /\ gSvg' = gSvg
  BY DEF reset, onPanMove, ZoomBy
<1>2. UNCHANGED <<gCount, gTodo, gEl, gOverlay, gParent, gKeys>>
  BY DEF reset, onPanMove, ZoomBy, drawing, screen
<1>3. DOMAIN gBox' = Svgs /\ Viewed'
  BY <1>1, ApplyView DEF ZoomInv
<1> QED BY <1>1, <1>2, <1>3 DEF ZoomInv, Ranges, Placed, Keyed

\* The svg moves into the overlay, and the attached one back out of it.
LEMMA GraphFullscreen == ZoomInv /\ (enterFullscreen \/ exitFullscreen) => ZoomInv'
<1> SUFFICES ASSUME ZoomInv, enterFullscreen \/ exitFullscreen PROVE ZoomInv'
  OBVIOUS
<1>1. CASE enterFullscreen
  <2>1. /\ gOverlay = 0 /\ gSvg # 0 /\ gOverlay' = gSvg /\ gKeys' = gKeys + 1
        /\ gEl' = gEl \ {gSvg} /\ UNCHANGED <<gCount, gTodo, gSvg, gView, gBox>>
    BY <1>1 DEF enterFullscreen, viewing
  <2>2. gEl = {gSvg} => gParent'
    <3>1. gParent' = (gSvg \in gEl)
      BY <1>1 DEF enterFullscreen
    <3> QED BY <3>1, Zenon
  <2>3. 0 \in gEl \/ gEl = {gSvg}
    BY <2>1 DEF ZoomInv, Placed
  <2>4. Placed'
    BY <2>1, <2>2, <2>3 DEF Placed
  <2> QED BY <2>1, <2>4 DEF ZoomInv, Ranges, Viewed, Keyed
<1>2. CASE exitFullscreen
  BY <1>2 DEF exitFullscreen, Exited, ZoomInv, Ranges, Viewed, Placed, Keyed, viewing
<1> QED BY <1>1, <1>2

\* Every step of the page keeps the invariant.
LEMMA NextZoom == ZoomInv /\ [GraphNext]_<<page, zoomVars>> => ZoomInv'
<1> SUFFICES ASSUME ZoomInv, [GraphNext]_<<page, zoomVars>> PROVE ZoomInv'
  OBVIOUS
<1>1. CASE GraphChanged \/ Drawn \/ DrawingFails
  BY <1>1, GraphDrawn
<1>2. CASE reset \/ (\E p \in Places : onPanMove(p) \/ \E d \in {-1, 1} : ZoomBy(d, p))
  BY <1>2, GraphMoved
<1>3. CASE enterFullscreen \/ exitFullscreen
  BY <1>3, GraphFullscreen
<1>4. CASE OpenGraph \/ onPanStart \/ onPanEnd \/ SwallowClick
  <2>1. UNCHANGED <<gCount, gTodo, gEl, gSvg, gView, gBox, gOverlay, gParent, gKeys>>
    BY <1>4 DEF OpenGraph, onPanStart, onPanEnd, SwallowClick, zoomVars, drawing, viewing, screen
  <2> QED BY <2>1 DEF ZoomInv, Ranges, Viewed, Placed, Keyed
<1>5. CASE destroy
  BY <1>5, ZoomAssumption DEF destroy, ZoomInv, Ranges, Viewed, Placed, Keyed
<1>6. CASE UNCHANGED <<page, zoomVars>>
  BY <1>6 DEF zoomVars, ZoomInv, Ranges, Viewed, Placed, Keyed
<1> QED BY <1>1, <1>2, <1>3, <1>4, <1>5, <1>6 DEF GraphNext

-----------------------------------------------------------------------------
\* The invariant gives what the page promises.
LEMMA GraphPromise == ZoomInv => GraphKept
  BY DEF ZoomInv, Viewed, Placed, Keyed, GraphKept

\* Outside the overlay the page shows one graph with the zoom and the place the
\* user has chosen, and no key handler is left, however redraws fall between
\* dragging, zooming and fullscreen (attachSVG, enterFullscreen, exitFullscreen).
THEOREM GraphIsKept == GraphSpec => []GraphKept
<1> QED BY GraphPromise, InitZoom, NextZoom, PTL DEF GraphSpec

-----------------------------------------------------------------------------
(* Editor: what the page shows is about the text that is there once every    *)
(* preview has come back.                                                    *)

\* Texts are numbered in the order they were typed: no preview is about a text that
\* is still to come.
Numbers ==
    /\ eText \in Texts
    /\ {eSeen, eGraph, eFailed} \subseteq Texts \union {-1}
    /\ ePreviews \subseteq Texts /\ eDraws \subseteq Texts
    /\ \A t \in ePreviews : t <= eText
    /\ \A t \in eDraws : t <= eSeen

\* Nothing runs before the pipeline has come, nor after the editor is gone.
Waiting ==
    /\ page # "editor" => ~eLoaded
    /\ ~eLoaded => ePreviews = {} /\ ~eTimer

\* A text that waits for no timer has been sent, or shown, or is the empty
\* text the editor was opened with, which nothing previews.
Previewed ==
    eLoaded /\ ~eTimer /\ ~eSpoiled =>
        eText \in ePreviews \/ eSeen = eText \/ (eEmpty /\ eText = 0)

\* The marks are those of the newest text shown, or its graph is there, is being
\* drawn, or could not be.
AboutSeen ==
    ~eSpoiled /\ eSeen # -1 =>
        IF eSeen \in Invalid THEN eMarks = eSeen
        ELSE eMarks = -1 /\ (eSeen \in eDraws \/ eGraph = eSeen \/ eFailed = eSeen)

\* The blocks panel follows the document whenever no timer runs.
Blocks == eLoaded /\ ~eTimer => eBlocks = eText

\* The editor that is gone has left fullscreen.
Gone == page # "editor" => ~eBody

EditorInv == Numbers /\ Waiting /\ Previewed /\ AboutSeen /\ Blocks /\ Gone

-----------------------------------------------------------------------------
\* The page starts with the invariant.
LEMMA InitEditor == page = Elsewhere /\ EditorIdle => EditorInv
  BY EditorAssumption
     DEF EditorIdle, EditorInv, Elsewhere, Numbers, Waiting, Previewed, AboutSeen, Blocks, Gone, Texts

\* The editor is shown, for a new pipeline or once the pipeline has come.
LEMMA EditorOpens == EditorInv /\ (PipelineNew \/ PipelineEdit \/ PipelineFetched) => EditorInv'
<1> SUFFICES ASSUME EditorInv, PipelineNew \/ PipelineEdit \/ PipelineFetched PROVE EditorInv'
  OBVIOUS
<1> USE DEF EditorInv, Numbers, Waiting, Previewed, AboutSeen, Blocks, Gone
<1>1. CASE PipelineNew
  <2>1. /\ page' = "editor" /\ eText' = 0 /\ eBlocks' = 0 /\ eEmpty' = TRUE /\ eLoaded' = TRUE
        /\ UNCHANGED <<eTimer, ePreviews, drawn, eMarks, eSeen, eSpoiled, eBody>>
    BY <1>1 DEF PipelineNew, Enter, updateBlocksPanel, layout
  <2>2. 0 \in Texts
    BY EditorAssumption DEF Texts
  <2>3. ePreviews = {} /\ ~eTimer
    BY <1>1 DEF PipelineNew, Enter, Elsewhere
  <2>4. Numbers' /\ Waiting'
    BY <2>1, <2>2, <2>3 DEF drawn
  <2> QED BY <2>1, <2>4 DEF drawn
<1>2. CASE PipelineEdit
  BY <1>2 DEF PipelineEdit, Enter, Elsewhere, editorVars
<1>3. CASE PipelineFetched
  <2>1. /\ page' = "editor" /\ eText' = 0 /\ eBlocks' = 0
        /\ UNCHANGED <<eTimer, eVars, drawn, eMarks, eSeen, eSaves, layout>>
    BY <1>3 DEF PipelineFetched, On, updateBlocksPanel
  <2>2. 0 \in Texts
    BY EditorAssumption DEF Texts
  <2>3. \/ eEmpty' /\ UNCHANGED <<ePreviews, eSpoiled>>
        \/ ePreviews' = ePreviews \union {0} /\ eSpoiled' = eSpoiled
        \/ UNCHANGED ePreviews /\ eSpoiled'
    BY <1>3, <2>1 DEF PipelineFetched, changePipeline
  <2>4. ePreviews = {}
    BY <1>3 DEF PipelineFetched
  <2>5. Numbers' /\ Waiting'
    BY <1>3, <2>1, <2>2, <2>3, <2>4 DEF PipelineFetched, drawn
  <2> QED BY <2>1, <2>3, <2>5 DEF drawn, layout
<1> QED BY <1>1, <1>2, <1>3

\* A key starts the timer; when it fires the text of this moment is sent.
LEMMA EditorTyped == EditorInv /\ (Type \/ EditVars \/ PreviewTimer) => EditorInv'
<1> SUFFICES ASSUME EditorInv, Type \/ EditVars \/ PreviewTimer PROVE EditorInv'
  OBVIOUS
<1> USE DEF EditorInv, Numbers, Waiting, Previewed, AboutSeen, Blocks, Gone
<1>1. CASE Type
  <2>1. /\ page' = "editor" /\ eLoaded' = eLoaded /\ eTimer' = TRUE /\ eLoaded
        /\ eText' = eText + 1 /\ eText < MaxEdits
        /\ UNCHANGED <<ePreviews, eDraws, eGraph, eFailed, eMarks, eSeen, eSpoiled, eBody>>
    BY <1>1 DEF Type, On, previewed, drawn, layout
  <2>2. eText' \in Texts /\ \A t \in ePreviews : t <= eText'
    BY <2>1, EditorAssumption DEF Texts
  <2> QED BY <2>1, <2>2
<1>2. CASE EditVars
  BY <1>2 DEF EditVars, On, document, previewed, drawn, layout
<1>3. CASE PreviewTimer
  <2>1. /\ page' = "editor" /\ eText' = eText /\ eBlocks' = eText /\ eTimer' = FALSE
        /\ UNCHANGED <<document, eVars, eDraws, eGraph, eFailed, eMarks, eSeen, eSaves, layout>>
    BY <1>3 DEF PreviewTimer, On, document, drawn, updateBlocksPanel
  <2>2. CASE eVars
    <3>1. ePreviews' = ePreviews \union {eText} /\ eSpoiled' = eSpoiled
      BY <1>3, <2>1, <2>2 DEF PreviewTimer, changePipeline
    <3>2. eLoaded /\ eLoaded' = eLoaded
      BY <1>3, <2>1 DEF PreviewTimer, document
    <3>3. \A t \in ePreviews' : t <= eText'
      BY <2>1, <3>1, EditorAssumption DEF Texts
    <3>4. Numbers' /\ Waiting'
      BY <2>1, <3>1, <3>2, <3>3
    <3>5. Previewed' /\ AboutSeen' /\ Blocks' /\ Gone'
      BY <2>1, <3>1, <3>2
    <3> QED BY <3>4, <3>5
  <2>3. CASE ~eVars
    BY <1>3, <2>1, <2>3 DEF PreviewTimer, changePipeline, document
  <2> QED BY <2>2, <2>3
<1> QED BY <1>1, <1>2, <1>3

\* A preview comes back: what is shown, or drawn from now on, is about its text,
\* unless a newer text was shown before.
LEMMA EditorAnswered ==
  ASSUME EditorInv, NEW t \in Texts,
         PreviewShown(t) \/ showEditorErrors(t) \/ PreviewLost(t)
  PROVE  EditorInv'
<1> USE DEF EditorInv, Numbers, Waiting, Previewed, AboutSeen, Blocks, Gone
<1>0. t \in Int /\ t >= 0 /\ eSeen \in Int
  BY EditorAssumption DEF Texts
<1>1. /\ page' = "editor" /\ t \in ePreviews /\ ePreviews' = ePreviews \ {t}
      /\ UNCHANGED document /\ eTimer' = eTimer /\ eBlocks' = eText
  BY DEF PreviewShown, showEditorErrors, PreviewLost, On, document, updateBlocksPanel
<1>2. CASE eSpoiled' /\ UNCHANGED <<drawn, eSeen>>
  BY <1>1, <1>2 DEF document, drawn
<1>3. ASSUME Overtaken(t), UNCHANGED <<eGraph, eFailed>>,
             \/ t \in Invalid /\ eMarks' = t /\ eDraws' = eDraws
             \/ t \notin Invalid /\ eMarks' = -1 /\ eDraws' = eDraws \union {t}
      PROVE  EditorInv'
  <2>1. /\ eSeen' = IF t > eSeen THEN t ELSE eSeen
        /\ eSpoiled' = (eSpoiled \/ t < eSeen)
    BY <1>3 DEF Overtaken
  <2>2. eSeen' \in Texts \union {-1} /\ eDraws' \subseteq Texts
    BY <1>3, <2>1
  <2>3. Numbers' /\ Waiting' /\ Blocks' /\ Gone'
    <3>1. \A u \in eDraws' : u <= eSeen'
      <4>1. ASSUME NEW u \in eDraws' PROVE u <= eSeen'
        <5>1. u = t \/ (u \in eDraws /\ u <= eSeen)
          BY <1>3
        <5>2. u \in Int
          BY <2>2, EditorAssumption DEF Texts
        <5> QED BY <1>0, <2>1, <5>1, <5>2
      <4> QED BY <4>1
    <3> QED BY <1>1, <1>3, <2>2, <3>1 DEF document
  <2>4. CASE t < eSeen
    <3>1. eSpoiled'
      BY <2>1, <2>4, Zenon
    <3> QED BY <1>1, <2>3, <3>1 DEF document
  <2>5. CASE ~(t < eSeen)
    <3>0. eSpoiled' => eSpoiled
      BY <2>1, <2>5, Zenon
    <3>5. eSpoiled => eSpoiled'
      BY <2>1, Zenon
    <3>1. eSeen' = t
      BY <1>0, <2>1, <2>5
    <3>3. AboutSeen'
      BY <1>3, <3>1
    <3>4. Previewed'
      <4>1. CASE eText = t
        BY <1>1, <3>1, <4>1 DEF document
      <4>2. CASE eText # t
        <5>1. eSeen # eText
          <6>1. t <= eText /\ eText \in Int
            BY <1>1, EditorAssumption DEF Texts
          <6> QED BY <1>0, <2>5, <4>2, <6>1
        <5> QED BY <1>1, <3>1, <3>5, <4>2, <5>1 DEF document
      <4> QED BY <4>1, <4>2
    <3> QED BY <2>3, <3>3, <3>4
  <2> QED BY <2>4, <2>5
<1>4. CASE PreviewLost(t)
  BY <1>2, <1>4 DEF PreviewLost
<1>5. CASE showEditorErrors(t)
  BY <1>3, <1>5 DEF showEditorErrors, drawn
<1>6. CASE PreviewShown(t)
  BY <1>2, <1>3, <1>6 DEF PreviewShown, Draw, drawn
<1> QED BY <1>4, <1>5, <1>6

\* A drawing comes to an end, with a graph or a message in its place: it is that of
\* the newest text shown, or leaves what is there to the drawing of that text,
\* unless the newer one was there before.
LEMMA EditorDrawn ==
  ASSUME EditorInv, NEW t \in Texts, PreviewDrawn(t) \/ PreviewDrawFails(t)
  PROVE  EditorInv'
<1> USE DEF EditorInv, Numbers, Waiting, Previewed, AboutSeen, Blocks, Gone
<1>1. /\ page' = "editor" /\ t \in eDraws /\ eDraws' = eDraws \ {t}
      /\ eSpoiled' = (eSpoiled \/ t < eGraph \/ t < eFailed)
      /\ UNCHANGED <<page, document, eTimer, ePreviews, eMarks, eBlocks, eSeen, eBody>>
      /\ (eGraph' = t /\ eFailed' = -1) \/ (eGraph' = -1 /\ eFailed' = t)
  BY DEF PreviewDrawn, PreviewDrawFails, DrawingEnds, On, layout
<1>2. Numbers' /\ Waiting' /\ Blocks' /\ Gone'
  BY <1>1 DEF document
<1>3. ~eSpoiled' => ~eSpoiled /\ ~(t < eGraph) /\ ~(t < eFailed)
  BY <1>1, Zenon
<1>4. Previewed'
  BY <1>1, <1>3 DEF document
<1>5. AboutSeen'
  <2>1. t \in Int /\ t >= 0 /\ t <= eSeen /\ eSeen \in Int
    BY <1>1, EditorAssumption DEF Texts
  <2>2. ASSUME ~eSpoiled', eSeen \notin Invalid, t # eSeen PROVE eSeen \in eDraws'
    <3>1. eSeen \in eDraws \/ eGraph = eSeen \/ eFailed = eSeen
      BY <1>3, <2>1, <2>2
    <3>2. t < eSeen
      BY <2>1, <2>2
    <3> QED BY <1>1, <1>3, <2>2, <3>1, <3>2
  <2>3. ~eSpoiled' => ~eSpoiled
    BY <1>3
  <2> QED BY <1>1, <2>2, <2>3
<1> QED BY <1>2, <1>4, <1>5

\* Saving and the layout touch neither the text nor the previews, and fullscreen is
\* for a mounted editor.
LEMMA EditorLaidOut ==
  ASSUME EditorInv,
         \/ handleSubmit \/ toggleFullscreen \/ escHandler
         \/ \E t \in Texts : SaveFails(t)
         \/ \E p \in EditorPanels : TogglePanel(p)
  PROVE  EditorInv'
<1>1. /\ page' = page /\ page = "editor"
      /\ UNCHANGED <<document, eTimer, ePreviews, previewed>>
  BY DEF handleSubmit, toggleFullscreen, escHandler, SaveFails, TogglePanel, On
<1> QED BY <1>1
        DEF EditorInv, Numbers, Waiting, Previewed, AboutSeen, Blocks, Gone, document,
            previewed, drawn

\* The editor is left, by a link or after a save.
LEMMA EditorClosed == ASSUME CloseEditor PROVE EditorInv'
  BY EditorAssumption
     DEF CloseEditor, Leave, Elsewhere, Cleared, EditorInv, Numbers, Waiting, Previewed,
         AboutSeen, Blocks, Gone, Texts

\* Every step of the page keeps the invariant.
LEMMA NextEditor == EditorInv /\ [EditorNext]_<<page, editorVars>> => EditorInv'
<1> SUFFICES ASSUME EditorInv, [EditorNext]_<<page, editorVars>> PROVE EditorInv'
  OBVIOUS
<1>1. CASE PipelineNew \/ PipelineEdit \/ PipelineFetched
  BY <1>1, EditorOpens
<1>2. CASE Type \/ EditVars \/ PreviewTimer
  BY <1>2, EditorTyped
<1>3. CASE \E t \in Texts : PreviewShown(t) \/ showEditorErrors(t) \/ PreviewLost(t)
  BY <1>3, EditorAnswered
<1>7. CASE \E t \in Texts : PreviewDrawn(t) \/ PreviewDrawFails(t)
  BY <1>7, EditorDrawn
<1>4. CASE \/ handleSubmit \/ toggleFullscreen \/ escHandler
           \/ \E t \in Texts : SaveFails(t)
           \/ \E p \in EditorPanels : TogglePanel(p)
  BY <1>4, EditorLaidOut
<1>5. CASE CloseEditor \/ \E t \in Texts : onSaveSuccess(t)
  BY <1>5, EditorClosed DEF onSaveSuccess
<1>6. CASE UNCHANGED <<page, editorVars>>
  BY <1>6 DEF editorVars, EditorInv, Numbers, Waiting, Previewed, AboutSeen, Blocks, Gone
<1> QED BY <1>1, <1>2, <1>3, <1>4, <1>5, <1>6, <1>7 DEF EditorNext

-----------------------------------------------------------------------------
\* The invariant gives what the page promises.
LEMMA EditorPromise == EditorInv => PreviewCurrent
<1> SUFFICES ASSUME EditorInv PROVE PreviewCurrent
  OBVIOUS
<1>1. eText # -1 /\ (eText > 0 \/ eText = 0)
  BY EditorAssumption DEF EditorInv, Numbers, Texts
<1> QED BY <1>1 DEF EditorInv, Previewed, AboutSeen, Blocks, Gone, PreviewCurrent

\* When nothing is typed, no preview is in flight and nothing is being drawn, the page
\* is about the text that is there: its errors are marked, or its graph or the
\* message that it could not be drawn is shown.  But not if a preview or a drawing
\* was overtaken, or a preview was lost, had no image or was not sent
\* (changePipeline, renderGraphToContainer, showEditorErrors).  And the fullscreen
\* goes with the editor.
THEOREM PreviewIsCurrent == EditorSpec => []PreviewCurrent
<1> QED BY EditorPromise, InitEditor, NextEditor, PTL DEF EditorSpec

-----------------------------------------------------------------------------
(* WebSession: what can bring back a session that was ended, and a change of *)
(* the password leaves a token that the server accepts.                      *)

\* The calls, and what the proof needs of the other types.
Calls == [tab : Tabs, kind : Grants \union {"call"}, gen : Int,
          st : {"sent", "ok", "stale", "refused"}, got : Int]

SessionTypes ==
    /\ sGen \in Nat
    /\ sStore \in Int
    /\ sTab \in [Tabs -> Int]
    /\ sCalls \subseteq Calls

\* A call that sends no token is granted none, unless it is a login.
Ungranted == \A c \in sCalls : c.kind \in {"refresh", "password"} /\ c.gen = Out => c.st # "ok"

\* After the last session was ended there is none, in no tab and not in localStorage.
Closed == sClosed => sStore = Out /\ \A t \in Tabs : sTab[t] = Out

\* The change of the password that was answered and not yet heard of.
Changed(c) == c \in sCalls /\ c.kind = "password" /\ c.st = "ok"

\* While nothing was in the way: the tokens of the tabs and of localStorage are
\* current, and those on their way to a tab are.  When the password was changed
\* that holds of the token on its way, which is alone, and no other tab has one.
Current ==
    ~sSpoiled =>
        /\ \A c \in sCalls : c.st = "ok" /\ c.kind \in Grants => c.got = sGen
        /\ \A c \in sCalls : Changed(c) =>
              sCalls = {c} /\ \A t \in Tabs : t # c.tab => sTab[t] = Out
        /\ (\A c \in sCalls : ~Changed(c)) =>
              sStore \in {Out, sGen} /\ \A t \in Tabs : sTab[t] \in {Out, sGen}

SessionInv == SessionTypes /\ Ungranted /\ Closed /\ Current

\* The browser is opened for the first time.
LEMMA InitSession == SessionIdle => SessionInv
  BY SessionAssumption
     DEF SessionIdle, SessionInv, SessionTypes, Ungranted, Closed, Current, Changed, Out, Sessions

\* The user: a reload, another page, a call, a log out.
LEMMA SessionUsed ==
  ASSUME SessionInv, NEW t \in Tabs,
         \/ Reload(t) \/ handleLogout(t)
         \/ \E r \in Routes : Visit(t, r)
         \/ \E k \in {"call", "login", "password"} : Send(t, k)
  PROVE  SessionInv'
<1> USE DEF SessionInv, SessionTypes, Ungranted, Closed, Current
<1>1. CASE Reload(t)
  <2>1. /\ sTab' = [sTab EXCEPT ![t] = sStore] /\ sStore' = sStore /\ sGen' = sGen
        /\ sClosed' = sClosed /\ sCalls' = {c \in sCalls : c.tab # t}
        /\ sSpoiled' = (sSpoiled \/ \E c \in sCalls : c.kind = "password")
    BY <1>1 DEF Reload
  <2>2. SessionTypes' /\ Ungranted' /\ Closed'
    BY <2>1
  <2>3. ~sSpoiled' => ~sSpoiled /\ \A c \in sCalls : c.kind # "password"
    BY <2>1, Zenon
  <2>4. Current'
    BY <2>1, <2>3 DEF Changed
  <2> QED BY <2>2, <2>4
<1>2. CASE handleLogout(t)
  <2>1. /\ sTab' = [sTab EXCEPT ![t] = Out] /\ sStore' = Out
        /\ UNCHANGED <<sGen, sCalls, sSpoiled>>
        /\ sClosed' = ~InSession(sTab')
    BY <1>2 DEF handleLogout, logout
  <2>2. sClosed' => ~InSession(sTab')
    BY <2>1, Zenon
  <2>3. Closed'
    BY <2>1, <2>2 DEF InSession
  <2>4. Current'
    BY <2>1 DEF Changed
  <2> QED BY <2>1, <2>3, <2>4 DEF Out
<1>3. CASE \E r \in Routes : Visit(t, r)
  BY <1>3 DEF Visit, Changed
<1>4. ASSUME NEW k \in {"call", "login", "password"}, Send(t, k) PROVE SessionInv'
  <2>1. /\ UNCHANGED <<sGen, sStore, sTab, sClosed>>
        /\ sCalls' = sCalls \union {Call(t, k)}
        /\ sSpoiled' = (sSpoiled \/ \E c \in sCalls : c.kind = "password")
    BY <1>4 DEF Send
  <2>2. /\ Call(t, k) \in Calls /\ Call(t, k).tab = t /\ Call(t, k).kind = k
        /\ Call(t, k).st = "sent" /\ Call(t, k).gen = sTab[t]
    BY DEF Call, Calls, Grants, Out
  <2>3. ~sSpoiled' => ~sSpoiled /\ \A c \in sCalls : c.kind # "password"
    BY <2>1, Zenon
  <2>5. SessionTypes' /\ Ungranted' /\ Closed'
    BY <2>1, <2>2
  <2>6. Current'
    BY <2>1, <2>2, <2>3 DEF Changed
  <2> QED BY <2>5, <2>6
<1> QED BY <1>1, <1>2, <1>3, <1>4

\* The server answers a call, or an administrator changes the password.
LEMMA SessionServed ==
  ASSUME SessionInv, Reset \/ \E c \in sCalls : Served(c) \/ Refused(c)
  PROVE  SessionInv'
<1> USE DEF SessionInv, SessionTypes, Ungranted, Closed, Current
<1>1. CASE Reset
  BY <1>1 DEF Reset, Changed
<1>2. ASSUME NEW c \in sCalls, c.st = "sent", NEW s, NEW g, Replied(c, s, g),
             s \in {"ok", "stale", "refused"}, g \in {Out, sGen},
             UNCHANGED <<sStore, sTab, sClosed, sGen, sSpoiled>>,
             s = "ok" /\ c.kind \in Grants =>
                g = sGen /\ c.kind # "password" /\ (c.kind = "refresh" => c.gen # Out)
      PROVE  SessionInv'
  <2> DEFINE d == [c EXCEPT !.st = s, !.got = g]
  <2>1. sCalls' = (sCalls \ {c}) \union {d}
    BY <1>2 DEF Replied
  <2>2. /\ d \in Calls /\ d.tab = c.tab /\ d.kind = c.kind /\ d.gen = c.gen
        /\ d.st = s /\ d.got = g
    <3>1. c \in Calls /\ g \in Int /\ s \in {"sent", "ok", "stale", "refused"}
      BY <1>2 DEF Out
    <3> HIDE DEF SessionInv
    <3> QED BY <3>1 DEF Calls
  <2> HIDE DEF d
  <2>3. SessionTypes' /\ Ungranted' /\ Closed'
    BY <1>2, <2>1, <2>2 DEF Grants
  <2>4. ASSUME ~sSpoiled PROVE \A e \in sCalls : ~Changed(e)
    BY <1>2, <2>4 DEF Changed
  <2>5. Current'
    BY <1>2, <2>1, <2>2, <2>4 DEF Changed, Grants
  <2> QED BY <2>3, <2>5
<1>3. ASSUME NEW c \in sCalls, Served(c) PROVE SessionInv'
  <2>1. c.st = "sent" /\ UNCHANGED <<sStore, sTab, sClosed>> /\ sGen # Out
    BY <1>3 DEF Served, Out
  <2>2. CASE \E s \in {"ok", "stale"} : c.kind = "call" /\ Replied(c, s, Out) /\ UNCHANGED <<sGen, sSpoiled>>
    BY <1>2, <2>1, <2>2 DEF Grants
  <2>3. CASE /\ c.kind = "login" \/ (c.kind = "refresh" /\ c.gen # Out)
             /\ Replied(c, "ok", sGen) /\ UNCHANGED <<sGen, sSpoiled>>
    BY <1>2, <2>1, <2>3
  <2>4. CASE /\ c.kind = "password" /\ c.gen # Out /\ sGen' = sGen + 1
             /\ Replied(c, "ok", sGen')
             /\ sSpoiled' = (sSpoiled \/ sCalls # {c} \/ \E t \in Tabs \ {c.tab} : sTab[t] # Out)
    <3> DEFINE d == [c EXCEPT !.st = "ok", !.got = sGen']
    <3>1. sCalls' = (sCalls \ {c}) \union {d}
      BY <2>4 DEF Replied
    <3>2. /\ d \in Calls /\ d.tab = c.tab /\ d.kind = c.kind /\ d.gen = c.gen
          /\ d.st = "ok" /\ d.got = sGen'
      <4>1. c \in Calls /\ sGen' \in Int
        BY <2>4
      <4> HIDE DEF SessionInv
      <4> QED BY <4>1 DEF Calls
    <3> HIDE DEF d
    <3>3. SessionTypes' /\ Ungranted' /\ Closed'
      BY <2>1, <2>4, <3>1, <3>2 DEF Grants
    <3>4. ~sSpoiled' => sCalls = {c} /\ \A t \in Tabs : t # c.tab => sTab[t] = Out
      BY <2>4, Zenon
    <3>5. ~sSpoiled' => sCalls' = {d}
      BY <3>1, <3>4
    <3>6. ~sSpoiled' => \A t \in Tabs : t # d.tab => sTab'[t] = Out
      BY <2>1, <3>2, <3>4
    <3>7. Current'
      <4> HIDE DEF SessionInv
      <4> QED BY <2>4, <3>2, <3>5, <3>6 DEF Changed
    <3> QED BY <3>3, <3>7
  <2> QED BY <1>3, <2>2, <2>3, <2>4 DEF Served
<1>4. ASSUME NEW c \in sCalls, Refused(c) PROVE SessionInv'
  BY <1>2, <1>4 DEF Refused
<1> QED BY <1>1, <1>3, <1>4

\* api.js handles an answer, or a failure.
LEMMA SessionAnswered ==
  ASSUME SessionInv, NEW c \in sCalls,
         CallAnswered(c) \/ Granted(c) \/ CallRefused(c) \/ CallLost(c)
  PROVE  SessionInv'
<1> USE DEF SessionInv, SessionTypes, Ungranted, Closed, Current
<1>1. CASE CallAnswered(c)
  <2> DEFINE d == Call(c.tab, "refresh")
  <2>1. /\ UNCHANGED <<sGen, sStore, sTab, sClosed>> /\ c.kind = "call"
        /\ sCalls' = sCalls \ {c} \/ (c.st = "stale" /\ sCalls' = (sCalls \ {c}) \union {d})
        /\ sSpoiled' = (sSpoiled \/ (c.st = "stale" /\ \E e \in sCalls : e.kind = "password"))
    BY <1>1 DEF CallAnswered, refreshToken
  <2>2. /\ d \in Calls /\ d.tab = c.tab /\ d.kind = "refresh" /\ d.gen = sTab[c.tab]
        /\ d.st = "sent"
    BY DEF Call, Calls, Grants, Out
  <2> HIDE DEF d
  <2>3. SessionTypes' /\ Ungranted'
    BY <2>1, <2>2
  <2>4. Closed'
    BY <2>1, <2>2 DEF Calls
  <2>5. ~sSpoiled' => ~sSpoiled /\ (c.st = "stale" => \A e \in sCalls : e.kind # "password")
    BY <2>1, Zenon
  <2>6. Current'
    BY <2>1, <2>2, <2>5 DEF Changed
  <2> QED BY <2>3, <2>4, <2>6
<1>2. CASE Granted(c)
  <2>1. /\ c.st = "ok" /\ c.kind \in Grants /\ sCalls' = sCalls \ {c}
        /\ sTab' = [sTab EXCEPT ![c.tab] = c.got] /\ sStore' = c.got
        /\ UNCHANGED <<sGen, sSpoiled>>
    BY <1>2 DEF Granted, login
  <2>4. sClosed' => c.kind # "login" /\ c.gen = Out
    BY <1>2, Zenon DEF Granted
  <2>5. ~sClosed'
    BY <2>1, <2>4 DEF Grants
  <2>2. SessionTypes' /\ Ungranted' /\ Closed'
    BY <2>1, <2>5 DEF Calls
  <2>3. Current'
    BY <2>1 DEF Changed, Calls
  <2> QED BY <2>2, <2>3
<1>3. CASE CallRefused(c)
  <2>1. c.st = "refused" /\ sCalls' = sCalls \ {c} /\ UNCHANGED <<sGen, sSpoiled>>
    BY <1>3 DEF CallRefused
  <2>2. CASE UNCHANGED <<sStore, sTab, sClosed>>
    BY <2>1, <2>2 DEF Changed
  <2>3. CASE /\ sTab' = [sTab EXCEPT ![c.tab] = Out] /\ sStore' = Out
             /\ sClosed' = ~InSession(sTab')
    <3>1. sClosed' => ~InSession(sTab')
      BY <2>3, Zenon
    <3>2. SessionTypes' /\ Ungranted' /\ Closed'
      BY <2>1, <2>3, <3>1 DEF InSession, Out, Calls
    <3>3. Current'
      BY <2>1, <2>3 DEF Changed, Calls
    <3> QED BY <3>2, <3>3
  <2> QED BY <1>3, <2>2, <2>3 DEF CallRefused, logout
<1>4. CASE CallLost(c)
  <2>1. /\ sCalls' = sCalls \ {c} /\ UNCHANGED <<sGen, sStore, sTab, sClosed>>
        /\ sSpoiled' = (sSpoiled \/ (c.kind = "password" /\ c.st = "ok"))
    BY <1>4 DEF CallLost
  <2>2. ~sSpoiled' => ~sSpoiled /\ ~Changed(c)
    BY <2>1, Zenon DEF Changed
  <2>3. Current'
    BY <2>1, <2>2 DEF Changed
  <2> QED BY <2>1, <2>3
<1> QED BY <1>1, <1>2, <1>3, <1>4

\* Every step of the session keeps the invariant.
LEMMA NextSession == SessionInv /\ [SessionNext]_<<page, sessionVars>> => SessionInv'
<1> SUFFICES ASSUME SessionInv, [SessionNext]_<<page, sessionVars>> PROVE SessionInv'
  OBVIOUS
<1>1. CASE OpenBrowser \/ UNCHANGED <<page, sessionVars>>
  BY <1>1 DEF OpenBrowser, sessionVars, SessionInv, SessionTypes, Ungranted, Closed, Current, Changed
<1>2. CASE CloseBrowser
  BY <1>2 DEF CloseBrowser, SessionInv, SessionTypes, Ungranted, Closed, Current, Changed, Out
<1> QED BY <1>1, <1>2, SessionUsed, SessionServed, SessionAnswered DEF SessionNext

\* The invariant gives what the page promises.
LEMMA SessionPromise == SessionInv => SessionSound
<1> SUFFICES ASSUME SessionInv PROVE SessionSound
  OBVIOUS
<1>1. sClosed => sStore = Out /\ ~InSession(sTab)
  BY DEF SessionInv, Closed, InSession
<1>2. ASSUME ~sSpoiled, NEW t \in Tabs, sTab[t] \notin {Out, sGen}
      PROVE  \E c \in sCalls : c.tab = t /\ c.kind = "password" /\ c.got = sGen
  <2>1. PICK c \in sCalls : Changed(c)
    BY <1>2 DEF SessionInv, Current
  <2>2. c.tab = t /\ c.got = sGen /\ c.kind = "password"
    BY <1>2, <2>1 DEF SessionInv, Current, Changed, Grants
  <2> QED BY <2>2
<1> QED BY <1>1, <1>2 DEF SessionSound

\* Once the user is out of the last tab, by a log out or a refusal, no tab has a
\* session nor does a reload find one, as long as no answer to a login is heard, nor
\* one to a refresh or a change of the password that was sent with a token.  And a
\* user who changes the password goes on with a token the server accepts, unless the
\* answer was lost, or another session, call or change was in the way.  For any
\* number of tabs, calls in flight and changes of the password (state.js, api.js,
\* Login.js, Users.js).
THEOREM SessionIsSound == SessionSpec => []SessionSound
<1> QED BY SessionPromise, InitSession, NextSession, PTL DEF SessionSpec

\* Which steps bring back a session that was ended in the last tab: the answer to a
\* login, and the late answer to a refresh or a change of the password that was sent
\* while there was a token.  These do bring it back: neither is looked at for the
\* log out that came in between.  No reload, no page, no refusal and no answer to a
\* call that was sent without a token does (login, logout, refreshToken).
EndedStays ==
    [][sClosed /\ InSession(sTab') =>
          \E c \in sCalls : Granted(c) /\ (c.kind = "login" \/ c.gen # Out)]_<<page, sessionVars>>

\* In every behaviour of the session, with any number of tabs and calls in flight:
\* the refusal, the refresh and the log out of api.js and state.js.
THEOREM EndedSessionStays == SessionSpec => EndedStays
<1>1. ASSUME SessionInv, SessionNext, sClosed, InSession(sTab')
      PROVE  \E c \in sCalls : Granted(c) /\ (c.kind = "login" \/ c.gen # Out)
  <2>0. sStore = Out /\ sTab \in [Tabs -> Int] /\ \A t \in Tabs : sTab[t] = Out
    BY <1>1 DEF SessionInv, SessionTypes, Closed
  <2>1. sTab' # sTab /\ sTab' # [t \in Tabs |-> Out]
    BY <1>1, <2>0 DEF InSession
  <2>2. ASSUME NEW c \in sCalls, Granted(c) PROVE c.kind = "login" \/ c.gen # Out
    BY <1>1, <2>2 DEF Granted, SessionInv, Ungranted, Grants
  <2>3. ASSUME NEW t \in Tabs, \/ Reload(t) \/ handleLogout(t)
                               \/ \E r \in Routes : Visit(t, r)
                               \/ \E k \in {"call", "login", "password"} : Send(t, k)
        PROVE  FALSE
    BY <2>0, <2>1, <2>3 DEF Reload, handleLogout, logout, Visit, Send
  <2>4. ASSUME NEW c \in sCalls, \/ Served(c) \/ Refused(c) \/ CallAnswered(c)
                                 \/ CallRefused(c) \/ CallLost(c)
        PROVE  FALSE
    <3>1. CASE CallRefused(c)
      BY <2>0, <2>1, <3>1 DEF CallRefused, logout
    <3> QED BY <2>1, <2>4, <3>1 DEF Served, Refused, CallAnswered, CallLost
  <2>5. ~OpenBrowser /\ ~CloseBrowser /\ ~Reset
    BY <2>1 DEF OpenBrowser, CloseBrowser, Reset, sessionVars
  <2> QED BY <1>1, <2>2, <2>3, <2>4, <2>5 DEF SessionNext
<1>2. SessionInv /\ [SessionNext]_<<page, sessionVars>> =>
        [sClosed /\ InSession(sTab') =>
            \E c \in sCalls : Granted(c) /\ (c.kind = "login" \/ c.gen # Out)]_<<page, sessionVars>>
  BY <1>1
<1> QED BY <1>2, InitSession, NextSession, PTL DEF SessionSpec, EndedStays

-----------------------------------------------------------------------------
(* ResourceView: polls, older pages and the first page leave no gap in the   *)
(* list of versions.                                                         *)

Fetches == [kind : {"load", "poll", "more", "resource", "pin", "unpin"},
            arg : Int, st : {"sent", "ok"}, low : Int, high : Int]

\* An answer is a page of the versions there were: a full one, or one that ends
\* with the first version.
Paged(f) == /\ f.high \in 0..latest
            /\ f.low = Higher(1, f.high - VersionPage + 1)

\* What is in flight: the first page, asked for before there is a cursor, and
\* one older page at a time, from the cursor there is.
Asked ==
    /\ fetches \subseteq Fetches
    /\ \A f \in fetches :
          /\ f.kind \in {"load", "poll", "more"} /\ f.st = "ok" => Paged(f)
          /\ f.kind = "load" => vOldest = 0 /\ ~vMore
          /\ f.kind = "more" => /\ vFetching /\ f.arg = vOldest /\ f.arg > 1
                                /\ f.st = "ok" => f.high = f.arg - 1
    /\ \A f, g \in fetches : f.kind = "more" /\ g.kind = "more" => f = g
    /\ \A f, g \in fetches : f.kind = "load" /\ g.kind = "load" => f = g

\* The versions shown are versions there are; the cursor is one of them, and tells
\* whether there is more.
Shown ==
    /\ latest \in Nat
    /\ versions \subseteq 1..latest
    /\ vOldest \in Nat /\ pinnedAt \in Int /\ vMore \in BOOLEAN
    /\ vOldest > 0 => vOldest \in versions
    /\ vMore <=> vOldest > 1

\* Above the cursor there is no gap, and the next page of a poll will leave none:
\* it reaches down to the newest version shown.
Reaches ==
    vOldest > 0 /\ ~behind => vOldest..Newest \subseteq versions /\ latest - Newest <= VersionPage

ResourceInv == Asked /\ Shown /\ Reaches /\ (page # "resource" => ResourceIdle)

-----------------------------------------------------------------------------
\* The largest element of a set of naturals that is bounded.
LEMMA Maximum ==
  ASSUME NEW n \in Nat, NEW S, S \subseteq 1..n, S # {}
  PROVE  \E m \in S : \A w \in S : w <= m
<1> DEFINE T == {n - s : s \in S}
<1>1. T \subseteq Nat /\ T # {}
  <2>1. \A s \in S : n - s \in Nat
    OBVIOUS
  <2>2. PICK s : s \in S
    OBVIOUS
  <2>3. n - s \in T
    BY <2>2
  <2> QED BY <2>1, <2>3
<1>2. IsWellFoundedOn(OpToRel(<, Nat), Nat)
  BY NatLessThanWellFounded
<1>3. PICK x \in T : \A y \in T : ~(<<y, x>> \in OpToRel(<, Nat))
  BY <1>1, <1>2, WFMin
<1>4. \A y \in T : ~(y < x)
  BY <1>1, <1>3 DEF OpToRel
<1>5. PICK m \in S : x = n - m
  OBVIOUS
<1>6. \A w \in S : w <= m
  BY <1>4, <1>5
<1> QED BY <1>6

\* Newest, of any set of versions.
TopOf(S) == IF S = {} THEN 0 ELSE CHOOSE v \in S : \A w \in S : w <= v

LEMMA TopIs ==
  ASSUME NEW n \in Nat, NEW S, S \subseteq 1..n
  PROVE  /\ S # {} => TopOf(S) \in S
         /\ TopOf(S) \in 0..n
         /\ \A w \in S : w <= TopOf(S)
<1>1. CASE S = {}
  BY <1>1 DEF TopOf
<1>2. CASE S # {}
  <2>1. \E m \in S : \A w \in S : w <= m
    BY <1>2, Maximum
  <2>2. TopOf(S) \in S /\ \A w \in S : w <= TopOf(S)
    BY <1>2, <2>1 DEF TopOf
  <2>3. TopOf(S) \in 1..n
    BY <2>2
  <2>4. TopOf(S) \in 0..n
    BY <2>3
  <2> QED BY <2>2, <2>4
<1> QED BY <1>1, <1>2

LEMMA NewestIs ==
  ASSUME latest \in Nat, versions \subseteq 1..latest
  PROVE  /\ versions # {} => Newest \in versions
         /\ Newest \in 0..latest
         /\ \A w \in versions : w <= Newest
<1>1. Newest = TopOf(versions)
  BY DEF Newest, TopOf
<1> QED BY <1>1, TopIs

LEMMA NewestBecomes ==
  ASSUME latest' \in Nat, versions' \subseteq 1..latest'
  PROVE  /\ versions' # {} => Newest' \in versions'
         /\ Newest' \in 0..latest'
         /\ \A w \in versions' : w <= Newest'
<1>1. Newest' = TopOf(versions')
  BY DEF Newest, TopOf
<1> QED BY <1>1, TopIs

\* Newest is of the versions alone.
LEMMA SameNewest == ASSUME versions' = versions PROVE Newest' = Newest
  BY DEF Newest

\* The page is mounted for the first time.
LEMMA InitResource == ResourceIdle => ResourceInv
<1> SUFFICES ASSUME ResourceIdle PROVE ResourceInv
  OBVIOUS
<1>1. Asked /\ Reaches
  BY DEF ResourceIdle, Asked, Reaches
<1>2. Shown
  <2>1. vMore <=> vOldest > 1
    <3>1. ~vMore /\ vOldest = 0
      BY DEF ResourceIdle
    <3>2. ~(vOldest > 1)
      BY <3>1
    <3> QED BY <3>1, <3>2
  <2>2. vMore \in BOOLEAN
    BY DEF ResourceIdle
  <2>3. latest = 0 /\ versions = {} /\ vOldest = 0 /\ pinnedAt = 0
    BY DEF ResourceIdle
  <2> QED BY <2>1, <2>2, <2>3 DEF Shown
<1> QED BY <1>1, <1>2 DEF ResourceInv

\* The list does not change when a request is sent, fails or has another answer.
LEMMA ListKept ==
  ASSUME Shown, Reaches, UNCHANGED <<latest, versions, vOldest, vMore, behind>>, pinnedAt' \in Int
  PROVE  Shown' /\ Reaches'
  BY SameNewest DEF Shown, Reaches

\* A request is sent: by the poll, by scrolling and by the pin.
LEMMA RequestSent ==
  ASSUME ResourceInv, PollVersions \/ onScroll \/ \E v \in Pinnable : onPinVersion(v)
  PROVE  ResourceInv'
<1> USE DEF ResourceInv
<1>1. /\ UNCHANGED <<latest, pinnedAt, versions, vOldest, vMore, behind>>
      /\ page = "resource" /\ page' = page
  BY DEF PollVersions, onScroll, onPinVersion, On, paging
<1>2. Shown' /\ Reaches'
  BY <1>1, ListKept DEF Shown
<1>3. CASE PollVersions
  <2>1. /\ fetches' = fetches \union {Fetch("poll", 0), Fetch("resource", 0)} /\ vFetching' = vFetching
    BY <1>3 DEF PollVersions, paging
  <2>2. \A f \in {Fetch("poll", 0), Fetch("resource", 0)} :
          f \in Fetches /\ f.kind \notin {"load", "more"} /\ f.st = "sent"
    BY DEF Fetch, Fetches
  <2>3. Asked'
    BY <1>1, <2>1, <2>2 DEF Asked, Paged
  <2> QED BY <1>1, <1>2, <2>3
<1>4. CASE onScroll
  <2> DEFINE f == Fetch("more", vOldest)
  <2>1. fetches' = fetches \union {f} /\ vFetching' = TRUE /\ ~vFetching /\ vMore
    BY <1>4 DEF onScroll
  <2>2. f \in Fetches /\ f.kind = "more" /\ f.st = "sent" /\ f.arg = vOldest /\ vOldest > 1
    BY <2>1 DEF Fetch, Fetches, Shown
  <2> HIDE DEF f
  <2>3. \A g \in fetches : g.kind # "more" /\ g.kind # "load"
    BY <2>1 DEF Asked
  <2>4. Asked'
    BY <1>1, <2>1, <2>2, <2>3 DEF Asked, Paged
  <2> QED BY <1>1, <1>2, <2>4
<1>5. ASSUME NEW v \in Pinnable, onPinVersion(v) PROVE ResourceInv'
  <2>1. PICK k \in {"pin", "unpin"} : fetches' = fetches \union {Fetch(k, v)}
    BY <1>5 DEF onPinVersion
  <2>2. v \in Int /\ vFetching' = vFetching
    BY <1>5, ResourceAssumption DEF onPinVersion, paging
  <2>3. /\ Fetch(k, v) \in Fetches /\ Fetch(k, v).kind \notin {"load", "more", "poll"}
        /\ Fetch(k, v).st = "sent"
    BY <2>2 DEF Fetch, Fetches
  <2>4. Asked'
    BY <1>1, <2>1, <2>2, <2>3 DEF Asked, Paged
  <2> QED BY <1>1, <1>2, <2>4
<1> QED BY <1>3, <1>4, <1>5

\* The server answers a request.
LEMMA RequestAnswered == ASSUME ResourceInv, NEW f \in fetches, AnswerFetch(f) PROVE ResourceInv'
<1> USE DEF ResourceInv
<1> DEFINE high == IF f.kind = "more" THEN f.arg - 1 ELSE latest
           low == Higher(1, high - VersionPage + 1)
           answer == CASE f.kind = "resource" -> [f EXCEPT !.st = "ok", !.arg = pinnedAt]
                       [] f.kind \in {"pin", "unpin"} -> [f EXCEPT !.st = "ok"]
                       [] OTHER -> [f EXCEPT !.st = "ok", !.low = low, !.high = high]
<1>0. PICK g : g = answer
  OBVIOUS
<1>1. /\ UNCHANGED <<latest, versions, vOldest, vMore, vFetching, behind>>
      /\ page = "resource" /\ page' = page /\ f.st = "sent"
      /\ fetches' = (fetches \ {f}) \union {g}
  BY <1>0 DEF AnswerFetch, On, paging
<1>2. f \in Fetches /\ pinnedAt \in Int /\ pinnedAt' \in Int
  <2>1. f \in Fetches /\ pinnedAt \in Int
    BY DEF Asked, Shown
  <2> QED BY <2>1 DEF AnswerFetch, Fetches
<1>3. Shown' /\ Reaches'
  BY <1>1, <1>2, ListKept
<1>4. f.kind = "more" => f.arg > 1 /\ f.arg \in versions /\ f.arg <= latest
  BY DEF Asked, Shown
<1>5. latest \in Nat /\ VersionPage \in Nat /\ f.arg \in Int
  BY <1>2, ResourceAssumption DEF Shown, Fetches
<1>6. high \in 0..latest /\ low \in Int
  BY <1>4, <1>5 DEF Higher
<1>7. /\ g \in Fetches /\ g.kind = f.kind /\ g.st = "ok"
      /\ f.kind \in {"load", "poll", "more"} => g.arg = f.arg /\ g.low = low /\ g.high = high
  <2>1. CASE f.kind = "resource"
    BY <1>0, <1>2, <2>1 DEF Fetches
  <2>2. CASE f.kind \in {"pin", "unpin"}
    BY <1>0, <1>2, <2>2 DEF Fetches
  <2>3. CASE f.kind \in {"load", "poll", "more"}
    <3>1. g = [f EXCEPT !.st = "ok", !.low = low, !.high = high]
      BY <1>0, <2>3
    <3> HIDE DEF answer, low, high, ResourceInv
    <3>2. high \in Int /\ low \in Int
      BY <1>5, <1>6
    <3>3. g \in Fetches
      BY <1>2, <3>1, <3>2 DEF Fetches
    <3>4. /\ g.kind = f.kind /\ g.st = "ok" /\ g.arg = f.arg
          /\ g.low = low /\ g.high = high
      BY <1>2, <3>1 DEF Fetches
    <3> QED BY <3>3, <3>4
  <2> QED BY <1>2, <2>1, <2>2, <2>3 DEF Fetches
<1>8. f.kind \in {"load", "poll", "more"} => Paged(g)'
  BY <1>1, <1>6, <1>7 DEF Paged
<1> HIDE DEF answer, low, high
<1>9. Asked'
  <2>1. fetches' \subseteq Fetches
    BY <1>1, <1>7 DEF Asked
  <2>2. ASSUME NEW h \in fetches \ {f}
        PROVE  /\ h.kind \in {"load", "poll", "more"} /\ h.st = "ok" => Paged(h)'
               /\ h.kind = "load" => vOldest' = 0 /\ ~vMore'
               /\ h.kind = "more" => /\ vFetching' /\ h.arg = vOldest' /\ h.arg > 1
                                     /\ h.st = "ok" => h.high = h.arg - 1
    BY <1>1 DEF Asked, Paged
  <2>3. /\ g.kind = "load" => vOldest' = 0 /\ ~vMore'
        /\ g.kind = "more" => vFetching' /\ g.arg = vOldest' /\ g.arg > 1
    BY <1>1, <1>7 DEF Asked
  <2>4. g.kind = "more" => g.high = g.arg - 1
    BY <1>7 DEF high
  <2>5. \A h \in fetches \ {f} : h.kind \in {"more", "load"} => g.kind # h.kind
    BY <1>7 DEF Asked
  <2>6. /\ \A h, k \in fetches' : h.kind = "more" /\ k.kind = "more" => h = k
        /\ \A h, k \in fetches' : h.kind = "load" /\ k.kind = "load" => h = k
    BY <1>1, <2>5 DEF Asked
  <2>7. ASSUME NEW h \in fetches'
        PROVE  /\ h.kind \in {"load", "poll", "more"} /\ h.st = "ok" => Paged(h)'
               /\ h.kind = "load" => vOldest' = 0 /\ ~vMore'
               /\ h.kind = "more" => /\ vFetching' /\ h.arg = vOldest' /\ h.arg > 1
                                     /\ h.st = "ok" => h.high = h.arg - 1
    <3>1. CASE h = g
      BY <1>7, <1>8, <2>3, <2>4, <3>1
    <3>2. CASE h # g
      BY <1>1, <2>2, <3>2
    <3> QED BY <3>1, <3>2
  <2> QED BY <2>1, <2>6, <2>7 DEF Asked
<1> QED BY <1>1, <1>3, <1>9

\* A request fails, or brings the resource or the end of a pin.
LEMMA RequestEnded ==
  ASSUME ResourceInv, NEW f \in fetches, FetchFails(f) \/ ResourceShown(f) \/ PinDone(f)
  PROVE  ResourceInv'
<1> USE DEF ResourceInv
<1>1. /\ UNCHANGED <<latest, pinnedAt, versions, vOldest, vMore, behind>>
      /\ page = "resource" /\ page' = page /\ fetches' = fetches \ {f}
  BY DEF FetchFails, ResourceShown, PinDone, Fetched, On, paging
<1>2. vFetching' = (vFetching /\ f.kind # "more") \/ vFetching' = vFetching
  BY DEF FetchFails, ResourceShown, PinDone, paging
<1>3. \A g \in fetches' : g.kind = "more" => vFetching'
  <2> SUFFICES ASSUME NEW g \in fetches', g.kind = "more" PROVE vFetching'
    OBVIOUS
  <2>1. g \in fetches /\ g # f /\ vFetching
    BY <1>1 DEF Asked
  <2>2. f.kind # "more"
    BY <2>1 DEF Asked
  <2> QED BY <1>2, <2>1, <2>2, Zenon
<1>4. Asked'
  BY <1>1, <1>3 DEF Asked, Paged
<1>5. Shown' /\ Reaches'
  BY <1>1, ListKept DEF Shown
<1> QED BY <1>1, <1>4, <1>5

\* A check finds a version: what was shown is one more behind.
LEMMA VersionFound == ASSUME ResourceInv, NewVersion PROVE ResourceInv'
<1> USE DEF ResourceInv
<1>1. /\ UNCHANGED <<pinnedAt, versions, vOldest, vMore, vFetching, fetches>>
      /\ page = "resource" /\ page' = page /\ latest' = latest + 1
      /\ Behind(latest', Newest)
  BY DEF NewVersion, On, paging
<1>2. latest \in Nat /\ VersionPage \in Nat
  BY ResourceAssumption DEF Shown
<1>3. Asked'
  BY <1>1, <1>2 DEF Asked, Paged
<1>4. Shown'
  BY <1>1, <1>2 DEF Shown
<1>5. Reaches'
  <2>1. Newest' = Newest /\ Newest \in 0..latest /\ \A w \in versions : w <= Newest
    BY <1>1, SameNewest, NewestIs DEF Shown
  <2>2. ~behind' => ~behind /\ ~(Newest > 0 /\ latest' - Newest > VersionPage)
    BY <1>1, Zenon DEF Behind
  <2>3. vOldest > 0 => Newest > 0
    BY <2>1 DEF Shown
  <2> QED BY <1>1, <1>2, <2>1, <2>2, <2>3 DEF Reaches, Shown
<1> QED BY <1>1, <1>3, <1>4, <1>5

\* What a page adds, and what Meta makes of it.
LEMMA PageIs ==
  ASSUME latest \in Nat, NEW f, Paged(f)
  PROVE  /\ f.low \in Nat /\ f.high \in Nat /\ f.low >= 1
         /\ PageOf(f) \subseteq 1..latest
         /\ f.high > 0 => f.low <= f.high /\ f.low \in PageOf(f) /\ f.high \in PageOf(f)
         /\ f.high = 0 => PageOf(f) = {} /\ f.low = 1
         /\ \A v \in Nat : v \in PageOf(f) <=> f.low <= v /\ v <= f.high
         /\ \A n \in Nat : f.high - n <= VersionPage => f.low <= n + 1
<1>1. VersionPage \in Nat /\ VersionPage > 0
  BY ResourceAssumption
<1>2. f.high \in Nat /\ f.high <= latest
  BY DEF Paged
<1>3. f.low \in Nat /\ f.low >= 1 /\ (f.high > 0 => f.low <= f.high) /\ (f.high = 0 => f.low = 1)
  BY <1>1, <1>2 DEF Paged, Higher
<1>4. \A n \in Nat : f.high - n <= VersionPage => f.low <= n + 1
  BY <1>1, <1>2 DEF Paged, Higher
<1> QED BY <1>2, <1>3, <1>4 DEF PageOf

\* Requests go on as before when one of them is handled and the cursor stays.
LEMMA OthersAsked ==
  ASSUME Asked, NEW f \in fetches, fetches' = fetches \ {f},
         UNCHANGED <<latest, vOldest, vMore, vFetching>>
  PROVE  Asked'
  BY DEF Asked, Paged

\* A poll brings the newest page, which reaches what is shown.
LEMMA PollMerged == ASSUME ResourceInv, NEW f \in fetches, MergeVersions(f) PROVE ResourceInv'
<1> USE DEF ResourceInv
<1>1. /\ UNCHANGED <<latest, pinnedAt, vOldest, vMore, vFetching, behind>>
      /\ page = "resource" /\ page' = page /\ fetches' = fetches \ {f}
      /\ versions' = versions \union PageOf(f) /\ f.kind = "poll" /\ f.st = "ok"
  BY DEF MergeVersions, Fetched, On, paging
<1>2. Paged(f) /\ latest \in Nat
  BY <1>1 DEF Asked, Shown
<1>3. Asked'
  BY <1>1, OthersAsked
<1>4. Shown'
  BY <1>1, <1>2, PageIs DEF Shown
<1>5. Reaches'
  <2> SUFFICES ASSUME vOldest > 0, ~behind
               PROVE  vOldest..Newest' \subseteq versions' /\ latest - Newest' <= VersionPage
    BY <1>1 DEF Reaches
  <2>1. /\ Newest \in versions /\ Newest \in Nat /\ \A w \in versions : w <= Newest
        /\ vOldest..Newest \subseteq versions /\ latest - Newest <= VersionPage
        /\ vOldest \in Nat /\ VersionPage \in Nat
    BY NewestIs, ResourceAssumption DEF Shown, Reaches
  <2>2. Newest' \in versions' /\ Newest' \in Nat /\ \A w \in versions' : w <= Newest'
    <3>1. /\ versions' # {} => Newest' \in versions'
          /\ Newest' \in 0..latest' /\ \A w \in versions' : w <= Newest'
      BY <1>4, NewestBecomes DEF Shown
    <3> QED BY <1>1, <2>1, <3>1
  <2>3. Newest <= Newest'
    BY <1>1, <2>1, <2>2
  <2>4. f.high - Newest <= VersionPage
    BY <1>2, <2>1 DEF Paged
  <2>5. f.low <= Newest + 1 /\ f.low \in Nat /\ f.high \in Nat
    BY <1>2, <2>1, <2>4, PageIs
  <2>6. Newest' = Newest \/ Newest' \in PageOf(f)
    BY <1>1, <2>1, <2>2, <2>3
  <2>7. ASSUME NEW v \in vOldest..Newest', v > Newest PROVE v \in PageOf(f)
    <3>1. Newest' <= f.high /\ v \in Nat /\ v <= Newest'
      BY <2>1, <2>2, <2>6, <2>7 DEF PageOf
    <3>2. f.low <= v /\ v <= f.high
      BY <2>1, <2>2, <2>5, <2>7, <3>1
    <3> QED BY <2>5, <3>1, <3>2 DEF PageOf
  <2>8. ASSUME NEW v \in vOldest..Newest', ~(v > Newest) PROVE v \in versions
    BY <2>1, <2>2, <2>8
  <2>9. latest - Newest' <= VersionPage
    <3>1. latest \in Int /\ Newest \in Int /\ Newest' \in Int /\ VersionPage \in Int
      BY <1>2, <2>1, <2>2
    <3>2. latest - Newest <= VersionPage
      BY <2>1
    <3>3. \A a, b, c, d \in Int : a - b <= d /\ b <= c => a - c <= d
      OBVIOUS
    <3> HIDE DEF ResourceInv
    <3> QED BY <2>3, <3>1, <3>2, <3>3
  <2> QED BY <1>1, <2>7, <2>8, <2>9
<1> QED BY <1>1, <1>3, <1>4, <1>5

\* The first page replaces what a poll has shown.
LEMMA FirstPage == ASSUME ResourceInv, NEW f \in fetches, LoadVersions(f) PROVE ResourceInv'
<1> USE DEF ResourceInv
<1>1. /\ UNCHANGED <<latest, pinnedAt, vFetching>> /\ Meta(f) /\ Behind(latest, f.high)
      /\ page = "resource" /\ page' = page /\ fetches' = fetches \ {f}
      /\ versions' = PageOf(f) /\ f.kind = "load" /\ f.st = "ok"
  BY DEF LoadVersions, Fetched, On
<1>2. Paged(f) /\ latest \in Nat /\ VersionPage \in Nat
  BY <1>1, ResourceAssumption DEF Asked, Shown
<1>3. \A g \in fetches' : g.kind # "more" /\ g.kind # "load"
  BY <1>1 DEF Asked
<1>4. Asked'
  BY <1>1, <1>3 DEF Asked, Paged
<1>5. Shown'
  <2>1. versions' \subseteq 1..latest' /\ latest' \in Nat /\ pinnedAt' \in Int
    BY <1>1, <1>2, PageIs DEF Shown
  <2>2. vOldest' = (IF f.high = 0 THEN 0 ELSE f.low) /\ vMore' = (f.low > 1 /\ f.high > 0)
    BY <1>1 DEF Meta
  <2>3. vOldest' \in Nat /\ (vOldest' > 0 => vOldest' \in versions')
    BY <1>1, <1>2, <2>2, PageIs
  <2>4. vOldest' > 1 <=> f.low > 1 /\ f.high > 0
    BY <1>2, <2>2, PageIs
  <2>5. vMore' \in BOOLEAN /\ (vMore' <=> vOldest' > 1)
    BY <2>2, <2>4, Zenon
  <2> QED BY <2>1, <2>3, <2>5 DEF Shown
<1>6. Reaches'
  <2> SUFFICES ASSUME vOldest' > 0, ~behind'
               PROVE  vOldest'..Newest' \subseteq versions' /\ latest - Newest' <= VersionPage
    BY <1>1 DEF Reaches
  <2>1. f.high > 0 /\ vOldest' = f.low /\ f.low \in Nat /\ f.high \in Nat
    BY <1>1, <1>2, PageIs DEF Meta
  <2>2. latest - f.high <= VersionPage
    <3>1. ~(f.high > 0 /\ latest - f.high > VersionPage)
      BY <1>1, Zenon DEF Behind
    <3> QED BY <1>2, <2>1, <3>1
  <2>3. Newest' = f.high
    <3>1. /\ versions' # {} => Newest' \in versions'
          /\ Newest' \in 0..latest' /\ \A w \in versions' : w <= Newest'
      BY <1>5, NewestBecomes DEF Shown
    <3>2. f.high \in versions'
      BY <1>1, <1>2, <2>1, PageIs
    <3> QED BY <1>1, <2>1, <3>1, <3>2 DEF PageOf
  <2> QED BY <1>1, <2>1, <2>2, <2>3 DEF PageOf
<1> QED BY <1>1, <1>4, <1>5, <1>6

\* An older page is added below the cursor, which moves to its end.
LEMMA OlderPage == ASSUME ResourceInv, NEW f \in fetches, MoreVersions(f) PROVE ResourceInv'
<1> USE DEF ResourceInv
<1>1. /\ UNCHANGED <<latest, pinnedAt, behind>> /\ Meta(f)
      /\ page = "resource" /\ page' = page /\ fetches' = fetches \ {f}
      /\ versions' = versions \union PageOf(f) /\ f.kind = "more" /\ f.st = "ok"
  BY DEF MoreVersions, Fetched, On
<1>2. Paged(f) /\ latest \in Nat /\ VersionPage \in Nat
  BY <1>1, ResourceAssumption DEF Asked, Shown
<1>3. \A g \in fetches' : g.kind # "more" /\ g.kind # "load"
  BY <1>1 DEF Asked
<1>4. Asked'
  BY <1>1, <1>3 DEF Asked, Paged
<1>5. vOldest \in Nat /\ vOldest > 1 /\ f.high = vOldest - 1 /\ vOldest \in versions
  BY <1>1 DEF Asked, Shown
<1>6. vOldest' = f.low /\ vMore' = (f.low > 1 /\ f.high > 0) /\ f.high > 0
  BY <1>1, <1>5 DEF Meta
<1>7. Shown'
  <2>1. versions' \subseteq 1..latest' /\ latest' \in Nat /\ pinnedAt' \in Int
    BY <1>1, <1>2, PageIs DEF Shown
  <2>2. vOldest' \in Nat /\ vOldest' \in versions'
    BY <1>1, <1>2, <1>6, PageIs
  <2>3. vMore' \in BOOLEAN /\ (vMore' <=> vOldest' > 1)
    BY <1>6, Zenon
  <2> QED BY <2>1, <2>2, <2>3 DEF Shown
<1>8. Reaches'
  <2> SUFFICES ASSUME ~behind
               PROVE  vOldest'..Newest' \subseteq versions' /\ latest - Newest' <= VersionPage
    BY <1>1 DEF Reaches
  <2>1. /\ Newest \in versions /\ Newest \in Nat /\ \A w \in versions : w <= Newest
        /\ vOldest..Newest \subseteq versions /\ latest - Newest <= VersionPage
    BY <1>5, NewestIs DEF Shown, Reaches
  <2>2. Newest' = Newest
    <3>1. /\ versions' # {} => Newest' \in versions'
          /\ Newest' \in 0..latest' /\ \A w \in versions' : w <= Newest'
      BY <1>7, NewestBecomes DEF Shown
    <3>2. Newest' \in versions' /\ Newest <= Newest' /\ Newest' \in Nat
      BY <1>1, <1>2, <2>1, <3>1
    <3>3. vOldest <= Newest
      BY <1>5, <2>1
    <3>4. \A w \in PageOf(f) : w < vOldest
      BY <1>5 DEF PageOf
    <3> QED BY <1>1, <1>5, <2>1, <3>2, <3>3, <3>4
  <2>3. ASSUME NEW v \in vOldest'..Newest' PROVE v \in versions'
    <3>1. v \in Nat /\ f.low <= v /\ v <= Newest /\ f.low \in Nat
      BY <1>2, <1>6, <2>1, <2>2, PageIs
    <3>2. CASE v >= vOldest
      BY <1>1, <1>5, <2>1, <3>1, <3>2
    <3>3. CASE ~(v >= vOldest)
      BY <1>1, <1>5, <3>1, <3>3 DEF PageOf
    <3> QED BY <3>2, <3>3
  <2> QED BY <2>1, <2>2, <2>3
<1> QED BY <1>1, <1>4, <1>7, <1>8

\* The page is mounted and left.
LEMMA ResourceMounted ==
  ASSUME ResourceInv, LeaveVersions \/ \E n \in 0..MaxVersion : OpenVersions(n)
  PROVE  ResourceInv'
<1>1. CASE LeaveVersions
  <2>1. ResourceIdle'
    BY <1>1 DEF LeaveVersions, ResourceIdle
  <2>2. Asked' /\ Reaches'
    BY <2>1 DEF ResourceIdle, Asked, Reaches
  <2>3. Shown'
    <3>1. ~vMore' /\ vOldest' = 0 /\ vMore' \in BOOLEAN
      BY <2>1 DEF ResourceIdle
    <3>2. vMore' <=> vOldest' > 1
      BY <3>1
    <3>3. latest' = 0 /\ versions' = {} /\ pinnedAt' = 0
      BY <2>1 DEF ResourceIdle
    <3> QED BY <3>1, <3>2, <3>3 DEF Shown
  <2> QED BY <2>1, <2>2, <2>3 DEF ResourceInv
<1>2. ASSUME NEW n \in 0..MaxVersion, OpenVersions(n) PROVE ResourceInv'
  <2>1. /\ page' = "resource" /\ latest' = n /\ fetches' = {Fetch("load", 0), Fetch("resource", 0)}
        /\ ResourceIdle /\ UNCHANGED <<pinnedAt, versions, vOldest, vMore, vFetching, behind>>
    BY <1>2 DEF OpenVersions, Enter, Elsewhere, ResourceInv, paging
  <2>2. n \in Nat
    BY ResourceAssumption
  <2>3. /\ Fetch("load", 0) \in Fetches /\ Fetch("load", 0).kind = "load"
        /\ Fetch("load", 0).st = "sent"
        /\ Fetch("resource", 0) \in Fetches /\ Fetch("resource", 0).kind = "resource"
    BY DEF Fetch, Fetches
  <2>4. Asked'
    BY <2>1, <2>3 DEF Asked, ResourceIdle
  <2>5. Shown'
    <3>1. vMore' \in BOOLEAN /\ (vMore' <=> vOldest' > 1) /\ vOldest' = 0
      BY <2>1 DEF ResourceInv, Shown, ResourceIdle
    <3> QED BY <2>1, <2>2, <3>1 DEF ResourceIdle, Shown
  <2>6. Reaches'
    BY <2>1 DEF ResourceIdle, Reaches
  <2> QED BY <2>1, <2>4, <2>5, <2>6 DEF ResourceInv
<1> QED BY <1>1, <1>2

\* Every step of the page keeps the invariant.
LEMMA NextResource == ResourceInv /\ [ResourceNext]_<<page, resourceVars>> => ResourceInv'
<1> SUFFICES ASSUME ResourceInv, [ResourceNext]_<<page, resourceVars>> PROVE ResourceInv'
  OBVIOUS
<1>1. CASE UNCHANGED <<page, resourceVars>>
  BY <1>1 DEF resourceVars, ResourceInv, ResourceIdle, Asked, Paged, Shown, Reaches, Newest
<1>2. ASSUME NEW f \in fetches,
             \/ AnswerFetch(f) \/ FetchFails(f) \/ LoadVersions(f)
             \/ MergeVersions(f) \/ MoreVersions(f) \/ ResourceShown(f) \/ PinDone(f)
      PROVE  ResourceInv'
  BY <1>2, RequestAnswered, RequestEnded, FirstPage, PollMerged, OlderPage
<1> QED BY <1>1, <1>2, ResourceMounted, VersionFound, RequestSent DEF ResourceNext

\* The invariant gives what the page promises.
LEMMA ResourcePromise == ResourceInv => VersionsWhole
  BY DEF ResourceInv, Shown, Reaches, VersionsWhole

\* The list of versions has no gap above its cursor and can be scrolled to the first
\* version, for any number of versions, size of a page and requests in flight, as
\* long as a page holds the versions found between two polls (ResourceVersions).
THEOREM VersionsAreWhole == ResourceSpec => []VersionsWhole
<1> QED BY ResourcePromise, InitResource, NextResource, PTL DEF ResourceSpec

-----------------------------------------------------------------------------
(* PipelineGrid: when the grid waits for nothing it shows what its fields    *)
(* and its URL name.                                                         *)

GridRequests == [at : ListState, stale : BOOLEAN, st : {"sent", "counted", "ok", "failed"},
                 total : Nat, n : Int]

GridTypes ==
    /\ lTotal \in [Searches -> Nat]
    /\ lAt \in ListState /\ lTyped \in Searches
    /\ lReqs \subseteq GridRequests

\* One request at most has not been overtaken, and it is for what the fields name.
OneAsked ==
    /\ \A r, s \in lReqs : ~r.stale /\ ~s.stale => r = s
    /\ \A r \in lReqs : ~r.stale => r.at = lAt

\* Without it, the answer is shown, and it was not a page beyond the last.
Filled ==
    (\A r \in lReqs : r.stale) /\ ~lMissed =>
        /\ lShown.at = lAt
        /\ lShown.n = 0 => lShown.at.page = 1 \/ lShown.total = 0

\* The URL follows the list state, and the timer runs while the typed text is
\* ahead of it.
Fields == lUrl = writeListState(lAt) /\ (lTimer <=> lTyped # lAt.q)

GridInv == GridTypes /\ OneAsked /\ Filled /\ Fields

-----------------------------------------------------------------------------
\* A list state survives the URL.
LEMMA UrlRoundTrip == ASSUME NEW s \in ListState PROVE readListState(writeListState(s)) = s
<1>1. s = [page |-> s.page, q |-> s.q, sort |-> s.sort]
  BY DEF ListState
<1>2. s.page \in Nat /\ s.page > 0 /\ s.q # "none" /\ s.sort \in SORTS
  BY GridAssumption DEF ListState
<1>3. "none" \notin SORTS /\ s.sort # "none"
  BY <1>2 DEF SORTS
<1> DEFINE u == writeListState(s)
<1>4. /\ u.page = IF s.page > 1 THEN s.page ELSE 0
      /\ u.q = IF s.q = NoSearch THEN "none" ELSE s.q
      /\ u.sort = IF s.sort = "name" THEN "none" ELSE s.sort
  BY DEF writeListState
<1> HIDE DEF u
<1>5. (IF u.page > 0 THEN u.page ELSE 1) = s.page
  BY <1>2, <1>4
<1>6. (IF u.q = "none" THEN NoSearch ELSE u.q) = s.q
  BY <1>2, <1>4
<1>7. (IF u.sort \in SORTS THEN u.sort ELSE "name") = s.sort
  BY <1>2, <1>3, <1>4
<1>8. readListState(u) = s
  BY <1>1, <1>5, <1>6, <1>7 DEF readListState
<1> QED BY <1>8 DEF u

\* What is read from a URL is a list state.
LEMMA UrlRead ==
  ASSUME NEW u, u.page \in Nat, u.q \in Searches \union {"none"}
  PROVE  readListState(u) \in ListState
  BY GridAssumption DEF readListState, ListState, SORTS

\* There is a last page when something matches.
LEMMA LastPageIs == ASSUME NEW n \in Nat, n > 0 PROVE ceil(n) \in Nat \ {0}
<1>1. GridPage \in Nat /\ GridPage > 0
  BY GridAssumption
<1>2. n + GridPage - 1 >= GridPage /\ n + GridPage - 1 \in Nat
  BY <1>1
<1>3. \A a, b \in Nat : b > 0 /\ a >= b => a \div b \in Nat \ {0}
  OBVIOUS
<1> QED BY <1>1, <1>2, <1>3 DEF ceil

\* The first request for a list state.
Request(s) == [at |-> s, stale |-> FALSE, st |-> "sent", total |-> 0, n |-> 0]

LEMMA RequestIs ==
  ASSUME NEW s \in ListState
  PROVE  Request(s) \in GridRequests /\ Request(s).at = s /\ ~Request(s).stale
  BY DEF Request, GridRequests

\* Requests after which everything asked before is overtaken.
LEMMA AskedAnew ==
  ASSUME NEW s \in ListState, NEW old, old \subseteq GridRequests, \A r \in old : r.stale,
         lReqs' = old \union {Request(s)}, lAt' = s
  PROVE  lReqs' \subseteq GridRequests /\ OneAsked' /\ Filled'
<1>1. lReqs' \subseteq GridRequests
  BY RequestIs
<1>2. OneAsked'
  BY RequestIs DEF OneAsked
<1>3. Filled'
  BY RequestIs DEF Filled
<1> QED BY <1>1, <1>2, <1>3

\* A new list state is in the URL and asked for, and answers to the one before will
\* be dropped.
LEMMA ListStateSet ==
  ASSUME GridInv, NEW s \in ListState, SetListState(s), lShown' = lShown
  PROVE  /\ lAt' = s /\ lUrl' = writeListState(s) /\ lReqs' \subseteq GridRequests
         /\ OneAsked' /\ Filled'
<1>1. CASE s = lAt
  BY <1>1 DEF SetListState, GridInv, GridTypes, OneAsked, Filled, Fields
<1>2. CASE s # lAt
  <2> DEFINE old == {[r EXCEPT !.stale = TRUE] : r \in lReqs}
  <2>1. lAt' = s /\ lUrl' = writeListState(s) /\ lReqs' = old \union {Request(s)}
    BY <1>2 DEF SetListState, Request
  <2>2. \A r \in GridRequests : [r EXCEPT !.stale = TRUE] \in GridRequests /\ [r EXCEPT !.stale = TRUE].stale
    BY DEF GridRequests
  <2>3. old \subseteq GridRequests /\ \A r \in old : r.stale
    BY <2>2 DEF GridInv, GridTypes
  <2> HIDE DEF old
  <2> QED BY <2>1, <2>3, AskedAnew
<1> QED BY <1>1, <1>2

\* The page is mounted for the first time.
LEMMA InitGrid == GridIdle => GridInv
<1> SUFFICES ASSUME GridIdle PROVE GridInv
  OBVIOUS
<1>1. NoShown.at \in ListState /\ NoShown.at.q = NoSearch
  BY GridAssumption DEF NoShown, ListState, SORTS
<1>2. GridTypes /\ OneAsked /\ Filled
  BY <1>1, GridAssumption DEF GridIdle, GridTypes, OneAsked, Filled
<1>3. Fields
  BY <1>1 DEF GridIdle, Fields
<1> QED BY <1>2, <1>3 DEF GridInv

\* A link, a reload or the back button; and the page is left.
LEMMA GridMounted ==
  ASSUME GridInv, CloseGrid \/ \E u \in GridLinks \union {lUrl} : OpenGrid(u)
  PROVE  GridInv'
<1>1. CASE CloseGrid
  <2>1. NoShown.at \in ListState /\ NoShown.at.q = NoSearch
    BY GridAssumption DEF NoShown, ListState, SORTS
  <2>2. GridTypes' /\ OneAsked' /\ Filled'
    BY <1>1, <2>1, GridAssumption DEF CloseGrid, GridTypes, OneAsked, Filled
  <2>3. Fields'
    BY <1>1, <2>1 DEF CloseGrid, Fields
  <2> QED BY <2>2, <2>3 DEF GridInv
<1>2. ASSUME NEW u \in GridLinks \union {lUrl}, OpenGrid(u) PROVE GridInv'
  <2>1. PICK s : s = readListState(u)
    OBVIOUS
  <2>2. s \in ListState
    <3>1. CASE u = lUrl
      BY <2>1, <3>1, UrlRoundTrip DEF GridInv, GridTypes, Fields
    <3>2. CASE u \in GridLinks
      <4>1. u.page \in Nat /\ u.q \in Searches \union {"none"}
        BY <3>2, GridAssumption
      <4> QED BY <2>1, <4>1, UrlRead
    <3> QED BY <3>1, <3>2
  <2>3. /\ lAt' = s /\ lTyped' = s.q /\ lTimer' = FALSE /\ lUrl' = writeListState(s)
        /\ lReqs' = {} \union {Request(s)} /\ UNCHANGED lTotal
    BY <1>2, <2>1 DEF OpenGrid, Request
  <2>4. lReqs' \subseteq GridRequests /\ OneAsked' /\ Filled'
    <3>1. PICK old : old = {}
      OBVIOUS
    <3>2. /\ old \subseteq GridRequests /\ \A r \in old : r.stale
          /\ lReqs' = old \union {Request(s)}
      BY <2>3, <3>1
    <3> QED BY <2>2, <2>3, <3>2, AskedAnew
  <2>5. s.q \in Searches
    BY <2>2 DEF ListState
  <2>6. GridTypes'
    BY <2>2, <2>3, <2>4, <2>5 DEF GridInv, GridTypes
  <2>7. Fields'
    BY <2>3 DEF Fields
  <2> QED BY <2>4, <2>6, <2>7 DEF GridInv
<1> QED BY <1>1, <1>2

\* The user types, searches, sorts and turns pages.
LEMMA GridUsed ==
  ASSUME GridInv,
         \/ Search \/ \E w \in Searches : TypeSearch(w)
         \/ \E o \in SORTS : setSort(o)
         \/ \E p \in 1..ceil(Matching[NoSearch]) : setPage(p)
  PROVE  GridInv'
<1>1. ASSUME NEW w \in Searches, TypeSearch(w) PROVE GridInv'
  <2>1. /\ lTyped' = w /\ lTimer' = (w # lAt.q)
        /\ UNCHANGED <<lTotal, lAt, lUrl, lReqs, lShown, lMissed>>
    BY <1>1 DEF TypeSearch
  <2>2. Fields'
    BY <2>1 DEF GridInv, Fields
  <2> QED BY <2>1, <2>2 DEF GridInv, GridTypes, OneAsked, Filled
<1>2. CASE Search
  <2>1. PICK s : s = [lAt EXCEPT !.q = lTyped, !.page = 1]
    OBVIOUS
  <2>2. s \in ListState /\ s.q = lTyped
    <3>1. lAt \in ListState /\ lTyped \in Searches
      BY DEF GridInv, GridTypes
    <3>2. s = [page |-> 1, q |-> lTyped, sort |-> lAt.sort]
      BY <2>1, <3>1 DEF ListState
    <3>3. lAt.q \in Searches /\ lAt.sort \in SORTS /\ 1 \in Nat \ {0}
      BY <3>1 DEF ListState
    <3> QED BY <3>1, <3>2, <3>3 DEF ListState
  <2>3. /\ SetListState(s) /\ lTimer' = FALSE /\ UNCHANGED <<lTotal, lTyped, lShown>>
    BY <1>2, <2>1 DEF Search
  <2>4. /\ lAt' = s /\ lUrl' = writeListState(s) /\ lReqs' \subseteq GridRequests
        /\ OneAsked' /\ Filled'
    BY <2>2, <2>3, ListStateSet
  <2> QED BY <2>2, <2>3, <2>4 DEF GridInv, GridTypes, Fields
<1>3. ASSUME NEW s \in ListState, SetListState(s), s.q = lAt.q,
             UNCHANGED <<lTotal, lTyped, lTimer, lShown>>
      PROVE  GridInv'
  <2>1. /\ lAt' = s /\ lUrl' = writeListState(s) /\ lReqs' \subseteq GridRequests
        /\ OneAsked' /\ Filled'
    BY <1>3, ListStateSet
  <2> QED BY <1>3, <2>1 DEF GridInv, GridTypes, Fields
<1>4. ASSUME NEW o \in SORTS, setSort(o) PROVE GridInv'
  <2>1. PICK s : s = [lAt EXCEPT !.sort = o, !.page = 1]
    OBVIOUS
  <2>2. s \in ListState /\ s.q = lAt.q
    <3>1. lAt \in ListState /\ lTyped \in Searches
      BY DEF GridInv, GridTypes
    <3>2. s = [page |-> 1, q |-> lAt.q, sort |-> o]
      BY <2>1, <3>1 DEF ListState
    <3>3. lAt.q \in Searches /\ lAt.sort \in SORTS /\ 1 \in Nat \ {0}
      BY <3>1 DEF ListState
    <3> QED BY <3>1, <3>2, <3>3 DEF ListState
  <2> QED BY <1>3, <1>4, <2>1, <2>2 DEF setSort
<1>5. ASSUME NEW p \in 1..ceil(Matching[NoSearch]), setPage(p) PROVE GridInv'
  <2>1. PICK s : s = [lAt EXCEPT !.page = p]
    OBVIOUS
  <2>2. p \in Nat \ {0}
    OBVIOUS
  <2>3. s \in ListState /\ s.q = lAt.q
    BY <2>1, <2>2 DEF GridInv, GridTypes, ListState
  <2> QED BY <1>3, <1>5, <2>1, <2>3 DEF setPage
<1> QED BY <1>1, <1>2, <1>4, <1>5

\* The server counts and reads; pipelines come and go.
LEMMA GridServed ==
  ASSUME GridInv,
         \/ \E r \in lReqs : FilterSummary(r)
         \/ \E w \in Searches, d \in {1, -1} : PipelineEdited(w, d)
  PROVE  GridInv'
<1>1. ASSUME NEW w \in Searches, NEW d \in {1, -1}, PipelineEdited(w, d) PROVE GridInv'
  <2> DEFINE t == [v \in Searches |-> IF v \in {w, NoSearch} THEN lTotal[v] + d ELSE lTotal[v]]
  <2>1. /\ UNCHANGED <<lAt, lTyped, lTimer, lUrl, lReqs, lShown, lMissed>>
        /\ lTotal' = t /\ \A v \in Searches : t[v] \in 0..Matching[v]
    BY <1>1 DEF PipelineEdited
  <2>2. t \in [Searches -> Nat]
    BY <2>1, GridAssumption
  <2> HIDE DEF t
  <2> QED BY <2>1, <2>2 DEF GridInv, GridTypes, OneAsked, Filled, Fields
<1>2. ASSUME NEW r \in lReqs, FilterSummary(r) PROVE GridInv'
  <2>1. UNCHANGED <<lTotal, lAt, lTyped, lTimer, lUrl, lShown, lMissed>>
    BY <1>2 DEF FilterSummary
  <2>2. r \in GridRequests /\ r.at \in ListState /\ lTotal[r.at.q] \in Nat
    BY DEF GridInv, GridTypes, GridRequests, ListState
  <2>3. Rows(r.at, lTotal[r.at.q]) \in Int
    <3>1. r.at.page \in Int /\ GridPage \in Int
      BY <2>2, GridAssumption DEF ListState
    <3> QED BY <2>2, <3>1 DEF Rows, Lesser
  <2>4. PICK f \in GridRequests : lReqs' = (lReqs \ {r}) \union {f} /\ f.at = r.at /\ f.stale = r.stale
    <3>1. CASE Counted(r)
      <4>1. PICK f : f = [r EXCEPT !.st = "counted", !.total = lTotal[r.at.q]]
        OBVIOUS
      <4>2. f \in GridRequests /\ f.at = r.at /\ f.stale = r.stale
        BY <2>2, <4>1 DEF GridRequests
      <4> QED BY <3>1, <4>1, <4>2 DEF Counted, Put
    <3>2. CASE Selected(r)
      <4>1. PICK f : f = [r EXCEPT !.st = "ok", !.n = Rows(r.at, lTotal[r.at.q])]
        OBVIOUS
      <4>2. f \in GridRequests /\ f.at = r.at /\ f.stale = r.stale
        BY <2>2, <2>3, <4>1 DEF GridRequests
      <4> QED BY <3>2, <4>1, <4>2 DEF Selected, Put
    <3>3. CASE Broken(r)
      <4>1. PICK f : f = [r EXCEPT !.st = "failed"]
        OBVIOUS
      <4>2. f \in GridRequests /\ f.at = r.at /\ f.stale = r.stale
        BY <2>2, <4>1 DEF GridRequests
      <4> QED BY <3>3, <4>1, <4>2 DEF Broken, Put
    <3> QED BY <1>2, <3>1, <3>2, <3>3 DEF FilterSummary
  <2>5. GridTypes'
    BY <2>1, <2>4 DEF GridInv, GridTypes
  <2>6. OneAsked'
    BY <2>1, <2>4 DEF GridInv, OneAsked
  <2>7. Filled'
    BY <2>1, <2>4 DEF GridInv, Filled
  <2> QED BY <2>1, <2>5, <2>6, <2>7 DEF GridInv, Fields
<1> QED BY <1>1, <1>2

\* An answer is dropped, shown, or sends the user to the last page there is.
LEMMA GridAnswered ==
  ASSUME GridInv, NEW r \in lReqs,
         StaleAnswer(r) \/ LastPage(r) \/ PageAnswered(r) \/ PageFailed(r)
  PROVE  GridInv'
<1>1. UNCHANGED <<lTotal, lTyped, lTimer>>
  BY DEF StaleAnswer, LastPage, PageAnswered, PageFailed
<1>2. r \in GridRequests /\ r.total \in Nat /\ r.at \in ListState
  BY DEF GridInv, GridTypes, GridRequests
<1>3. CASE StaleAnswer(r)
  <2>1. /\ lReqs' = lReqs \ {r} /\ r.stale /\ UNCHANGED <<lAt, lUrl, lShown, lMissed>>
    BY <1>3 DEF StaleAnswer
  <2> QED BY <1>1, <2>1 DEF GridInv, GridTypes, OneAsked, Filled, Fields
<1>4. CASE PageAnswered(r)
  <2>1. /\ lReqs' = lReqs \ {r} /\ ~r.stale /\ ~PageGone(r)
        /\ lShown' = [at |-> r.at, n |-> r.n, total |-> r.total]
        /\ UNCHANGED <<lAt, lUrl, lMissed>>
    BY <1>4 DEF PageAnswered
  <2>2. lShown'.at = lAt' /\ (lShown'.n = 0 => lShown'.at.page = 1 \/ lShown'.total = 0)
    <3>1. r.at = lAt /\ lShown'.at = r.at /\ lShown'.n = r.n /\ lShown'.total = r.total
      BY <2>1 DEF GridInv, OneAsked
    <3>2. r.at.page \in Nat /\ r.at.page > 0
      BY <1>2 DEF ListState
    <3> QED BY <1>2, <2>1, <3>1, <3>2 DEF PageGone
  <2>3. Filled'
    BY <2>2 DEF Filled
  <2> QED BY <1>1, <2>1, <2>3 DEF GridInv, GridTypes, OneAsked, Fields
<1>5. CASE PageFailed(r)
  <2>1. lReqs' = lReqs \ {r} /\ lMissed' = TRUE /\ UNCHANGED <<lAt, lUrl, lShown>>
    BY <1>5 DEF PageFailed
  <2> QED BY <1>1, <2>1 DEF GridInv, GridTypes, OneAsked, Filled, Fields
<1>6. CASE LastPage(r)
  <2>1. PICK s : s = [lAt EXCEPT !.page = ceil(r.total)]
    OBVIOUS
  <2>2. /\ ~r.stale /\ PageGone(r) /\ lAt' = s
        /\ IF s = lAt THEN lReqs' = lReqs \ {r} /\ lMissed' = TRUE /\ lUrl' = lUrl
           ELSE /\ lUrl' = writeListState(s)
                /\ lReqs' = (lReqs \ {r}) \union {Request(s)}
    BY <1>6, <2>1 DEF LastPage, Request
  <2>3. s \in ListState /\ s.q = lAt.q
    <3>1. lAt \in ListState /\ ceil(r.total) \in Nat \ {0}
      BY <1>2, <2>2, LastPageIs DEF GridInv, GridTypes, PageGone
    <3> QED BY <2>1, <3>1 DEF ListState
  <2>4. PICK old : old = lReqs \ {r}
    OBVIOUS
  <2>5. old \subseteq GridRequests /\ \A q \in old : q.stale
    BY <2>2, <2>4 DEF GridInv, GridTypes, OneAsked, GridRequests
  <2>6. CASE s = lAt
    BY <1>1, <2>2, <2>6 DEF GridInv, GridTypes, OneAsked, Filled, Fields
  <2>7. CASE s # lAt
    <3>1. lReqs' \subseteq GridRequests /\ OneAsked' /\ Filled'
      BY <2>2, <2>3, <2>4, <2>5, <2>7, AskedAnew
    <3> QED BY <1>1, <2>2, <2>3, <2>7, <3>1 DEF GridInv, GridTypes, Fields
  <2> QED BY <2>6, <2>7
<1> QED BY <1>3, <1>4, <1>5, <1>6

\* Every step of the page keeps the invariant.
LEMMA NextGrid == GridInv /\ [GridNext]_<<page, gridVars>> => GridInv'
<1> SUFFICES ASSUME GridInv, [GridNext]_<<page, gridVars>> PROVE GridInv'
  OBVIOUS
<1>1. CASE UNCHANGED <<page, gridVars>>
  BY <1>1 DEF gridVars, GridInv, GridTypes, OneAsked, Filled, Fields
<1> QED BY <1>1, GridMounted, GridUsed, GridServed, GridAnswered DEF GridNext

\* The invariant gives what the page promises.
LEMMA GridPromise == GridInv => GridCurrent
<1> SUFFICES ASSUME GridInv PROVE GridCurrent
  OBVIOUS
<1>1. readListState(lUrl) = lAt
  BY UrlRoundTrip DEF GridInv, GridTypes, Fields
<1>2. Cardinality({r \in lReqs : ~r.stale}) <= 1
  <2> DEFINE A == {r \in lReqs : ~r.stale}
  <2> SUFFICES Cardinality(A) <= 1
    OBVIOUS
  <2>1. CASE A = {}
    BY <2>1, FS_EmptySet
  <2>2. CASE A # {}
    <3>1. PICK r : r \in A
      BY <2>2
    <3>2. A = {r}
      BY <3>1 DEF GridInv, OneAsked
    <3>3. Cardinality({r}) = 1
      BY FS_Singleton
    <3> HIDE DEF A
    <3>4. Cardinality(A) = 1
      BY <3>2, <3>3
    <3> QED BY <3>4
  <2> QED BY <2>1, <2>2
<1> QED BY <1>1, <1>2 DEF GridInv, Filled, Fields, GridCurrent

\* When the grid waits for nothing it shows the page, the search and the order that
\* its fields and its URL name, and no page beyond the last, for any number of
\* searches, pages, requests and of pipelines that come and go (PipelineListPage).
THEOREM GridIsCurrent == GridSpec => []GridCurrent
<1> QED BY GridPromise, InitGrid, NextGrid, PTL DEF GridSpec

-----------------------------------------------------------------------------
(* BuildContent: once everything is answered the tab shows the end of the    *)
(* build and the user's vote.                                                *)

Waits == "waiting_for_approval"

\* A request; its number is of no account here.
IsAsk(a) == a \in [n : {a.n}, kind : Commands \union {"full", "fix", "status"},
                   mine : BOOLEAN, st : {"sent", "ok", "failed"}, data : Build]

ContentTypes ==
    /\ bst \in BuildStates /\ bvotes \subseteq Voters
    /\ entry \in Build /\ fullBuild \in [known : BOOLEAN, votes : SUBSET Voters]
    /\ \A a \in asks : IsAsk(a)
    /\ seen \in Int
    /\ spoiled \in BOOLEAN /\ shown \in BOOLEAN /\ cast \in BOOLEAN

\* What was answered is of a build that has gone on since: one that waits has only
\* waited, and one that has ended has the votes it ended with.
Earlier(d) ==
    /\ d.steps = StepsOf(d.status)
    /\ d.votes \subseteq bvotes
    /\ bst = Waits => d.status = Waits
    /\ d.status \in Ended => bst \in Ended /\ d.votes = bvotes
    /\ Me \in bvotes /\ Me \notin d.votes => d.status = Waits

\* What was answered without the user's vote is older than what was with it.
Answers ==
    /\ \A a \in asks : a.st = "ok" => Earlier(a.data)
    /\ \A a, b \in asks : /\ a.st = "ok" /\ Me \notin a.data.votes
                          /\ b.st = "ok" /\ Me \in b.data.votes
                          => a.data.votes \subseteq b.data.votes

\* A tab that is closed has cast no vote and waits for nothing.
Unmounted == ~shown => ~cast /\ \A a \in asks : ~a.mine

\* The page has seen the end of the build that it shows as ended, and either the
\* steps or a fetch that brings them.
EndShown ==
    ~spoiled /\ entry.status \in Ended =>
        /\ bst \in Ended /\ seen >= Cardinality(bvotes) + 3
        /\ shown => entry.steps = "final" \/ \E a \in asks : a.kind = "full"

\* The copy with the user's vote is newer than every answer without it.
CopyNewer ==
    ~spoiled /\ fullBuild.known /\ Me \in fullBuild.votes =>
        /\ Me \in bvotes
        /\ \A a \in asks : a.st = "ok" /\ Me \notin a.data.votes =>
                             Progress(a.data.status, a.data.votes) < seen

\* A vote that was cast is in the copy, or on its way there.
Voting(a) ==
    /\ a.mine
    /\ \/ a.kind \in {"approve", "reject"} /\ a.st = "ok"
       \/ a.kind = "full" /\ (a.st = "sent" \/ Me \in a.data.votes)
VoteKept ==
    ~spoiled /\ cast =>
        /\ Me \in bvotes
        /\ \/ fullBuild.known /\ Me \in fullBuild.votes
           \/ \E a \in asks : Voting(a)

NoFailure == ~spoiled => \A a \in asks : a.st # "failed"

ContentInv ==
    /\ ContentTypes /\ Answers /\ Unmounted /\ NoFailure
    /\ EndShown /\ CopyNewer /\ VoteKept
    /\ page # "job" => ContentIdle

-----------------------------------------------------------------------------
\* How far a build is, by its votes and its status.
LEMMA ProgressIs ==
  ASSUME NEW s \in BuildStates, NEW v \in SUBSET Voters
  PROVE  /\ Cardinality(v) \in Nat /\ Progress(s, v) \in Nat
         /\ s \in Ended => Progress(s, v) >= Cardinality(v) + 3
         /\ s \notin Ended => Progress(s, v) <= Cardinality(v) + 2
         /\ s = Waits => Progress(s, v) = Cardinality(v)
         /\ Progress(s, v) >= Cardinality(v)
<1>1. IsFiniteSet(Voters)
  BY ContentAssumption, FS_AddElement DEF Voters
<1>2. Cardinality(v) \in Nat
  BY <1>1, FS_Subset, FS_CardinalityType
<1> DEFINE rank == CASE s = "waiting_for_approval" -> 0 [] s = "pending" -> 1
                     [] s = "started" -> 2 [] s = "warning" -> 4 [] OTHER -> 3
<1>3. /\ rank \in 0..4 /\ (s \in Ended => rank >= 3) /\ (s \notin Ended => rank <= 2)
      /\ (s = Waits => rank = 0)
  BY DEF BuildStates, Ended, Waits
<1>4. Progress(s, v) = Cardinality(v) + rank
  BY DEF Progress
<1> HIDE DEF rank
<1> QED BY <1>2, <1>3, <1>4

\* More votes, and one of them the user's, are more by number.
LEMMA MoreVotes ==
  ASSUME NEW v \in SUBSET Voters, NEW w \in SUBSET Voters, w \subseteq v
  PROVE  /\ Cardinality(w) <= Cardinality(v) /\ Cardinality(w) \in Nat /\ Cardinality(v) \in Nat
         /\ Me \in v /\ Me \notin w => Cardinality(w) < Cardinality(v)
<1>1. IsFiniteSet(v) /\ IsFiniteSet(w)
  BY ContentAssumption, FS_AddElement, FS_Subset DEF Voters
<1>2. Cardinality(w) \in Nat /\ Cardinality(v) \in Nat
  BY <1>1, FS_CardinalityType
<1>3. Cardinality(w) <= Cardinality(v) /\ (Cardinality(v) = Cardinality(w) => v = w)
  BY <1>1, FS_Subset
<1> QED BY <1>2, <1>3

\* The server only goes on: votes are added, while the build waits; what has ended
\* stays so, and nothing waits again.
Onward ==
    /\ bst' \in BuildStates /\ bvotes' \subseteq Voters /\ bvotes \subseteq bvotes'
    /\ bst \in Ended => bst' \in Ended
    /\ bvotes' # bvotes => bst = Waits
    /\ bst' = Waits => bst = Waits

\* Every answer was there before, or is what the server has now.
Fresh ==
    \A b \in asks' : b.st = "ok" =>
        (\E a \in asks : a.st = "ok" /\ a.data = b.data) \/ b.data = WholeBuild'

LEMMA WholeIs ==
  ASSUME bst \in BuildStates, bvotes \subseteq Voters
  PROVE  /\ WholeBuild \in Build /\ WholeBuild.status = bst /\ WholeBuild.votes = bvotes
         /\ WholeBuild.steps = StepsOf(bst)
  BY DEF WholeBuild, Build, StepsOf

LEMMA StaysEarlier ==
  ASSUME NEW d, Earlier(d), Onward
  PROVE  Earlier(d)'
  BY DEF Earlier, Onward, Ended, Waits

LEMMA AnswersNext == ASSUME ContentTypes, Answers, Onward, Fresh PROVE Answers'
<1>1. WholeBuild'.votes = bvotes' /\ WholeBuild'.status = bst' /\ WholeBuild'.steps = StepsOf(bst')
  BY DEF WholeBuild
<1>2. ASSUME NEW b \in asks', b.st = "ok" PROVE Earlier(b.data)'
  <2>1. CASE b.data = WholeBuild'
    BY <1>1, <2>1 DEF Earlier
  <2>2. ASSUME NEW a \in asks, a.st = "ok", a.data = b.data PROVE Earlier(b.data)'
    BY <2>2, StaysEarlier DEF Answers
  <2> QED BY <1>2, <2>1, <2>2 DEF Fresh
<1>3. ASSUME NEW a \in asks', a.st = "ok", Me \notin a.data.votes,
             NEW b \in asks', b.st = "ok", Me \in b.data.votes
      PROVE  a.data.votes \subseteq b.data.votes
  <2>1. a.data.votes \subseteq bvotes' /\ b.data.votes \subseteq bvotes'
    BY <1>2, <1>3 DEF Earlier
  <2>2. a.data # WholeBuild'
    BY <1>1, <1>3, <2>1
  <2>3. CASE b.data = WholeBuild'
    BY <1>1, <2>1, <2>3
  <2>4. CASE b.data # WholeBuild'
    BY <1>3, <2>2, <2>4 DEF Fresh, Answers
  <2> QED BY <2>3, <2>4
<1> QED BY <1>2, <1>3 DEF Answers

\* The copy stays newer while it stays.
LEMMA CopyKept ==
  ASSUME ContentTypes, CopyNewer, Onward, Fresh,
         fullBuild' = fullBuild, ~spoiled' => ~spoiled /\ seen' >= seen /\ seen' \in Int
  PROVE  CopyNewer'
<1> SUFFICES ASSUME ~spoiled', fullBuild.known, Me \in fullBuild.votes
             PROVE  /\ Me \in bvotes'
                    /\ \A b \in asks' : b.st = "ok" /\ Me \notin b.data.votes =>
                                         Progress(b.data.status, b.data.votes) < seen'
  BY DEF CopyNewer
<1>1. /\ Me \in bvotes /\ Me \in bvotes' /\ seen' >= seen /\ seen \in Int /\ seen' \in Int
      /\ \A a \in asks : a.st = "ok" /\ Me \notin a.data.votes =>
                           Progress(a.data.status, a.data.votes) < seen
  BY DEF CopyNewer, Onward, ContentTypes
<1>2. ASSUME NEW b \in asks', b.st = "ok", Me \notin b.data.votes
      PROVE  Progress(b.data.status, b.data.votes) < seen'
  <2>1. WholeBuild'.votes = bvotes'
    BY DEF WholeBuild
  <2>2. PICK a \in asks : a.st = "ok" /\ a.data = b.data
    BY <1>1, <1>2, <2>1 DEF Fresh
  <2>3. a.data \in Build
    BY DEF ContentTypes, IsAsk
  <2>4. Progress(b.data.status, b.data.votes) < seen /\ Progress(b.data.status, b.data.votes) \in Nat
    BY <1>1, <1>2, <2>2, <2>3, ProgressIs DEF Build
  <2> QED BY <1>1, <2>4
<1> QED BY <1>1, <1>2

\* A build that is shown as ended stays so, and its steps stay or are on their way.
LEMMA EndKept ==
  ASSUME ContentTypes, EndShown, Onward, entry' = entry,
         ~spoiled' => ~spoiled /\ seen' = seen,
         shown' => \/ \E b \in asks' : b.kind = "full"
                   \/ shown /\ \A a \in asks : a.kind # "full"
  PROVE  EndShown'
<1> SUFFICES ASSUME ~spoiled', entry.status \in Ended
             PROVE  /\ bst' \in Ended /\ seen' >= Cardinality(bvotes') + 3
                    /\ shown' => entry.steps = "final" \/ \E a \in asks' : a.kind = "full"
  BY DEF EndShown
<1>1. bst \in Ended /\ seen >= Cardinality(bvotes) + 3 /\ seen' = seen
  BY DEF EndShown
<1>2. bvotes' = bvotes /\ bst' \in Ended
  BY <1>1 DEF Onward, Ended, Waits
<1> QED BY <1>1, <1>2 DEF EndShown

\* A vote stays in the copy or on its way.
LEMMA VoteStays ==
  ASSUME VoteKept, Onward, fullBuild' = fullBuild,
         ~spoiled' /\ cast' => ~spoiled /\ cast,
         \A a \in asks : ~spoiled' /\ cast' /\ Me \in bvotes /\ Voting(a) => \E b \in asks' : Voting(b)
  PROVE  VoteKept'
<1> SUFFICES ASSUME ~spoiled', cast'
             PROVE  /\ Me \in bvotes'
                    /\ \/ fullBuild.known /\ Me \in fullBuild.votes
                       \/ \E b \in asks' : Voting(b)
  BY DEF VoteKept, Voting
<1> QED BY DEF VoteKept, Onward

LEMMA InitContent == ASSUME ContentIdle PROVE ContentInv
<1>1. /\ bst = "pending" /\ bvotes = {} /\ entry.status = "pending" /\ ~fullBuild.known
      /\ asks = {} /\ seen = 0 /\ ~spoiled /\ ~cast
  BY DEF ContentIdle, ListRow, NoFull
<1>2. ContentTypes
  <2>1. entry \in Build /\ bst \in BuildStates
    BY DEF ContentIdle, ListRow, Build, BuildStates
  <2>2. fullBuild \in [known : BOOLEAN, votes : SUBSET Voters]
    BY DEF ContentIdle, NoFull
  <2>3. bvotes \subseteq Voters /\ seen \in Int
    BY <1>1
  <2>4. spoiled \in BOOLEAN /\ shown \in BOOLEAN /\ cast \in BOOLEAN
    BY DEF ContentIdle
  <2> QED BY <1>1, <2>1, <2>2, <2>3, <2>4 DEF ContentTypes
<1>3. Answers /\ Unmounted /\ NoFailure /\ CopyNewer /\ VoteKept
  BY <1>1 DEF Answers, Unmounted, NoFailure, CopyNewer, VoteKept
<1>4. EndShown
  BY <1>1 DEF EndShown, Ended
<1> QED BY <1>2, <1>3, <1>4 DEF ContentInv

LEMMA RowIs == ListRow("pending") \in Build
  BY DEF ListRow, Build, BuildStates

LEMMA StaysOnward == ASSUME ContentTypes, UNCHANGED server PROVE Onward
  BY DEF ContentTypes, Onward, server

\* An answer that is applied brings the history up to it, or spoils it.
LEMMA AppliedIs ==
  ASSUME ContentTypes, NEW a \in asks, Applied(a)
  PROVE  /\ seen' \in Int /\ spoiled' \in BOOLEAN /\ cast' \in BOOLEAN
         /\ cast' => cast
         /\ ~spoiled' => /\ ~spoiled /\ cast' = cast /\ seen' >= seen
                         /\ seen' = Progress(a.data.status, a.data.votes)
<1>1. PICK p : p = Progress(a.data.status, a.data.votes)
  OBVIOUS
<1>2. p \in Nat
  BY <1>1, ProgressIs DEF ContentTypes, IsAsk, Build
<1>3. IF spoiled THEN UNCHANGED history
      ELSE IF p < seen THEN Spoil ELSE seen' = p /\ UNCHANGED <<spoiled, cast>>
  BY <1>1 DEF Applied
<1>4. seen \in Int /\ spoiled \in BOOLEAN /\ cast \in BOOLEAN
  BY DEF ContentTypes
<1>5. CASE spoiled
  BY <1>3, <1>4, <1>5 DEF history
<1>6. CASE ~spoiled /\ p < seen
  <2>1. Spoil
    BY <1>3, <1>6
  <2>2. spoiled' = TRUE /\ cast' = FALSE /\ seen' = 0
    BY <2>1 DEF Spoil
  <2>3. spoiled' /\ ~cast' /\ spoiled' \in BOOLEAN /\ cast' \in BOOLEAN
    BY <2>2, Zenon
  <2>4. seen' \in Int
    BY <2>2
  <2> QED BY <2>3, <2>4, Zenon
<1>7. CASE ~spoiled /\ ~(p < seen)
  BY <1>1, <1>2, <1>3, <1>4, <1>7
<1> QED BY <1>5, <1>6, <1>7

\* The parts of the invariant that are left when the page, the tab and the history
\* stay.
LEMMA ContentGoesOn == ASSUME ContentInv, BuildGoesOn PROVE ContentInv'
<1> USE DEF ContentInv
<1>1. /\ page = "job" /\ page' = page
      /\ UNCHANGED <<entry, fullBuild, shown, busy, asks, seen, spoiled, cast>>
  BY DEF BuildGoesOn, On, component, history
<1>2. Onward
  <2>1. CASE bst' \in Goes(bst) /\ bvotes' = bvotes
    BY <2>1 DEF ContentTypes, Onward, Goes, BuildStates, Ended, Waits
  <2>2. CASE /\ bst = Waits
             /\ \E u \in Others \ bvotes : bvotes' = bvotes \union {u}
             /\ bst' \in {Voted(bvotes'), "failed"}
    BY <2>2 DEF ContentTypes, Onward, Voted, BuildStates, Ended, Waits, Voters
  <2> QED BY <2>1, <2>2 DEF BuildGoesOn, Waits
<1>3. Fresh
  BY <1>1 DEF Fresh
<1>4. ContentTypes'
  BY <1>1, <1>2 DEF ContentTypes, Onward, IsAsk
<1>5. Answers' /\ CopyNewer'
  BY <1>1, <1>2, <1>3, AnswersNext, CopyKept DEF ContentTypes
<1>6. EndShown'
  BY <1>1, <1>2, EndKept
<1>7. VoteKept'
  BY <1>1, <1>2, VoteStays
<1> QED BY <1>1, <1>4, <1>5, <1>6, <1>7 DEF Unmounted, NoFailure

\* What a request becomes when it is answered.
LEMMA AnsweredIs ==
  ASSUME ContentTypes, NEW a \in asks, Answered(a, TRUE),
         bst' \in BuildStates, bvotes' \subseteq Voters
  PROVE  \E b : /\ asks' = (asks \ {a}) \union {b} /\ IsAsk(b) /\ b.kind = a.kind /\ b.mine = a.mine
                /\ b.st = "ok" /\ b.data = WholeBuild' /\ b.data.votes = bvotes'
<1>1. PICK w : w = WholeBuild'
  OBVIOUS
<1>2. w \in Build /\ w.votes = bvotes'
  BY <1>1 DEF WholeBuild, Build, StepsOf
<1>3. PICK b : b = [a EXCEPT !.st = "ok", !.data = w]
  OBVIOUS
<1>4. asks' = (asks \ {a}) \union {b}
  BY <1>1, <1>3 DEF Answered
<1>5. a \in [n : {a.n}, kind : Commands \union {"full", "fix", "status"},
             mine : BOOLEAN, st : {"sent", "ok", "failed"}, data : Build]
  BY DEF ContentTypes, IsAsk
<1>6. IsAsk(b) /\ b.kind = a.kind /\ b.mine = a.mine /\ b.st = "ok" /\ b.data = w
  BY <1>2, <1>3, <1>5 DEF IsAsk
<1> QED BY <1>1, <1>2, <1>4, <1>6

\* The server answers: the parts of the invariant that do not speak of the vote.
LEMMA AnswerComes ==
  ASSUME ContentInv, NEW a \in asks, NEW b, Onward,
         asks' = (asks \ {a}) \union {b}, IsAsk(b), b.kind = a.kind, b.mine = a.mine,
         b.st = "ok", b.data = WholeBuild', page = "job", page' = page,
         UNCHANGED <<entry, fullBuild, shown, seen, spoiled>>, cast' \in BOOLEAN,
         cast' => shown, VoteKept'
  PROVE  ContentInv'
<1> USE DEF ContentInv
<1>1. Fresh
  BY DEF Fresh
<1>2. ContentTypes'
  BY DEF ContentTypes, Onward, IsAsk
<1>3. Answers' /\ CopyNewer'
  BY <1>1, AnswersNext, CopyKept DEF ContentTypes
<1>4. EndShown'
  BY EndKept
<1>5. Unmounted'
  BY DEF Unmounted
<1>6. NoFailure'
  BY DEF NoFailure
<1> QED BY <1>2, <1>3, <1>4, <1>5, <1>6

LEMMA ReadAnswered == ASSUME ContentInv, NEW a \in asks, AnswerRead(a) PROVE ContentInv'
<1>1. /\ page = "job" /\ page' = page /\ UNCHANGED server
      /\ UNCHANGED <<entry, fullBuild, shown, seen, spoiled, cast>>
      /\ a.kind \in {"full", "fix", "status"} /\ Answered(a, TRUE)
  BY DEF AnswerRead, On, component, history
<1>2. ContentTypes /\ VoteKept /\ Unmounted
  BY DEF ContentInv
<1>3. Onward
  BY <1>1, <1>2, StaysOnward
<1>4. PICK b : /\ asks' = (asks \ {a}) \union {b} /\ IsAsk(b) /\ b.kind = a.kind /\ b.mine = a.mine
               /\ b.st = "ok" /\ b.data = WholeBuild' /\ b.data.votes = bvotes'
  BY <1>1, <1>2, <1>3, AnsweredIs DEF Onward
<1>5. VoteKept'
  <2>1. ASSUME NEW c \in asks, Me \in bvotes, Voting(c) PROVE \E d \in asks' : Voting(d)
    <3>1. Me \in b.data.votes
      BY <1>3, <1>4, <2>1 DEF Onward
    <3>2. CASE c = a
      BY <1>1, <1>4, <2>1, <3>1, <3>2 DEF Voting, Commands
    <3>3. CASE c # a
      BY <1>4, <2>1, <3>3
    <3> QED BY <3>2, <3>3
  <2> QED BY <1>1, <1>2, <1>3, <2>1, VoteStays
<1> QED BY <1>1, <1>2, <1>3, <1>4, <1>5, AnswerComes DEF Unmounted, ContentTypes

LEMMA CommandAnswered == ASSUME ContentInv, NEW a \in asks, AnswerCommand(a) PROVE ContentInv'
<1>1. /\ page = "job" /\ page' = page
      /\ UNCHANGED <<entry, fullBuild, shown, seen, spoiled>>
      /\ a.st = "sent" /\ a.kind \in Commands /\ Answered(a, TRUE)
  BY DEF AnswerCommand, On, component
<1>2. ContentTypes /\ VoteKept /\ Unmounted
  BY DEF ContentInv
<1>3. \/ bvotes' = bvotes \union {Me} /\ bst = Waits /\ bst' \in {bst, "pending", "failed"}
         /\ a.kind \in {"approve", "reject"}
      \/ bvotes' = bvotes /\ bst \notin Ended /\ bst' = "cancelled"
      \/ bvotes' = bvotes /\ bst = "failed" /\ bst' = "warning"
      \/ bvotes' = bvotes /\ bst' = bst
  BY DEF AnswerCommand, Voted, Waits, Ended, server
<1>4. Onward
  BY <1>2, <1>3 DEF ContentTypes, Onward, BuildStates, Ended, Waits, Voters
<1>5. PICK b : /\ asks' = (asks \ {a}) \union {b} /\ IsAsk(b) /\ b.kind = a.kind /\ b.mine = a.mine
               /\ b.st = "ok" /\ b.data = WholeBuild' /\ b.data.votes = bvotes'
  BY <1>1, <1>2, <1>4, AnsweredIs DEF Onward
<1>6. cast' = (cast \/ (a.mine /\ ~spoiled /\ bvotes' # bvotes))
  BY DEF AnswerCommand
<1>7. cast' \in BOOLEAN /\ (cast' => cast \/ (a.mine /\ bvotes' # bvotes))
  BY <1>6, Zenon
<1>8. cast' => shown
  BY <1>2, <1>7 DEF Unmounted
<1>9. VoteKept'
  <2>1. CASE cast' => cast
    <3>1. ASSUME NEW c \in asks, Voting(c) PROVE \E d \in asks' : Voting(d)
      BY <1>1, <1>5, <3>1 DEF Voting, Commands
    <3> QED BY <1>1, <1>2, <1>4, <2>1, <3>1, VoteStays
  <2>2. CASE cast' /\ ~cast
    <3>1. a.mine /\ Me \in bvotes' /\ a.kind \in {"approve", "reject"}
      BY <1>3, <1>7, <2>2
    <3>2. b \in asks' /\ Voting(b)
      BY <1>5, <3>1 DEF Voting
    <3> QED BY <3>1, <3>2 DEF VoteKept, Voting
  <2> QED BY <2>1, <2>2
<1> QED BY <1>1, <1>2, <1>4, <1>5, <1>7, <1>8, <1>9, AnswerComes

\* A request that fails spoils the history.
LEMMA AskRefused == ASSUME ContentInv, NEW a \in asks, Refuse(a) PROVE ContentInv'
<1>1. /\ page = "job" /\ page' = page /\ UNCHANGED server
      /\ UNCHANGED <<entry, fullBuild, shown>> /\ Answered(a, FALSE) /\ Spoil
  BY DEF Refuse, On, component
<1>2. ContentTypes /\ Answers /\ Unmounted
  BY DEF ContentInv
<1>3. Onward
  BY <1>1, <1>2, StaysOnward
<1>4. spoiled' = TRUE /\ cast' = FALSE /\ seen' = 0
  BY <1>1 DEF Spoil
<1>5. spoiled' /\ ~cast' /\ spoiled' \in BOOLEAN /\ cast' \in BOOLEAN
  BY <1>4, Zenon
<1>6. PICK b : b = [a EXCEPT !.st = "failed"]
  OBVIOUS
<1>7. a \in [n : {a.n}, kind : Commands \union {"full", "fix", "status"},
             mine : BOOLEAN, st : {"sent", "ok", "failed"}, data : Build]
  BY <1>2 DEF ContentTypes, IsAsk
<1>8. IsAsk(b) /\ b.mine = a.mine /\ b.st = "failed"
  BY <1>6, <1>7 DEF IsAsk
<1>9. [a EXCEPT !.st = "failed", !.data = @] = b
  BY <1>6, <1>7
<1>10. asks' = (asks \ {a}) \union {b}
  BY <1>1, <1>9 DEF Answered
<1>11. ContentTypes'
  BY <1>1, <1>2, <1>3, <1>4, <1>5, <1>8, <1>10 DEF ContentTypes, Onward, IsAsk
<1>12. Answers'
  BY <1>2, <1>3, <1>8, <1>10, AnswersNext DEF Fresh
<1>13. Unmounted'
  BY <1>1, <1>2, <1>5, <1>8, <1>10 DEF Unmounted
<1>14. NoFailure' /\ EndShown' /\ CopyNewer' /\ VoteKept'
  BY <1>5 DEF NoFailure, EndShown, CopyNewer, VoteKept
<1> QED BY <1>1, <1>11, <1>12, <1>13, <1>14 DEF ContentInv

\* Requests are sent or handled, and nothing that is shown changes.
LEMMA AsksChange ==
  ASSUME ContentInv, page = "job", page' = page, UNCHANGED server,
         UNCHANGED <<entry, fullBuild, shown, seen, spoiled, cast>>,
         \A b \in asks' : b \in asks \/ (IsAsk(b) /\ b.st = "sent" /\ (b.mine => shown)),
         (\E a \in asks : a.kind = "full") => \E b \in asks' : b.kind = "full",
         \A a \in asks : Voting(a) => \E b \in asks' : Voting(b)
  PROVE  ContentInv'
<1>1. ContentTypes /\ Answers /\ Unmounted /\ NoFailure /\ EndShown /\ CopyNewer /\ VoteKept
  BY DEF ContentInv
<1>2. Onward
  BY <1>1, StaysOnward
<1>3. Fresh
  BY DEF Fresh
<1>4. ContentTypes'
  BY <1>1, <1>2 DEF ContentTypes, Onward, IsAsk
<1>5. Answers' /\ CopyNewer'
  BY <1>1, <1>2, <1>3, AnswersNext, CopyKept DEF ContentTypes
<1>6. EndShown'
  BY <1>1, <1>2, EndKept
<1>7. VoteKept'
  BY <1>1, <1>2, VoteStays
<1>8. Unmounted' /\ NoFailure'
  BY <1>1 DEF Unmounted, NoFailure
<1> QED BY <1>4, <1>5, <1>6, <1>7, <1>8 DEF ContentInv

\* A failed request is handled: the history was spoiled by it.
LEMMA FailureHandled ==
  ASSUME ContentInv, NEW a \in asks, a.st = "failed", page = "job", page' = page, UNCHANGED server,
         UNCHANGED <<entry, fullBuild, shown, seen, spoiled, cast>>, asks' = asks \ {a}
  PROVE  ContentInv'
<1>1. ContentTypes /\ Answers /\ Unmounted /\ NoFailure
  BY DEF ContentInv
<1>2. spoiled /\ spoiled'
  BY <1>1 DEF NoFailure
<1>3. Onward
  BY <1>1, StaysOnward
<1>4. ContentTypes' /\ Unmounted'
  BY <1>1, <1>3 DEF ContentTypes, Onward, IsAsk, Unmounted
<1>5. Answers'
  BY <1>1, <1>3, AnswersNext DEF Fresh
<1>6. NoFailure' /\ EndShown' /\ CopyNewer' /\ VoteKept'
  BY <1>2 DEF NoFailure, EndShown, CopyNewer, VoteKept
<1> QED BY <1>4, <1>5, <1>6 DEF ContentInv

\* The status poll is sent, a button is pressed.
LEMMA AskSent ==
  ASSUME ContentInv, SendStatus \/ \E c \in Commands : Press(c)
  PROVE  ContentInv'
<1>1. CASE SendStatus
  <2>1. PICK b : b = Ask("status", FALSE, asks)
    OBVIOUS
  <2>2. IsAsk(b) /\ b.mine = FALSE /\ b.st = "sent"
    BY <2>1, RowIs DEF Ask, IsAsk
  <2> QED BY <1>1, <2>1, <2>2, AsksChange DEF SendStatus, On, component, history
<1>2. ASSUME NEW c \in Commands, Press(c) PROVE ContentInv'
  <2>1. PICK b : b = Ask(c, TRUE, asks)
    OBVIOUS
  <2>2. IsAsk(b) /\ b.st = "sent"
    BY <1>2, <2>1, RowIs DEF Ask, IsAsk
  <2> QED BY <1>2, <2>1, <2>2, AsksChange DEF Press, Offered, On, history
<1> QED BY <1>1, <1>2

\* A command is over: the vote it cast is fetched.
LEMMA CommandHandled == ASSUME ContentInv, NEW a \in asks, HandleCommand(a) PROVE ContentInv'
<1>1. ContentTypes /\ Unmounted
  BY DEF ContentInv
<1>2. a.mine \in BOOLEAN
  BY <1>1 DEF ContentTypes, IsAsk
<1>3. PICK full : full = Ask("full", a.mine, asks \ {a})
  OBVIOUS
<1>4. PICK fix : fix = Ask("fix", FALSE, asks \ {a})
  OBVIOUS
<1>5. /\ IsAsk(full) /\ full.kind = "full" /\ full.mine = a.mine /\ full.st = "sent"
      /\ IsAsk(fix) /\ fix.mine = FALSE /\ fix.st = "sent"
  BY <1>2, <1>3, <1>4, RowIs DEF Ask, IsAsk
<1>6. /\ page = "job" /\ page' = page /\ UNCHANGED server
      /\ UNCHANGED <<entry, fullBuild, shown, seen, spoiled, cast>>
      /\ a.kind \in Commands
      /\ asks' = (asks \ {a}) \union
           (IF a.st = "ok" /\ a.kind \in {"approve", "reject", "warning"}
            THEN {full, fix}
            ELSE IF a.st = "ok" /\ a.kind = "retry" THEN {fix} ELSE {})
  BY <1>3, <1>4 DEF HandleCommand, On, history
<1>7. \A b \in asks' : b \in asks \/ (IsAsk(b) /\ b.st = "sent" /\ (b.mine => shown))
  BY <1>1, <1>5, <1>6 DEF Unmounted
<1>8. \A c \in asks : c.kind = "full" => c \in asks'
  BY <1>6 DEF Commands
<1>9. ASSUME NEW c \in asks, Voting(c) PROVE \E b \in asks' : Voting(b)
  <2>1. CASE c # a
    BY <1>6, <1>9, <2>1
  <2>2. CASE c = a
    <3>1. a.mine /\ a.st = "ok" /\ a.kind \in {"approve", "reject"}
      BY <1>6, <1>9, <2>2 DEF Voting, Commands
    <3>2. full \in asks' /\ Voting(full)
      BY <1>5, <1>6, <3>1 DEF Voting
    <3> QED BY <3>2
  <2> QED BY <2>1, <2>2
<1> QED BY <1>6, <1>7, <1>8, <1>9, AsksChange

\* The entry takes an answer: the parts of the invariant that do not speak of the
\* copy and the steps.
LEMMA AnswerApplied ==
  ASSUME ContentInv, NEW a \in asks, Applied(a), a.st = "ok", asks' = asks \ {a},
         page = "job", page' = page, UNCHANGED server, UNCHANGED shown,
         entry' \in Build, fullBuild' \in [known : BOOLEAN, votes : SUBSET Voters]
  PROVE  /\ ContentTypes' /\ Answers' /\ Unmounted' /\ NoFailure' /\ Onward /\ Fresh
         /\ fullBuild' = fullBuild => CopyNewer'
         /\ fullBuild' = fullBuild /\ ~Voting(a) => VoteKept'
<1>1. ContentTypes /\ Answers /\ Unmounted /\ NoFailure /\ CopyNewer /\ VoteKept
  BY DEF ContentInv
<1>2. /\ seen' \in Int /\ spoiled' \in BOOLEAN /\ cast' \in BOOLEAN /\ (cast' => cast)
      /\ ~spoiled' => ~spoiled /\ seen' >= seen
  BY <1>1, AppliedIs
<1>3. Onward /\ Fresh
  BY <1>1, StaysOnward DEF Fresh
<1>4. ContentTypes'
  BY <1>1, <1>2, <1>3 DEF ContentTypes, Onward, IsAsk
<1>5. Answers'
  BY <1>1, <1>3, AnswersNext
<1>6. Unmounted' /\ NoFailure'
  BY <1>1, <1>2 DEF Unmounted, NoFailure
<1>7. ASSUME fullBuild' = fullBuild PROVE CopyNewer'
  BY <1>1, <1>2, <1>3, <1>7, CopyKept
<1>8. ASSUME fullBuild' = fullBuild, ~Voting(a) PROVE VoteKept'
  BY <1>1, <1>2, <1>3, <1>8, VoteStays
<1> QED BY <1>3, <1>4, <1>5, <1>6, <1>7, <1>8

\* A whole build replaces the entry.
LEMMA FixHandled == ASSUME ContentInv, NEW a \in asks, HandleFix(a) PROVE ContentInv'
<1>1. /\ page = "job" /\ page' = page /\ UNCHANGED server /\ UNCHANGED <<fullBuild, shown>>
      /\ a.kind = "fix" /\ a.st # "sent" /\ asks' = asks \ {a}
      /\ IF a.st = "ok" THEN entry' = a.data /\ Applied(a) ELSE UNCHANGED <<entry, history>>
  BY DEF HandleFix, On, component
<1>2. ContentTypes /\ Answers
  BY DEF ContentInv
<1>3. IsAsk(a)
  BY <1>2 DEF ContentTypes
<1>4. CASE a.st = "ok"
  <2>1. entry' = a.data /\ Applied(a) /\ a.data \in Build
    BY <1>1, <1>3, <1>4 DEF IsAsk
  <2>2. fullBuild' \in [known : BOOLEAN, votes : SUBSET Voters]
    BY <1>1, <1>2 DEF ContentTypes
  <2>3. ~Voting(a)
    BY <1>1 DEF Voting
  <2>4. ContentTypes' /\ Answers' /\ Unmounted' /\ NoFailure' /\ CopyNewer' /\ VoteKept'
    BY <1>1, <1>4, <2>1, <2>2, <2>3, AnswerApplied
  <2>5. EndShown'
    <3> SUFFICES ASSUME ~spoiled', a.data.status \in Ended
                 PROVE  bst \in Ended /\ seen' >= Cardinality(bvotes) + 3 /\ a.data.steps = "final"
      BY <1>1, <2>1 DEF EndShown, server
    <3>1. seen' = Progress(a.data.status, a.data.votes)
      BY <1>2, <2>1, AppliedIs
    <3>2. a.data.status \in BuildStates /\ a.data.votes \in SUBSET Voters
      BY <2>1 DEF Build
    <3>3. seen' >= Cardinality(a.data.votes) + 3
      BY <3>1, <3>2, ProgressIs
    <3>4. Earlier(a.data)
      BY <1>2, <1>4 DEF Answers
    <3> QED BY <3>3, <3>4 DEF Earlier, StepsOf, Ended
  <2> QED BY <1>1, <2>4, <2>5 DEF ContentInv
<1>5. CASE a.st # "ok"
  BY <1>1, <1>3, <1>5, FailureHandled DEF IsAsk, history
<1> QED BY <1>4, <1>5

\* The status poll: a build that goes on replaces the entry, one that is over is
\* fetched.
LEMMA StatusHandled == ASSUME ContentInv, NEW a \in asks, HandleStatus(a) PROVE ContentInv'
<1>1. /\ page = "job" /\ page' = page /\ UNCHANGED server /\ UNCHANGED <<fullBuild, shown>>
      /\ a.kind = "status" /\ a.st # "sent"
  BY DEF HandleStatus, On, component
<1>2. ContentTypes
  BY DEF ContentInv
<1>3. IsAsk(a) /\ ~Voting(a)
  BY <1>1, <1>2 DEF ContentTypes, Voting
<1>4. CASE a.st = "ok" /\ a.data.status \notin Ended
  <2>1. entry' = [a.data EXCEPT !.votes = {}] /\ Applied(a) /\ asks' = asks \ {a}
    BY <1>4 DEF HandleStatus
  <2>2. a.data \in [status : BuildStates, steps : {"null", "none", "running", "final"},
                    votes : SUBSET Voters]
    BY <1>3 DEF IsAsk, Build
  <2>3. entry' \in Build /\ entry'.status = a.data.status
    BY <2>1, <2>2 DEF Build
  <2>4. fullBuild' \in [known : BOOLEAN, votes : SUBSET Voters]
    BY <1>1, <1>2 DEF ContentTypes
  <2>5. ContentTypes' /\ Answers' /\ Unmounted' /\ NoFailure' /\ CopyNewer' /\ VoteKept'
    BY <1>1, <1>3, <1>4, <2>1, <2>3, <2>4, AnswerApplied
  <2>6. EndShown'
    BY <1>4, <2>3 DEF EndShown
  <2> QED BY <1>1, <2>5, <2>6 DEF ContentInv
<1>5. CASE ~(a.st = "ok" /\ a.data.status \notin Ended)
  <2>1. PICK fix : fix = Ask("fix", FALSE, asks)
    OBVIOUS
  <2>2. IsAsk(fix) /\ fix.mine = FALSE /\ fix.st = "sent"
    BY <2>1, RowIs DEF Ask, IsAsk
  <2>3. /\ asks' = (asks \ {a}) \union
                     (IF a.st = "ok" /\ entry.status \notin Ended THEN {fix} ELSE {})
        /\ UNCHANGED <<entry, seen, spoiled, cast>>
    BY <1>5, <2>1 DEF HandleStatus, history
  <2>4. \A b \in asks' : b \in asks \/ (IsAsk(b) /\ b.st = "sent" /\ (b.mine => shown))
    BY <2>2, <2>3
  <2>5. \A b \in asks : b.kind = "full" \/ Voting(b) => b \in asks'
    BY <1>1, <1>3, <2>3
  <2> QED BY <1>1, <2>3, <2>4, <2>5, AsksChange
<1> QED BY <1>4, <1>5

\* The copy is taken: it is newer than what has no vote of the user.
LEMMA CopyTaken ==
  ASSUME ContentInv, NEW a \in asks, Applied(a), a.st = "ok", a.kind = "full",
         asks' = asks \ {a}, UNCHANGED server,
         fullBuild' = [known |-> TRUE, votes |-> a.data.votes], a.mine
  PROVE  CopyNewer' /\ VoteKept'
<1>1. ContentTypes /\ Answers /\ CopyNewer /\ VoteKept
  BY DEF ContentInv
<1>2. Earlier(a.data) /\ bvotes' = bvotes
  BY <1>1 DEF Answers, server
<1>3. /\ ~spoiled' => /\ ~spoiled /\ cast' = cast /\ seen' >= seen /\ seen' \in Int /\ seen \in Int
                      /\ seen' = Progress(a.data.status, a.data.votes)
  BY <1>1, AppliedIs DEF ContentTypes
<1>4. \A c \in asks : c.data.status \in BuildStates /\ c.data.votes \in SUBSET Voters
  BY <1>1 DEF ContentTypes, IsAsk, Build
<1>5. fullBuild'.known /\ fullBuild'.votes = a.data.votes
  OBVIOUS
<1>6. CopyNewer'
  <2> SUFFICES ASSUME ~spoiled', Me \in a.data.votes
               PROVE  /\ Me \in bvotes
                      /\ \A b \in asks' : b.st = "ok" /\ Me \notin b.data.votes =>
                                            Progress(b.data.status, b.data.votes) < seen'
    BY <1>2, <1>5 DEF CopyNewer
  <2>1. Me \in bvotes
    BY <1>2 DEF Earlier
  <2>2. ASSUME NEW b \in asks', b.st = "ok", Me \notin b.data.votes
        PROVE  Progress(b.data.status, b.data.votes) < seen'
    <3>1. b \in asks /\ b.data.votes \subseteq a.data.votes /\ b.data.status = Waits
      BY <1>1, <2>1, <2>2 DEF Answers, Earlier
    <3>2. /\ Cardinality(b.data.votes) < Cardinality(a.data.votes)
          /\ Cardinality(b.data.votes) \in Nat /\ Cardinality(a.data.votes) \in Nat
      BY <1>4, <2>2, <3>1, MoreVotes
    <3>3. Progress(b.data.status, b.data.votes) = Cardinality(b.data.votes)
      BY <1>4, <3>1, ProgressIs
    <3>4. Progress(a.data.status, a.data.votes) >= Cardinality(a.data.votes)
      BY <1>4, ProgressIs
    <3> QED BY <1>3, <3>2, <3>3, <3>4
  <2> QED BY <2>1, <2>2
<1>7. VoteKept'
  <2> SUFFICES ASSUME ~spoiled', cast'
               PROVE  /\ Me \in bvotes
                      /\ Me \in a.data.votes \/ \E b \in asks' : Voting(b)
    BY <1>2, <1>5 DEF VoteKept, Voting
  <2>1. ~spoiled /\ cast
    BY <1>3
  <2>2. Me \in bvotes
    BY <1>1, <2>1 DEF VoteKept
  <2>3. CASE \E c \in asks : Voting(c)
    BY <2>2, <2>3 DEF Voting
  <2>4. CASE fullBuild.known /\ Me \in fullBuild.votes
    <3> SUFFICES ASSUME Me \notin a.data.votes PROVE FALSE
      BY <2>2
    <3>1. Progress(a.data.status, a.data.votes) < seen
      BY <1>1, <2>1, <2>4 DEF CopyNewer
    <3> QED BY <1>3, <3>1
  <2> QED BY <1>1, <2>1, <2>2, <2>3, <2>4 DEF VoteKept
<1> QED BY <1>6, <1>7

\* A fetch for the tab: the steps and the votes are taken, the status is not.
LEMMA FullHandled == ASSUME ContentInv, NEW a \in asks, HandleFull(a) PROVE ContentInv'
<1>1. /\ page = "job" /\ page' = page /\ UNCHANGED server /\ UNCHANGED shown
      /\ a.kind = "full" /\ a.st # "sent" /\ asks' = asks \ {a}
  BY DEF HandleFull, On
<1>2. ContentTypes /\ Answers /\ EndShown
  BY DEF ContentInv
<1>3. IsAsk(a)
  BY <1>2 DEF ContentTypes
<1>4. CASE a.st = "ok"
  <2>1. /\ entry' = [a.data EXCEPT !.status = entry.status] /\ Applied(a)
        /\ fullBuild' = IF a.mine THEN [known |-> TRUE, votes |-> a.data.votes] ELSE fullBuild
    BY <1>4 DEF HandleFull
  <2>2. a.data \in [status : BuildStates, steps : {"null", "none", "running", "final"},
                    votes : SUBSET Voters]
    BY <1>3 DEF IsAsk, Build
  <2>3. entry \in [status : BuildStates, steps : {"null", "none", "running", "final"},
                    votes : SUBSET Voters]
    BY <1>2 DEF ContentTypes, Build
  <2>4. entry' \in Build /\ entry'.status = entry.status /\ entry'.steps = a.data.steps
    BY <2>1, <2>2, <2>3 DEF Build
  <2>5. fullBuild' \in [known : BOOLEAN, votes : SUBSET Voters]
    BY <1>2, <2>1, <2>2 DEF ContentTypes
  <2>6. ContentTypes' /\ Answers' /\ Unmounted' /\ NoFailure'
    BY <1>1, <1>4, <2>1, <2>4, <2>5, AnswerApplied
  <2>7. CopyNewer' /\ VoteKept'
    <3>1. CASE a.mine
      BY <1>1, <1>4, <2>1, <3>1, CopyTaken
    <3>2. CASE ~a.mine
      <4>1. ~Voting(a) /\ fullBuild' = fullBuild
        BY <2>1, <3>2 DEF Voting
      <4> QED BY <1>1, <1>4, <2>1, <2>4, <2>5, <4>1, AnswerApplied
    <3> QED BY <3>1, <3>2
  <2>8. EndShown'
    <3> SUFFICES ASSUME ~spoiled', entry.status \in Ended
                 PROVE  bst \in Ended /\ seen' >= Cardinality(bvotes) + 3 /\ a.data.steps = "final"
      BY <1>1, <2>4 DEF EndShown, server
    <3>1. /\ ~spoiled /\ seen' >= seen /\ seen' \in Int /\ seen \in Int
          /\ seen' = Progress(a.data.status, a.data.votes)
      BY <1>2, <2>1, AppliedIs DEF ContentTypes
    <3>2. bst \in Ended /\ seen >= Cardinality(bvotes) + 3
      BY <1>2, <3>1 DEF EndShown
    <3>3. Earlier(a.data)
      BY <1>2, <1>4 DEF Answers
    <3>4. /\ Cardinality(a.data.votes) <= Cardinality(bvotes)
          /\ Cardinality(a.data.votes) \in Nat /\ Cardinality(bvotes) \in Nat
      BY <1>2, <2>2, <3>3, MoreVotes DEF Earlier, ContentTypes
    <3>5. seen' >= Cardinality(bvotes) + 3
      BY <3>1, <3>2, <3>4
    <3>6. a.data.status \in Ended
      <4>1. a.data.status \notin Ended => seen' <= Cardinality(a.data.votes) + 2
        BY <2>2, <3>1, ProgressIs
      <4> QED BY <3>1, <3>4, <3>5, <4>1
    <3> QED BY <3>2, <3>3, <3>5, <3>6 DEF Earlier, StepsOf, Ended
  <2> QED BY <1>1, <2>6, <2>7, <2>8 DEF ContentInv
<1>5. CASE a.st # "ok"
  BY <1>1, <1>3, <1>5, FailureHandled DEF HandleFull, IsAsk, history
<1> QED BY <1>4, <1>5

\* The job's page is opened and left.
LEMMA JobMounted ==
  ASSUME ContentInv, LeaveJob \/ \E s \in BuildStates : OpenJob(s)
  PROVE  ContentInv'
<1>1. CASE LeaveJob
  <2>1. ContentIdle'
    BY <1>1 DEF LeaveJob, ContentIdle
  <2>2. ContentIdle' => ContentInv'
    BY InitContent, PTL
  <2> QED BY <2>1, <2>2
<1>2. ASSUME NEW s \in BuildStates, OpenJob(s) PROVE ContentInv'
  <2>1. page # "job" /\ page' = "job"
    BY <1>2 DEF OpenJob, Enter, Elsewhere
  <2>2. ContentIdle
    BY <2>1 DEF ContentInv
  <2>3. /\ asks' = {} /\ ~shown' /\ ~cast' /\ ~fullBuild'.known /\ bst' = s /\ bvotes' = {}
        /\ entry' = [status |-> s, steps |-> "null", votes |-> {}] /\ seen' = Progress(s, {})
        /\ UNCHANGED <<fullBuild, shown, spoiled, cast>>
    BY <1>2, <2>2 DEF OpenJob, ContentIdle, component, NoFull, ListRow
  <2>4. Progress(s, {}) \in Nat /\ (s \in Ended => Progress(s, {}) >= Cardinality({}) + 3)
    BY <1>2, ProgressIs
  <2>5. ContentTypes'
    <3>1. ContentTypes
      BY DEF ContentInv
    <3>2. entry' \in Build
      BY <1>2, <2>3 DEF Build
    <3> QED BY <1>2, <2>3, <2>4, <3>1, <3>2 DEF ContentTypes
  <2>6. Answers' /\ Unmounted' /\ NoFailure' /\ CopyNewer' /\ VoteKept'
    BY <2>3 DEF Answers, Unmounted, NoFailure, CopyNewer, VoteKept
  <2>7. EndShown'
    BY <2>3, <2>4 DEF EndShown
  <2> QED BY <2>1, <2>5, <2>6, <2>7 DEF ContentInv
<1> QED BY <1>1, <1>2

\* The tab is opened: its copy is on its way.
LEMMA TabShown == ASSUME ContentInv, ShowTab PROVE ContentInv'
<1>1. PICK b : b = Ask("full", TRUE, asks)
  OBVIOUS
<1>2. IsAsk(b) /\ b.kind = "full" /\ b.st = "sent"
  BY <1>1, RowIs DEF Ask, IsAsk
<1>3. /\ page = "job" /\ page' = page /\ UNCHANGED server /\ ~shown /\ shown' = TRUE
      /\ fullBuild' = [known |-> FALSE, votes |-> {}] /\ asks' = asks \union {b}
      /\ UNCHANGED <<entry, seen, spoiled, cast>>
  BY <1>1 DEF ShowTab, On, NoFull, history
<1>4. ContentTypes /\ Answers /\ Unmounted /\ NoFailure /\ EndShown
  BY DEF ContentInv
<1>5. Onward
  BY <1>3, <1>4, StaysOnward
<1>6. fullBuild' \in [known : BOOLEAN, votes : SUBSET Voters] /\ ~fullBuild'.known /\ shown' \in BOOLEAN
      /\ shown'
  BY <1>3
<1>7. ContentTypes'
  BY <1>2, <1>3, <1>4, <1>5, <1>6 DEF ContentTypes, Onward, IsAsk
<1>8. Answers'
  BY <1>2, <1>3, <1>4, <1>5, AnswersNext DEF Fresh
<1>9. ~cast'
  BY <1>3, <1>4 DEF Unmounted
<1>10. CopyNewer' /\ VoteKept' /\ Unmounted'
  BY <1>6, <1>9 DEF CopyNewer, VoteKept, Unmounted
<1>11. NoFailure'
  BY <1>2, <1>3, <1>4 DEF NoFailure
<1>12. EndShown'
  BY <1>2, <1>3, <1>4, <1>5, EndKept
<1> QED BY <1>3, <1>7, <1>8, <1>10, <1>11, <1>12 DEF ContentInv

\* The tab is closed: what it waited for is nobody's.
LEMMA TabHidden == ASSUME ContentInv, HideTab PROVE ContentInv'
<1>1. /\ page = "job" /\ page' = page /\ UNCHANGED server /\ shown' = FALSE /\ cast' = FALSE
      /\ fullBuild' = [known |-> FALSE, votes |-> {}]
      /\ asks' = {[a EXCEPT !.mine = FALSE] : a \in asks}
      /\ UNCHANGED <<entry, seen, spoiled>>
  BY DEF HideTab, On, NoFull
<1>2. ContentTypes /\ Answers /\ NoFailure /\ EndShown
  BY DEF ContentInv
<1>3. Onward
  BY <1>1, <1>2, StaysOnward
<1>4. /\ fullBuild' \in [known : BOOLEAN, votes : SUBSET Voters] /\ ~fullBuild'.known
      /\ ~shown' /\ shown' \in BOOLEAN /\ ~cast' /\ cast' \in BOOLEAN
  BY <1>1
<1>5. ASSUME NEW b \in asks'
      PROVE  IsAsk(b) /\ b.mine = FALSE /\ \E a \in asks : b.st = a.st /\ b.data = a.data
  <2>1. PICK a \in asks : b = [a EXCEPT !.mine = FALSE]
    BY <1>1
  <2>2. a \in [n : {a.n}, kind : Commands \union {"full", "fix", "status"},
               mine : BOOLEAN, st : {"sent", "ok", "failed"}, data : Build]
    BY <1>2 DEF ContentTypes, IsAsk
  <2>3. b.n = a.n /\ b.kind = a.kind /\ b.mine = FALSE /\ b.st = a.st /\ b.data = a.data
    BY <2>1, <2>2
  <2>4. IsAsk(b)
    BY <2>1, <2>2, <2>3 DEF IsAsk
  <2> QED BY <2>3, <2>4
<1>6. ContentTypes'
  BY <1>1, <1>2, <1>3, <1>4, <1>5 DEF ContentTypes, Onward, IsAsk
<1>7. Answers'
  BY <1>2, <1>3, <1>5, AnswersNext DEF Fresh
<1>8. CopyNewer' /\ VoteKept' /\ Unmounted'
  BY <1>4, <1>5 DEF CopyNewer, VoteKept, Unmounted
<1>9. NoFailure'
  BY <1>1, <1>2, <1>5 DEF NoFailure
<1>10. EndShown'
  BY <1>1, <1>2, <1>3, <1>4, EndKept
<1> QED BY <1>1, <1>6, <1>7, <1>8, <1>9, <1>10 DEF ContentInv

LEMMA NextContent == ContentInv /\ [ContentNext]_<<page, contentVars>> => ContentInv'
<1> SUFFICES ASSUME ContentInv, [ContentNext]_<<page, contentVars>> PROVE ContentInv'
  OBVIOUS
<1>1. ASSUME NEW a \in asks,
             \/ AnswerRead(a) \/ AnswerCommand(a) \/ Refuse(a)
             \/ HandleFull(a) \/ HandleFix(a) \/ HandleStatus(a) \/ HandleCommand(a)
      PROVE  ContentInv'
  BY <1>1, ReadAnswered, CommandAnswered, AskRefused, FullHandled, FixHandled, StatusHandled,
     CommandHandled
<1>2. CASE UNCHANGED <<page, contentVars>>
  BY <1>2 DEF contentVars, ContentInv, ContentTypes, Answers, Earlier, Unmounted, NoFailure,
     EndShown, CopyNewer, VoteKept, ContentIdle, IsAsk
<1> QED BY <1>1, <1>2, JobMounted, TabShown, TabHidden, ContentGoesOn, AskSent DEF ContentNext

\* The invariant gives what the page promises.
LEMMA ContentPromise == ContentInv => ContentSettled
<1> SUFFICES ASSUME ContentInv, shown, asks = {}, ~spoiled
             PROVE  /\ entry.status \in Ended => entry.steps = "final"
                    /\ cast => Me \in mergedBuild.votes
  BY DEF ContentSettled
<1>1. EndShown /\ VoteKept /\ entry \in Build
  BY DEF ContentInv, ContentTypes
<1>2. entry.status \in Ended => entry.steps = "final"
  BY <1>1 DEF EndShown
<1>3. cast => fullBuild.known /\ Me \in fullBuild.votes
  BY <1>1 DEF VoteKept
<1>4. cast => mergedBuild.votes = fullBuild.votes
  BY <1>1, <1>3 DEF mergedBuild, Build
<1> QED BY <1>2, <1>3, <1>4

\* Once every request of an open tab is answered, and none failed or came after a
\* newer one, a build shown as ended shows its final steps, and a user whose vote
\* was accepted sees it, for any number of voters and of requests: refreshFullBuild,
\* onFullBuildFetched and the commands of BuildContent.
THEOREM ContentIsSettled == ContentSpec => []ContentSettled
<1>1. page = Elsewhere /\ ContentIdle => ContentInv
  BY InitContent
<1> QED BY ContentPromise, <1>1, NextContent, PTL DEF ContentSpec

-----------------------------------------------------------------------------
(* AdminLists: the rows are what the server has, or will be.                 *)

AnEntry == [name : EntryNames, value : Values]

\* Only the secrets of a pipeline are inherited, or override.
ARow == [name : EntryNames, value : Values,
         inherited : IF aList = "secrets" THEN BOOLEAN ELSE {FALSE},
         overrides : IF aList = "secrets" THEN BOOLEAN ELSE {FALSE}]

\* A call.  Its value is a number that tells loads apart, or one the user gave.
ACall(r) ==
    /\ r \in [kind : {"load", "add", "save", "delete"}, name : EntryNames \union {""},
              value : {r.value}, st : {"sent", "ok", "lost", "failed"}, ver : Nat,
              closure : SUBSET ARow, own : SUBSET AnEntry, team : SUBSET AnEntry,
              legs : SUBSET {"own", "team"}, torn : BOOLEAN]
    /\ r.ver <= aVer
    /\ r.kind # "load" => r.name \in EntryNames /\ r.value \in Values
    /\ r.kind = "save" => \E m \in r.closure : m.name = r.name
    /\ aList # "secrets" => r.team = {}
    /\ r.kind = "load" /\ r.st = "ok" => Legs \subseteq r.legs

AdminTypes ==
    /\ aList \in Lists /\ aOwn \subseteq AnEntry
    /\ \A e, f \in aOwn : e.name = f.name => e = f
    /\ aVer \in Nat /\ aSeen \in Nat /\ aSpoiled \in BOOLEAN
    /\ aRows \subseteq ARow
    /\ \A r \in aReqs : ACall(r)
    /\ page # "admin" => aRows = {}

Only(es, n) == {e \in es : e.name = n}

\* A command that has taken effect and was not heard of yet.
Effective(r) == r.kind # "load" /\ r.st \in {"ok", "lost"}
Effect(r) == IF r.kind = "delete" THEN {} ELSE {Entry(r.name, r.value)}

\* What was so for a name at change v is known to be old, or will be.
Outdated(n, v) ==
    \/ aSeen > v
    \/ \E p \in aReqs : Effective(p) /\ p.name = n /\ p.ver > v

\* What a load has read, and what a command did, is so as long as it is not outdated.
LoadTrue(r) ==
    ~r.torn =>
        /\ "own" \in r.legs =>
              \A n \in EntryNames : Only(r.own, n) = Only(aOwn, n) \/ Outdated(n, r.ver)
        /\ "team" \in r.legs => r.team = Team
ReadTrue == \A r \in aReqs : r.kind = "load" => LoadTrue(r)
EffectTrue ==
    \A r \in aReqs : Effective(r) =>
        Only(aOwn, r.name) = Effect(r) \/ Outdated(r.name, r.ver)

\* The rows of a name are what a pipeline sees, or something is on its way.
RowsRight(n) == Only(aRows, n) = Only(mergeEntries(Team, aOwn), n)
RowsTold ==
    ~aSpoiled => \A n \in EntryNames :
        \/ RowsRight(n)
        \/ \E r \in aReqs : r.kind = "load" \/ (Effective(r) /\ r.name = n)

AdminInv == AdminTypes /\ ReadTrue /\ EffectTrue /\ RowsTold
-----------------------------------------------------------------------------
\* What a pipeline sees of a name: its own entry, or else the team's.
SeenAs(x, team, own, n) ==
    \/ \E e \in own : x = Row(e, FALSE, n \in NamesOf(team))
    \/ own = {} /\ \E e \in Only(team, n) : x = Row(e, TRUE, FALSE)

LEMMA MergeIs ==
  ASSUME NEW team, NEW own, NEW n, NEW x
  PROVE  x \in Only(mergeEntries(team, own), n) <=> SeenAs(x, team, Only(own, n), n)
<1>1. \A e, a, b : Row(e, a, b).name = e.name
  BY DEF Row
<1>2. ASSUME NEW e \in own, x = Row(e, FALSE, e.name \in NamesOf(team)), x.name = n
      PROVE  \E d \in Only(own, n) : x = Row(d, FALSE, n \in NamesOf(team))
  <2>1. e.name = n
    BY <1>1, <1>2
  <2> QED BY <1>2, <2>1 DEF Only
<1>3. ASSUME NEW e \in team, e.name \notin NamesOf(own), x = Row(e, TRUE, FALSE), x.name = n
      PROVE  Only(own, n) = {} /\ \E d \in Only(team, n) : x = Row(d, TRUE, FALSE)
  <2>1. e.name = n
    BY <1>1, <1>3
  <2>2. Only(own, n) = {}
    BY <1>3, <2>1 DEF Only, NamesOf
  <2> QED BY <1>3, <2>1, <2>2 DEF Only
<1>4. ASSUME NEW e \in Only(own, n), x = Row(e, FALSE, n \in NamesOf(team))
      PROVE  x \in Only(mergeEntries(team, own), n)
  <2>1. e \in own /\ e.name = n /\ x.name = n
    BY <1>1, <1>4 DEF Only
  <2> QED BY <1>4, <2>1 DEF Only, mergeEntries
<1>5. ASSUME NEW e \in Only(team, n), Only(own, n) = {}, x = Row(e, TRUE, FALSE)
      PROVE  x \in Only(mergeEntries(team, own), n)
  <2>1. e \in team /\ e.name = n /\ x.name = n
    BY <1>1, <1>5 DEF Only
  <2>2. e.name \notin NamesOf(own)
    BY <1>5, <2>1 DEF Only, NamesOf
  <2> QED BY <1>5, <2>1, <2>2 DEF Only, mergeEntries
<1>6. ASSUME x \in Only(mergeEntries(team, own), n) PROVE SeenAs(x, team, Only(own, n), n)
  BY <1>2, <1>3, <1>6 DEF Only, mergeEntries, SeenAs
<1> QED BY <1>4, <1>5, <1>6 DEF SeenAs

LEMMA SameMerge ==
  ASSUME NEW team, NEW own, NEW other, NEW n, Only(own, n) = Only(other, n)
  PROVE  Only(mergeEntries(team, own), n) = Only(mergeEntries(team, other), n)
<1>1. ASSUME NEW x
      PROVE  x \in Only(mergeEntries(team, own), n) <=> x \in Only(mergeEntries(team, other), n)
  BY MergeIs
<1> QED BY <1>1 DEF Only

LEMMA TeamIs == Team \in SUBSET AnEntry /\ (aList # "secrets" => Team = {})
                /\ \A e \in Team : e.value = 0
  BY AdminAssumption DEF Team, AnEntry, Entry, Values

\* A load that is sent.
LEMMA LoadingIs ==
  ASSUME aVer \in Nat
  PROVE  /\ ACall(Loading) /\ Loading.kind = "load" /\ Loading.legs = {}
         /\ Loading.ver = 0 /\ Loading.st = "sent" /\ Loading.closure = {} /\ Loading.team = {}
<1>1. PICK c : c = CHOOSE v \in 0..MaxAdmin : \A r \in aReqs : ~(r.kind = "load" /\ r.value = v)
  OBVIOUS
<1>2. Loading = [Command("load", "", c) EXCEPT !.closure = {}]
  BY <1>1 DEF Loading
<1>3. PICK d : d = Command("load", "", c)
  OBVIOUS
<1>4. d = [kind |-> "load", name |-> "", value |-> c, st |-> "sent", ver |-> 0,
           closure |-> aRows, own |-> {}, team |-> {}, legs |-> {}, torn |-> FALSE]
  BY <1>3 DEF Command
<1>5. d \in [kind : {"load"}, name : {""}, value : {c}, st : {"sent"}, ver : {0},
             closure : {aRows}, own : {{}}, team : {{}}, legs : {{}}, torn : {FALSE}]
  BY <1>4
<1>6. Loading \in [kind : {"load"}, name : {""}, value : {c}, st : {"sent"}, ver : {0},
                   closure : {{}}, own : {{}}, team : {{}}, legs : {{}}, torn : {FALSE}]
  BY <1>2, <1>3, <1>5
<1>7. Loading.value = c
  BY <1>6
<1>8. 0 \in Nat /\ 0 <= aVer
  OBVIOUS
<1> QED BY <1>6, <1>7, <1>8 DEF ACall, Legs

\* A call stays one.
LEMMA CallStays ==
  ASSUME NEW r, ACall(r), aList' = aList, aVer' \in Nat, aVer \in Nat, aVer' >= aVer
  PROVE  ACall(r)'
<1>1. ARow' = ARow /\ Legs' = Legs /\ AnEntry' = AnEntry
  BY DEF ARow, Legs, AnEntry
<1>2. r.ver \in Nat /\ r.ver <= aVer
  BY DEF ACall
<1>3. r.ver <= aVer'
  BY <1>2
<1> QED BY <1>1, <1>3 DEF ACall

\* What is outdated stays so: a command that is heard of is told to the rows.
LEMMA OutdatedStays ==
  ASSUME NEW n, NEW v \in Nat, Outdated(n, v), AdminTypes, aSeen' \in Nat, aSeen' >= aSeen,
         \A p \in aReqs : Effective(p) => p \in aReqs' \/ aSeen' >= p.ver
  PROVE  Outdated(n, v)'
<1>1. aSeen \in Nat /\ \A p \in aReqs : p.ver \in Nat
  BY DEF AdminTypes, ACall
<1>2. CASE aSeen > v
  BY <1>1, <1>2 DEF Outdated
<1>3. ASSUME NEW p \in aReqs, Effective(p), p.name = n, p.ver > v PROVE Outdated(n, v)'
  <2>1. CASE p \in aReqs'
    BY <1>3, <2>1 DEF Outdated, Effective
  <2>2. CASE aSeen' >= p.ver
    BY <1>1, <1>3, <2>2 DEF Outdated
  <2> QED BY <1>3, <2>1, <2>2
<1> QED BY <1>2, <1>3 DEF Outdated

\* While the server's entries stay, what was read and done stays true.
LEMMA TrueStays ==
  ASSUME AdminTypes, ReadTrue, EffectTrue, UNCHANGED <<aList, aOwn>>,
         aSeen' \in Nat, aSeen' >= aSeen,
         \A p \in aReqs : Effective(p) => p \in aReqs' \/ aSeen' >= p.ver,
         \A r \in aReqs' : r \in aReqs \/ (~Effective(r) /\ (r.kind = "load" => LoadTrue(r)'))
  PROVE  ReadTrue' /\ EffectTrue'
<1>1. Team' = Team
  BY DEF Team
<1>2. \A r \in aReqs : r.ver \in Nat
  BY DEF AdminTypes, ACall
<1>3. ASSUME NEW r \in aReqs, r.kind = "load" PROVE LoadTrue(r)'
  <2> SUFFICES ASSUME ~r.torn
               PROVE  /\ "own" \in r.legs =>
                            \A n \in EntryNames : Only(r.own, n) = Only(aOwn, n) \/ Outdated(n, r.ver)'
                      /\ "team" \in r.legs => r.team = Team
    BY <1>1 DEF LoadTrue, Only, Outdated
  <2> QED BY <1>2, <1>3, OutdatedStays DEF ReadTrue, LoadTrue
<1>4. ASSUME NEW r \in aReqs, Effective(r)
      PROVE  Only(aOwn, r.name) = Effect(r) \/ Outdated(r.name, r.ver)'
  BY <1>2, <1>4, OutdatedStays DEF EffectTrue
<1>5. ReadTrue'
  BY <1>3 DEF ReadTrue
<1>6. EffectTrue'
  <2> SUFFICES ASSUME NEW r \in aReqs', Effective(r)
               PROVE  Only(aOwn, r.name) = Effect(r) \/ Outdated(r.name, r.ver)'
    BY DEF EffectTrue, Effective, Effect, Only, Outdated
  <2> QED BY <1>4
<1> QED BY <1>5, <1>6

\* While the rows and the entries stay, the rows are right or something is on its way.
LEMMA RowsStay ==
  ASSUME RowsTold, UNCHANGED <<aList, aOwn, aRows>>, ~aSpoiled' => ~aSpoiled,
         \A r \in aReqs : r.kind = "load" => \E q \in aReqs' : q.kind = "load",
         \A r \in aReqs : Effective(r) =>
            \E q \in aReqs' : q.kind = "load" \/ (Effective(q) /\ q.name = r.name)
  PROVE  RowsTold'
<1>1. Team' = Team
  BY DEF Team
<1>2. \A n : RowsRight(n)' <=> RowsRight(n)
  BY <1>1 DEF RowsRight, Only
<1> SUFFICES ASSUME ~aSpoiled', NEW n \in EntryNames
             PROVE  \/ RowsRight(n)
                    \/ \E r \in aReqs' : r.kind = "load" \/ (Effective(r) /\ r.name = n)
  BY <1>2 DEF RowsTold, Effective
<1>3. CASE RowsRight(n)
  BY <1>3
<1>4. ASSUME NEW r \in aReqs, r.kind = "load" \/ (Effective(r) /\ r.name = n)
      PROVE  \E q \in aReqs' : q.kind = "load" \/ (Effective(q) /\ q.name = n)
  BY <1>4
<1> QED BY <1>3, <1>4 DEF RowsTold

LEMMA InitAdmin == ASSUME AdminIdle PROVE AdminInv
<1>1. /\ aList = "teams" /\ aOwn = {} /\ aVer = 0 /\ aRows = {} /\ aReqs = {} /\ aSeen = 0
      /\ aSpoiled \in BOOLEAN
  BY DEF AdminIdle
<1>2. AdminTypes
  BY <1>1 DEF AdminTypes, Lists
<1>3. Team = {}
  BY <1>1, TeamIs
<1>4. mergeEntries(Team, aOwn) = {}
  BY <1>1, <1>3 DEF mergeEntries
<1>5. RowsTold
  BY <1>1, <1>4 DEF RowsTold, RowsRight, Only
<1> QED BY <1>1, <1>2, <1>5 DEF AdminInv, ReadTrue, EffectTrue

\* A list is opened: its rows are on their way.
LEMMA ListOpened ==
  ASSUME AdminInv, NEW l \in Lists, NEW es \in StartEntries, OpenAdmin(l, es)
  PROVE  AdminInv'
<1>1. PICK b : b = Loading
  OBVIOUS
<1>2. /\ page # "admin" /\ page' = "admin" /\ aList' = l /\ aOwn' = {Entry(n, 0) : n \in es}
      /\ aReqs' = {b} /\ aSpoiled' = TRUE /\ UNCHANGED <<aVer, aRows, aSeen>>
  BY <1>1 DEF OpenAdmin, Enter, Elsewhere
<1>3. aVer \in Nat /\ aSeen \in Nat /\ aRows = {}
  BY <1>2 DEF AdminInv, AdminTypes
<1>4. ACall(b) /\ b.kind = "load" /\ b.legs = {} /\ b.st = "sent" /\ b.closure = {} /\ b.team = {}
  BY <1>1, <1>3, LoadingIs
<1>5. ACall(b)'
  BY <1>2, <1>4 DEF ACall, AnEntry
<1>6. aOwn' \subseteq AnEntry /\ \A e, f \in aOwn' : e.name = f.name => e = f
  BY <1>2, AdminAssumption DEF Entry, AnEntry, Values
<1>7. AdminTypes'
  BY <1>2, <1>3, <1>5, <1>6 DEF AdminTypes, AnEntry
<1>8. ReadTrue' /\ EffectTrue'
  BY <1>2, <1>4 DEF ReadTrue, LoadTrue, EffectTrue, Effective
<1>9. RowsTold'
  BY <1>2 DEF RowsTold
<1> QED BY <1>7, <1>8, <1>9 DEF AdminInv

LEMMA ListClosed == ASSUME CloseAdmin PROVE AdminInv'
<1>1. AdminIdle'
  BY DEF CloseAdmin, AdminIdle
<1>2. AdminIdle' => AdminInv'
  BY InitAdmin, PTL
<1> QED BY <1>1, <1>2

\* A call is sent, declined or handled, and the rows stay.
LEMMA CallsChange ==
  ASSUME AdminInv, page = "admin", page' = page, UNCHANGED <<aList, aOwn, aVer, aRows>>,
         aSeen' \in Nat, aSeen' >= aSeen, aSpoiled' \in BOOLEAN, ~aSpoiled' => ~aSpoiled,
         \A p \in aReqs : Effective(p) => p \in aReqs' \/ aSeen' >= p.ver,
         \A r \in aReqs' : r \in aReqs \/ (ACall(r) /\ ~Effective(r) /\ (r.kind = "load" => LoadTrue(r)')),
         \A r \in aReqs : r.kind = "load" /\ ~aSpoiled' => \E q \in aReqs' : q.kind = "load",
         \A r \in aReqs : Effective(r) /\ ~aSpoiled' =>
            \E q \in aReqs' : q.kind = "load" \/ (Effective(q) /\ q.name = r.name)
  PROVE  AdminInv'
<1>1. AdminTypes /\ ReadTrue /\ EffectTrue /\ RowsTold
  BY DEF AdminInv
<1>2. ReadTrue' /\ EffectTrue'
  BY <1>1, TrueStays
<1>3. RowsTold'
  <2>1. CASE aSpoiled'
    BY <2>1 DEF RowsTold
  <2>2. CASE ~aSpoiled'
    BY <1>1, <2>2, RowsStay
  <2> QED BY <2>1, <2>2
<1>4. aVer \in Nat /\ aVer' \in Nat /\ aVer' >= aVer
  BY <1>1 DEF AdminTypes
<1>5. \A r \in aReqs' : ACall(r)'
  BY <1>1, <1>4, CallStays DEF AdminTypes
<1>6. ARow' = ARow
  BY DEF ARow
<1>7. AdminTypes'
  BY <1>1, <1>4, <1>5, <1>6 DEF AdminTypes, AnEntry
<1> QED BY <1>2, <1>3, <1>7 DEF AdminInv

LEMMA Clicked == ASSUME AdminInv, Click PROVE AdminInv'
<1>1. /\ page = "admin" /\ page' = page /\ UNCHANGED <<aList, aOwn, aVer, aRows, aSeen, aSpoiled>>
  BY DEF Click, On
<1>2. PICK n \in EntryNames : OnDelete(n) \/ OnAdd(n) \/ OnSave(n)
  BY DEF Click
<1>3. AdminTypes
  BY DEF AdminInv
<1>4. aVer \in Nat /\ aSeen \in Nat /\ aRows \subseteq ARow /\ aSpoiled \in BOOLEAN
  BY <1>3 DEF AdminTypes
<1>5. \E k \in {"add", "save", "delete"}, v \in Values :
         /\ aReqs' = aReqs \union {Command(k, n, v)}
         /\ k = "save" => \E r \in aRows : r.name = n
  BY <1>2 DEF OnDelete, OnAdd, OnSave, Values
<1>6. PICK k \in {"add", "save", "delete"}, v \in Values :
         /\ aReqs' = aReqs \union {Command(k, n, v)}
         /\ k = "save" => \E r \in aRows : r.name = n
  BY <1>5
<1>7. PICK b : b = Command(k, n, v)
  OBVIOUS
<1>8. b \in [kind : {k}, name : {n}, value : {v}, st : {"sent"}, ver : {0},
             closure : {aRows}, own : {{}}, team : {{}}, legs : {{}}, torn : {FALSE}]
  BY <1>7 DEF Command
<1>9. 0 \in Nat /\ 0 <= aVer
  BY <1>4
<1>10. ACall(b) /\ ~Effective(b) /\ b.kind # "load"
  BY <1>4, <1>6, <1>8, <1>9 DEF ACall, Effective
<1>11. aReqs' = aReqs \union {b}
  BY <1>6, <1>7
<1>12. aSeen' >= aSeen /\ aSeen' \in Nat /\ aSpoiled' \in BOOLEAN
  BY <1>1, <1>4
<1> QED BY <1>1, <1>10, <1>11, <1>12, CallsChange

\* The rows are told of a call.
LEMMA ToldIs ==
  ASSUME AdminTypes, NEW r \in aReqs, Told(r)
  PROVE  aSeen' \in Nat /\ aSeen' >= aSeen /\ aSeen' >= r.ver /\ r.ver \in Nat /\ aSeen \in Nat
<1>1. aSeen \in Nat /\ r.ver \in Nat
  BY DEF AdminTypes, ACall
<1> QED BY <1>1 DEF Told

\* A command that the server declined.
LEMMA CommandDeclined == ASSUME AdminInv, NEW r \in aReqs, Declined(r) PROVE AdminInv'
<1>1. PICK f : f = [r EXCEPT !.st = "failed"]
  OBVIOUS
<1>2. /\ page = "admin" /\ page' = page /\ UNCHANGED <<aList, aOwn, aVer, aRows, aSeen, aSpoiled>>
      /\ r.kind # "load" /\ r.st = "sent" /\ aReqs' = (aReqs \ {r}) \union {f}
  BY <1>1 DEF Declined, Instead, On
<1>3. ACall(r) /\ aSeen \in Nat /\ aSpoiled \in BOOLEAN
  BY DEF AdminInv, AdminTypes
<1>4. r \in [kind : {"load", "add", "save", "delete"}, name : EntryNames \union {""},
             value : {r.value}, st : {"sent", "ok", "lost", "failed"}, ver : Nat,
             closure : SUBSET ARow, own : SUBSET AnEntry, team : SUBSET AnEntry,
             legs : SUBSET {"own", "team"}, torn : BOOLEAN]
  BY <1>3 DEF ACall
<1>5. /\ f \in [kind : {r.kind}, name : {r.name}, value : {r.value}, st : {"failed"}, ver : {r.ver},
                closure : {r.closure}, own : {r.own}, team : {r.team}, legs : {r.legs}, torn : {r.torn}]
  BY <1>1, <1>4
<1>6. ACall(f) /\ ~Effective(f) /\ f.kind # "load"
  BY <1>2, <1>3, <1>4, <1>5 DEF ACall, Effective
<1>7. ~Effective(r)
  BY <1>2 DEF Effective
<1>8. aSeen' >= aSeen /\ aSeen' \in Nat /\ aSpoiled' \in BOOLEAN
  BY <1>2, <1>3
<1> QED BY <1>2, <1>6, <1>7, <1>8, CallsChange

\* A load goes on: it stays a load, and what it has read is true.
LEMMA LoadGoesOn ==
  ASSUME AdminInv, NEW r \in aReqs, r.kind = "load", NEW f, ACall(f), f.kind = "load", LoadTrue(f)',
         page = "admin", page' = page, UNCHANGED <<aList, aOwn, aVer, aRows, aSeen, aSpoiled>>,
         aReqs' = (aReqs \ {r}) \union {f}
  PROVE  AdminInv'
<1>1. aSeen' >= aSeen /\ aSeen' \in Nat /\ aSpoiled' \in BOOLEAN
  BY DEF AdminInv, AdminTypes
<1>2. ~Effective(r) /\ ~Effective(f)
  BY DEF Effective
<1> QED BY <1>1, <1>2, CallsChange

\* What a load has read stays true when it reads on, or fails.
LEMMA LoadStaysTrue ==
  ASSUME AdminInv, NEW r \in aReqs, r.kind = "load", NEW f, f.kind = "load", ~f.torn => ~r.torn,
         UNCHANGED <<aList, aOwn, aSeen>>, aReqs' = (aReqs \ {r}) \union {f},
         "own" \in f.legs => \/ "own" \in r.legs /\ f.own = r.own /\ f.ver = r.ver
                             \/ f.own = aOwn,
         "team" \in f.legs => \/ "team" \in r.legs /\ f.team = r.team
                              \/ f.team = Team
  PROVE  LoadTrue(f)'
<1>1. AdminTypes /\ LoadTrue(r)
  BY DEF AdminInv, ReadTrue
<1>2. Team' = Team /\ aSeen \in Nat /\ aSeen' >= aSeen /\ r.ver \in Nat
  <2>1. Team' = Team
    BY DEF Team
  <2>2. aSeen \in Nat /\ aSeen' >= aSeen
    BY <1>1 DEF AdminTypes
  <2>3. r.ver \in Nat
    BY <1>1 DEF AdminTypes, ACall
  <2> QED BY <2>1, <2>2, <2>3
<1>3. \A p \in aReqs : Effective(p) => p \in aReqs' \/ aSeen' >= p.ver
  BY DEF Effective
<1>4. \A n : Outdated(n, r.ver) => Outdated(n, r.ver)'
  BY <1>1, <1>2, <1>3, OutdatedStays
<1> SUFFICES ASSUME ~f.torn
             PROVE  /\ "own" \in f.legs =>
                          \A n \in EntryNames : Only(f.own, n) = Only(aOwn, n) \/ Outdated(n, f.ver)'
                    /\ "team" \in f.legs => f.team = Team
  BY <1>2 DEF LoadTrue, Only, Outdated
<1> QED BY <1>1, <1>4 DEF LoadTrue

LEMMA RowsRead ==
  ASSUME AdminInv, NEW r \in aReqs, NEW leg \in Legs, Read(r, leg)
  PROVE  AdminInv'
<1>1. PICK legs : legs = r.legs \union {leg}
  OBVIOUS
<1>2. PICK done : done = IF legs = Legs THEN "ok" ELSE "sent"
  OBVIOUS
<1>3. PICK f : f = IF leg = "own"
                   THEN [r EXCEPT !.legs = legs, !.st = done, !.own = aOwn, !.ver = aVer]
                   ELSE [r EXCEPT !.legs = legs, !.st = done, !.team = Team]
  OBVIOUS
<1>4. /\ page = "admin" /\ page' = page /\ UNCHANGED <<aList, aOwn, aVer, aRows, aSeen, aSpoiled>>
      /\ r.kind = "load" /\ r.st = "sent" /\ aReqs' = (aReqs \ {r}) \union {f}
  BY <1>1, <1>2, <1>3 DEF Read, Instead, On
<1>5. ACall(r) /\ aVer \in Nat /\ aOwn \subseteq AnEntry
  BY DEF AdminInv, AdminTypes
<1>6. r \in [kind : {"load", "add", "save", "delete"}, name : EntryNames \union {""},
             value : {r.value}, st : {"sent", "ok", "lost", "failed"}, ver : Nat,
             closure : SUBSET ARow, own : SUBSET AnEntry, team : SUBSET AnEntry,
             legs : SUBSET {"own", "team"}, torn : BOOLEAN]
  BY <1>5 DEF ACall
<1>7. legs \subseteq {"own", "team"} /\ leg \in {"own", "team"} /\ (leg = "team" => aList = "secrets")
  BY <1>1, <1>6 DEF Legs
<1>8. done \in {"sent", "ok"} /\ (done = "ok" => legs = Legs)
  BY <1>2
<1>9. CASE leg = "own"
  <2>1. f \in [kind : {"load"}, name : {r.name}, value : {r.value}, st : {done}, ver : {aVer},
               closure : {r.closure}, own : {aOwn}, team : {r.team}, legs : {legs}, torn : {r.torn}]
    BY <1>3, <1>4, <1>6, <1>9
  <2>2. aVer <= aVer
    BY <1>5
  <2>3. ACall(f)
    BY <1>5, <1>6, <1>7, <1>8, <2>1, <2>2 DEF ACall
  <2>4. LoadTrue(f)'
    BY <1>1, <1>4, <1>9, <2>1, LoadStaysTrue
  <2> QED BY <1>4, <2>1, <2>3, <2>4, LoadGoesOn
<1>10. CASE leg = "team"
  <2>1. f \in [kind : {"load"}, name : {r.name}, value : {r.value}, st : {done}, ver : {r.ver},
               closure : {r.closure}, own : {r.own}, team : {Team}, legs : {legs}, torn : {r.torn}]
    BY <1>3, <1>4, <1>6, <1>10
  <2>2. Team \in SUBSET AnEntry
    BY TeamIs
  <2>3. ACall(f)
    BY <1>5, <1>6, <1>7, <1>8, <1>10, <2>1, <2>2 DEF ACall
  <2>4. LoadTrue(f)'
    BY <1>1, <1>4, <1>10, <2>1, LoadStaysTrue
  <2> QED BY <1>4, <2>1, <2>3, <2>4, LoadGoesOn
<1> QED BY <1>7, <1>9, <1>10

LEMMA RowsNotRead ==
  ASSUME AdminInv, NEW r \in aReqs, NEW leg \in Legs, ReadFails(r, leg)
  PROVE  AdminInv'
<1>1. PICK legs : legs = r.legs \union {leg}
  OBVIOUS
<1>2. PICK done : done = IF legs = Legs THEN "ok" ELSE "sent"
  OBVIOUS
<1>3. PICK f : f = IF aList = "secrets" THEN [r EXCEPT !.legs = legs, !.torn = TRUE, !.st = done]
                   ELSE [r EXCEPT !.st = "failed"]
  OBVIOUS
<1>4. /\ page = "admin" /\ page' = page /\ UNCHANGED <<aList, aOwn, aVer, aRows, aSeen, aSpoiled>>
      /\ r.kind = "load" /\ aReqs' = (aReqs \ {r}) \union {f}
  BY <1>1, <1>2, <1>3 DEF ReadFails, Instead, On
<1>5. ACall(r)
  BY DEF AdminInv, AdminTypes
<1>6. r \in [kind : {"load", "add", "save", "delete"}, name : EntryNames \union {""},
             value : {r.value}, st : {"sent", "ok", "lost", "failed"}, ver : Nat,
             closure : SUBSET ARow, own : SUBSET AnEntry, team : SUBSET AnEntry,
             legs : SUBSET {"own", "team"}, torn : BOOLEAN]
  BY <1>5 DEF ACall
<1>7. legs \subseteq {"own", "team"}
  BY <1>1, <1>6 DEF Legs
<1>8. done \in {"sent", "ok"} /\ (done = "ok" => legs = Legs)
  BY <1>2
<1>9. CASE aList = "secrets"
  <2>1. f \in [kind : {"load"}, name : {r.name}, value : {r.value}, st : {done}, ver : {r.ver},
               closure : {r.closure}, own : {r.own}, team : {r.team}, legs : {legs}, torn : {TRUE}]
    BY <1>3, <1>4, <1>6, <1>9
  <2>2. ACall(f)
    BY <1>5, <1>6, <1>7, <1>8, <1>9, <2>1 DEF ACall
  <2>3. LoadTrue(f)'
    BY <2>1 DEF LoadTrue
  <2> QED BY <1>4, <2>1, <2>2, <2>3, LoadGoesOn
<1>10. CASE aList # "secrets"
  <2>1. f \in [kind : {"load"}, name : {r.name}, value : {r.value}, st : {"failed"}, ver : {r.ver},
               closure : {r.closure}, own : {r.own}, team : {r.team}, legs : {r.legs}, torn : {r.torn}]
    BY <1>3, <1>4, <1>6, <1>10
  <2>2. ACall(f)
    BY <1>5, <1>6, <2>1 DEF ACall
  <2>3. LoadTrue(f)'
    BY <1>4, <2>1, LoadStaysTrue
  <2> QED BY <1>4, <2>1, <2>2, <2>3, LoadGoesOn
<1> QED BY <1>9, <1>10

LEMMA CallUnheard == ASSUME AdminInv, NEW r \in aReqs, Unheard(r) PROVE AdminInv'
<1>1. /\ page = "admin" /\ page' = page /\ UNCHANGED <<aList, aOwn, aVer, aRows>>
      /\ r.st \in {"failed", "lost"} /\ aReqs' = aReqs \ {r} /\ Told(r)
      /\ aSpoiled' = (aSpoiled \/ r.st = "lost" \/ r.kind = "load")
  BY DEF Unheard, On
<1>2. AdminTypes
  BY DEF AdminInv
<1>3. /\ aSpoiled' \in BOOLEAN
      /\ ~aSpoiled' => ~aSpoiled /\ r.st # "lost" /\ r.kind # "load"
  BY <1>1, Zenon
<1>4. ~aSpoiled' => ~Effective(r) /\ r.kind # "load"
  BY <1>1, <1>3 DEF Effective
<1>5. aSeen' \in Nat /\ aSeen' >= aSeen /\ aSeen' >= r.ver
  BY <1>1, <1>2, ToldIs
<1> QED BY <1>1, <1>3, <1>4, <1>5, CallsChange

\* A command takes effect: what was read and done before is outdated for its name.
LEMMA CommandPerformed == ASSUME AdminInv, NEW r \in aReqs, Performed(r) PROVE AdminInv'
<1>1. /\ page = "admin" /\ page' = page /\ UNCHANGED <<aList, aRows, aSeen, aSpoiled>>
      /\ r.kind # "load" /\ r.st = "sent" /\ aVer' = aVer + 1
      /\ aOwn' = Without(aOwn, r.name)
                   \union (IF r.kind = "delete" THEN {} ELSE {Entry(r.name, r.value)})
  BY DEF Performed, On
<1>2. PICK s \in {"ok", "lost"} : aReqs' = (aReqs \ {r}) \union {[r EXCEPT !.st = s, !.ver = aVer']}
  BY DEF Performed, Instead
<1>3. PICK f : f = [r EXCEPT !.st = s, !.ver = aVer + 1]
  OBVIOUS
<1>4. aReqs' = (aReqs \ {r}) \union {f}
  BY <1>1, <1>2, <1>3
<1>5. AdminTypes /\ ReadTrue /\ EffectTrue /\ RowsTold /\ ACall(r)
  BY DEF AdminInv, AdminTypes
<1>6. r \in [kind : {"load", "add", "save", "delete"}, name : EntryNames \union {""},
             value : {r.value}, st : {"sent", "ok", "lost", "failed"}, ver : Nat,
             closure : SUBSET ARow, own : SUBSET AnEntry, team : SUBSET AnEntry,
             legs : SUBSET {"own", "team"}, torn : BOOLEAN]
  BY <1>5 DEF ACall
<1>7. f \in [kind : {r.kind}, name : {r.name}, value : {r.value}, st : {s}, ver : {aVer + 1},
             closure : {r.closure}, own : {r.own}, team : {r.team}, legs : {r.legs}, torn : {r.torn}]
  BY <1>3, <1>6
<1>8. r.name \in EntryNames /\ r.value \in Values
  BY <1>1, <1>5 DEF ACall
<1>9. /\ aVer \in Nat /\ aVer' \in Nat /\ aVer' >= aVer /\ aSeen \in Nat
      /\ \A q \in aReqs : ACall(q) /\ q.ver \in Nat /\ q.ver <= aVer
  <2>1. aVer \in Nat /\ aSeen \in Nat /\ \A q \in aReqs : ACall(q)
    BY <1>5 DEF AdminTypes
  <2>2. \A q \in aReqs : q.ver \in Nat /\ q.ver <= aVer
    BY <2>1 DEF ACall
  <2>3. aVer' \in Nat /\ aVer' >= aVer
    BY <1>1, <2>1
  <2> QED BY <2>1, <2>2, <2>3
<1>10. ~Effective(r) /\ Effective(f) /\ f \in aReqs' /\ f.name = r.name /\ f.ver = aVer + 1
  BY <1>1, <1>4, <1>7 DEF Effective
<1>11. /\ \A n : n # r.name => Only(aOwn', n) = Only(aOwn, n)
       /\ Only(aOwn', r.name) = Effect(r)
  BY <1>1 DEF Only, Without, Entry, Effect
<1>12. \A n, v : v \in Nat /\ v <= aVer /\ (n = r.name \/ Outdated(n, v)) => Outdated(n, v)'
  <2> SUFFICES ASSUME NEW n, NEW v \in Nat, v <= aVer, n = r.name \/ Outdated(n, v)
               PROVE  Outdated(n, v)'
    OBVIOUS
  <2>1. CASE n = r.name
    <3>1. f.ver > v
      BY <1>9, <1>10
    <3> QED BY <1>10, <2>1, <3>1 DEF Outdated, Effective
  <2>2. CASE Outdated(n, v)
    BY <1>1, <1>4, <1>5, <1>9, <1>10, <2>2, OutdatedStays
  <2> QED BY <2>1, <2>2
<1>13. AdminTypes'
  <2>1. aOwn' \subseteq AnEntry /\ \A e, g \in aOwn' : e.name = g.name => e = g
    BY <1>1, <1>5, <1>8 DEF AdminTypes, Without, Entry, AnEntry
  <2>2. ARow' = ARow /\ Legs' = Legs
    BY <1>1 DEF ARow, Legs
  <2>3. \A q \in aReqs : ACall(q)'
    BY <1>1, <1>9, CallStays
  <2>4. aVer + 1 \in Nat /\ aVer + 1 <= aVer'
    BY <1>1, <1>9
  <2>5. ACall(f)'
    BY <1>1, <1>5, <1>6, <1>7, <1>8, <2>2, <2>4 DEF ACall, AnEntry
  <2> QED BY <1>1, <1>4, <1>5, <1>9, <2>1, <2>2, <2>3, <2>5 DEF AdminTypes, AnEntry
<1>14. ReadTrue'
  <2>1. Team' = Team
    BY <1>1 DEF Team
  <2>2. ASSUME NEW q \in aReqs, q.kind = "load" PROVE LoadTrue(q)'
    <3> SUFFICES ASSUME ~q.torn
                 PROVE  /\ "own" \in q.legs =>
                              \A n \in EntryNames : Only(q.own, n) = Only(aOwn', n) \/ Outdated(n, q.ver)'
                        /\ "team" \in q.legs => q.team = Team
      BY <2>1 DEF LoadTrue, Only, Outdated
    <3>1. LoadTrue(q)
      BY <1>5, <2>2 DEF ReadTrue
    <3>2. ASSUME NEW n \in EntryNames, "own" \in q.legs
          PROVE  Only(q.own, n) = Only(aOwn', n) \/ Outdated(n, q.ver)'
      BY <1>9, <1>11, <1>12, <3>1, <3>2 DEF LoadTrue
    <3> QED BY <3>1, <3>2 DEF LoadTrue
  <2>3. f.kind # "load"
    BY <1>1, <1>7
  <2> QED BY <1>4, <2>2, <2>3 DEF ReadTrue
<1>15. EffectTrue'
  <2> SUFFICES ASSUME NEW q \in aReqs', Effective(q)
               PROVE  Only(aOwn', q.name) = Effect(q) \/ Outdated(q.name, q.ver)'
    BY DEF EffectTrue, Effective, Effect, Only, Outdated
  <2>1. CASE q = f
    <3>1. Effect(f) = Effect(r)
      BY <1>7 DEF Effect
    <3> QED BY <1>10, <1>11, <2>1, <3>1
  <2>2. CASE q # f
    <3>1. q \in aReqs
      BY <1>4, <2>2
    <3>2. Only(aOwn, q.name) = Effect(q) \/ Outdated(q.name, q.ver)
      BY <1>5, <3>1 DEF EffectTrue
    <3> QED BY <1>9, <1>11, <1>12, <3>1, <3>2
  <2> QED BY <2>1, <2>2
<1>16. RowsTold'
  <2>1. Team' = Team /\ Team \in SUBSET AnEntry /\ aOwn \in SUBSET AnEntry /\ aOwn' \in SUBSET AnEntry
    BY <1>1, <1>5, <1>13, TeamIs DEF Team, AdminTypes, AnEntry
  <2>2. ASSUME NEW n \in EntryNames, n # r.name, RowsRight(n) PROVE RowsRight(n)'
    <3>1. Only(aOwn', n) = Only(aOwn, n)
      BY <1>11, <2>2
    <3>2. Only(mergeEntries(Team, aOwn'), n) = Only(mergeEntries(Team, aOwn), n)
      BY <2>1, <3>1, SameMerge
    <3> QED BY <1>1, <2>1, <2>2, <3>2 DEF RowsRight, Only
  <2> SUFFICES ASSUME ~aSpoiled, NEW n \in EntryNames
               PROVE  \/ RowsRight(n)'
                      \/ \E q \in aReqs' : q.kind = "load" \/ (Effective(q) /\ q.name = n)
    BY <1>1 DEF RowsTold, Effective
  <2>3. CASE n = r.name
    BY <1>10, <2>3
  <2>4. CASE n # r.name
    <3>1. CASE RowsRight(n)
      BY <2>2, <2>4, <3>1
    <3>2. ASSUME NEW q \in aReqs, q.kind = "load" \/ (Effective(q) /\ q.name = n)
          PROVE  \E p \in aReqs' : p.kind = "load" \/ (Effective(p) /\ p.name = n)
      BY <1>1, <1>4, <1>10, <3>2
    <3> QED BY <1>5, <3>1, <3>2 DEF RowsTold
  <2> QED BY <2>3, <2>4
<1> QED BY <1>13, <1>14, <1>15, <1>16 DEF AdminInv

\* The rows a load brings are rows of this list.
LEMMA MergeTypes ==
  ASSUME NEW team \in SUBSET AnEntry, NEW own \in SUBSET AnEntry, aList # "secrets" => team = {}
  PROVE  mergeEntries(team, own) \subseteq ARow
<1>1. ASSUME NEW e \in own PROVE Row(e, FALSE, e.name \in NamesOf(team)) \in ARow
  <2>1. CASE aList = "secrets"
    BY <2>1 DEF Row, ARow, AnEntry
  <2>2. CASE aList # "secrets"
    <3>1. (e.name \in NamesOf(team)) = FALSE
      BY <2>2 DEF NamesOf
    <3> QED BY <2>2, <3>1 DEF Row, ARow, AnEntry
  <2> QED BY <2>1, <2>2
<1>2. ASSUME NEW e \in team PROVE Row(e, TRUE, FALSE) \in ARow
  BY DEF Row, ARow, AnEntry
<1> QED BY <1>1, <1>2 DEF mergeEntries

\* The answer of a load replaces the rows.
LEMMA RowsLoaded == ASSUME AdminInv, NEW r \in aReqs, Loaded(r) PROVE AdminInv'
<1>1. /\ page = "admin" /\ page' = page /\ UNCHANGED <<aList, aOwn, aVer>>
      /\ r.kind = "load" /\ r.st = "ok" /\ aRows' = mergeEntries(r.team, r.own)
      /\ aReqs' = aReqs \ {r} /\ Told(r) /\ aSpoiled' = (r.torn \/ r.ver < aSeen)
  BY DEF Loaded, On
<1>2. AdminTypes /\ ReadTrue /\ EffectTrue /\ ACall(r)
  BY DEF AdminInv, AdminTypes
<1>3. /\ r.own \in SUBSET AnEntry /\ r.team \in SUBSET AnEntry /\ (aList # "secrets" => r.team = {})
      /\ Legs \subseteq r.legs
  BY <1>1, <1>2 DEF ACall
<1>4. aSeen' \in Nat /\ aSeen' >= aSeen /\ aSeen' >= r.ver /\ r.ver \in Nat /\ aSeen \in Nat
  BY <1>1, <1>2, ToldIs
<1>5. aSpoiled' \in BOOLEAN /\ (~aSpoiled' => ~r.torn /\ ~(r.ver < aSeen))
  BY <1>1, Zenon
<1>6. AdminTypes'
  <2>1. ARow' = ARow /\ aVer \in Nat /\ aVer' >= aVer
    BY <1>1, <1>2 DEF ARow, AdminTypes
  <2>2. aRows' \subseteq ARow
    BY <1>1, <1>3, MergeTypes
  <2>3. \A q \in aReqs' : ACall(q)'
    BY <1>1, <1>2, <2>1, CallStays DEF AdminTypes
  <2> QED BY <1>1, <1>2, <1>4, <1>5, <2>1, <2>2, <2>3 DEF AdminTypes, AnEntry
<1>7. ~Effective(r)
  BY <1>1 DEF Effective
<1>8. ReadTrue' /\ EffectTrue'
  BY <1>1, <1>2, <1>4, <1>7, TrueStays
<1>9. RowsTold'
  <2> SUFFICES ASSUME ~aSpoiled', NEW n \in EntryNames
               PROVE  \/ RowsRight(n)'
                      \/ \E q \in aReqs' : Effective(q) /\ q.name = n
    BY DEF RowsTold, Effective
  <2>1. ~r.torn /\ ~(aSeen > r.ver)
    BY <1>4, <1>5
  <2>2. "own" \in r.legs /\ (aList = "secrets" => "team" \in r.legs)
    BY <1>3 DEF Legs
  <2>3. r.team = Team
    BY <1>1, <1>2, <1>3, <2>1, <2>2, TeamIs DEF ReadTrue, LoadTrue
  <2>4. CASE Outdated(n, r.ver)
    BY <1>1, <1>7, <2>1, <2>4 DEF Outdated
  <2>5. CASE Only(r.own, n) = Only(aOwn, n)
    <3>1. Team' = Team /\ aOwn \in SUBSET AnEntry
      BY <1>1, <1>2 DEF Team, AdminTypes
    <3>2. Only(mergeEntries(r.team, r.own), n) = Only(mergeEntries(Team, aOwn), n)
      BY <1>3, <2>3, <2>5, <3>1, SameMerge
    <3> QED BY <1>1, <3>1, <3>2 DEF RowsRight, Only
  <2> QED BY <1>1, <1>2, <2>1, <2>2, <2>4, <2>5 DEF ReadTrue, LoadTrue
<1> QED BY <1>6, <1>8, <1>9 DEF AdminInv

\* A handler asks for the rows again.
LEMMA RowsAskedAgain ==
  ASSUME AdminInv, NEW r \in aReqs, page = "admin", page' = page, UNCHANGED <<aList, aOwn, aVer>>,
         Told(r), Reloaded(r)
  PROVE  AdminInv'
<1>1. PICK b : b = Loading
  OBVIOUS
<1>2. aReqs' = (aReqs \ {r}) \union {b} /\ UNCHANGED <<aRows, aSpoiled>>
  BY <1>1 DEF Reloaded
<1>3. AdminTypes /\ aVer \in Nat /\ aSpoiled \in BOOLEAN
  BY DEF AdminInv, AdminTypes
<1>4. ACall(b) /\ b.kind = "load" /\ b.legs = {}
  BY <1>1, <1>3, LoadingIs
<1>5. ~Effective(b) /\ LoadTrue(b)'
  BY <1>4 DEF Effective, LoadTrue
<1>6. aSeen' \in Nat /\ aSeen' >= aSeen /\ aSeen' >= r.ver
  BY <1>3, ToldIs
<1>7. b \in aReqs'
  BY <1>2
<1> QED BY <1>2, <1>3, <1>4, <1>5, <1>6, <1>7, CallsChange

\* A handler changes the rows of the name of its command, and no others.
LEMMA RowChanged ==
  ASSUME AdminInv, NEW r \in aReqs, page = "admin", page' = page, UNCHANGED <<aList, aOwn, aVer>>,
         Told(r), Effective(r), aReqs' = aReqs \ {r}, aRows' \subseteq ARow, aSpoiled' \in BOOLEAN,
         ~aSpoiled' =>
            /\ ~aSpoiled
            /\ \A n : n # r.name => Only(aRows', n) = Only(aRows, n)
            /\ \/ Only(aRows', r.name) = Only(mergeEntries(Team, aOwn), r.name)
               \/ \E p \in aReqs' : Effective(p) /\ p.name = r.name
  PROVE  AdminInv'
<1>1. AdminTypes /\ ReadTrue /\ EffectTrue /\ RowsTold
  BY DEF AdminInv
<1>2. aSeen' \in Nat /\ aSeen' >= aSeen /\ aSeen' >= r.ver
  BY <1>1, ToldIs
<1>3. ReadTrue' /\ EffectTrue'
  BY <1>1, <1>2, TrueStays
<1>4. AdminTypes'
  <2>1. ARow' = ARow /\ aVer \in Nat /\ aVer' \in Nat /\ aVer' >= aVer
    BY <1>1 DEF ARow, AdminTypes
  <2>2. \A q \in aReqs' : ACall(q)'
    BY <1>1, <2>1, CallStays DEF AdminTypes
  <2> QED BY <1>1, <1>2, <2>1, <2>2 DEF AdminTypes, AnEntry
<1>5. RowsTold'
  <2>1. Team' = Team
    BY DEF Team
  <2>2. \A n : RowsRight(n)' <=> Only(aRows', n) = Only(mergeEntries(Team, aOwn), n)
    BY <2>1 DEF RowsRight, Only
  <2> SUFFICES ASSUME ~aSpoiled', NEW n \in EntryNames
               PROVE  \/ Only(aRows', n) = Only(mergeEntries(Team, aOwn), n)
                      \/ \E q \in aReqs' : q.kind = "load" \/ (Effective(q) /\ q.name = n)
    BY <2>2 DEF RowsTold, Effective
  <2>3. CASE n = r.name
    BY <2>3
  <2>4. CASE n # r.name
    <3>1. Only(aRows', n) = Only(aRows, n) /\ ~aSpoiled
      BY <2>4
    <3>2. CASE RowsRight(n)
      BY <3>1, <3>2 DEF RowsRight
    <3>3. ASSUME NEW q \in aReqs, q.kind = "load" \/ (Effective(q) /\ q.name = n)
          PROVE  q \in aReqs'
      BY <2>4, <3>3 DEF Effective
    <3> QED BY <1>1, <3>1, <3>2, <3>3 DEF RowsTold
  <2> QED BY <2>3, <2>4
<1> QED BY <1>3, <1>4, <1>5 DEF AdminInv

\* What is seen of a name in a list that inherits nothing.
LEMMA NothingSeen ==
  ASSUME NEW n, aList # "secrets", Only(aOwn, n) = {}
  PROVE  Only(mergeEntries(Team, aOwn), n) = {}
<1>1. Only(Team, n) = {}
  BY TeamIs DEF Only
<1>2. ASSUME NEW x \in Only(mergeEntries(Team, aOwn), n) PROVE FALSE
  <2>1. SeenAs(x, Team, Only(aOwn, n), n)
    BY <1>2, MergeIs
  <2> QED BY <1>1, <2>1 DEF SeenAs
<1> QED BY <1>2

LEMMA OneSeen ==
  ASSUME NEW n, NEW e, aList # "secrets", Only(aOwn, n) = {e}
  PROVE  Only(mergeEntries(Team, aOwn), n) = {Row(e, FALSE, FALSE)}
<1>1. (n \in NamesOf(Team)) = FALSE
  BY TeamIs DEF NamesOf
<1>2. ASSUME NEW x PROVE SeenAs(x, Team, {e}, n) <=> x = Row(e, FALSE, FALSE)
  BY <1>1 DEF SeenAs
<1>3. ASSUME NEW x PROVE x \in Only(mergeEntries(Team, aOwn), n) <=> SeenAs(x, Team, {e}, n)
  BY MergeIs
<1> QED BY <1>2, <1>3 DEF Only

\* A command that is not outdated has the last word on its name.
LEMMA LastWord ==
  ASSUME AdminInv, NEW r \in aReqs, Effective(r), ~(r.ver < aSeen),
         ~ \E p \in aReqs \ {r} : Effective(p) /\ p.name = r.name
  PROVE  Only(aOwn, r.name) = Effect(r)
<1>1. EffectTrue /\ aSeen \in Nat /\ r.ver \in Nat
  BY DEF AdminInv, AdminTypes, ACall
<1>2. ~(aSeen > r.ver) /\ ~(r.ver > r.ver)
  BY <1>1
<1> QED BY <1>1, <1>2 DEF EffectTrue, Outdated

\* A row is dropped from the rows of the click.
LEMMA DroppedFromClosure ==
  ASSUME AdminInv, NEW r \in aReqs, NEW ls \in SUBSET (Lists \ {"secrets"}),
         Done(r, ls, "delete"), FromClosure(r, Without(r.closure, r.name))
  PROVE  AdminInv'
<1>1. /\ page = "admin" /\ page' = page /\ UNCHANGED <<aList, aOwn, aVer>> /\ aList # "secrets"
      /\ r.kind = "delete" /\ r.st = "ok" /\ Told(r) /\ aRows' = Without(r.closure, r.name)
      /\ aReqs' = aReqs \ {r} /\ aSpoiled' = (aSpoiled \/ r.closure # aRows \/ r.ver < aSeen)
  BY DEF Done, FromClosure, On
<1>2. /\ aSpoiled' \in BOOLEAN
      /\ ~aSpoiled' => ~aSpoiled /\ r.closure = aRows /\ ~(r.ver < aSeen)
  BY <1>1, Zenon
<1>3. Effective(r)
  BY <1>1 DEF Effective
<1>4. r.closure \subseteq ARow
  BY DEF AdminInv, AdminTypes, ACall
<1>5. aRows' \subseteq ARow
  BY <1>1, <1>4 DEF Without
<1>6. ASSUME ~aSpoiled'
      PROVE  /\ \A n : n # r.name => Only(aRows', n) = Only(aRows, n)
             /\ \/ Only(aRows', r.name) = Only(mergeEntries(Team, aOwn), r.name)
                \/ \E p \in aReqs' : Effective(p) /\ p.name = r.name
  <2>1. aRows' = Without(aRows, r.name)
    BY <1>1, <1>2, <1>6
  <2>2. /\ \A n : n # r.name => Only(aRows', n) = Only(aRows, n)
        /\ Only(aRows', r.name) = {}
    BY <2>1 DEF Only, Without
  <2>3. CASE \E p \in aReqs \ {r} : Effective(p) /\ p.name = r.name
    BY <1>1, <2>2, <2>3
  <2>4. CASE ~ \E p \in aReqs \ {r} : Effective(p) /\ p.name = r.name
    <3>1. Only(aOwn, r.name) = Effect(r)
      BY <1>2, <1>3, <1>6, <2>4, LastWord
    <3>2. Only(aOwn, r.name) = {}
      BY <1>1, <3>1 DEF Effect
    <3> QED BY <1>1, <2>2, <3>2, NothingSeen
  <2> QED BY <2>3, <2>4
<1> QED BY <1>1, <1>2, <1>3, <1>5, <1>6, RowChanged

\* A row is dropped from the rows there are.
LEMMA DroppedFromLatest ==
  ASSUME AdminInv, NEW r \in aReqs, NEW ls \in SUBSET (Lists \ {"secrets"}),
         Done(r, ls, "delete"), FromLatest(r, Without(aRows, r.name))
  PROVE  AdminInv'
<1>1. /\ page = "admin" /\ page' = page /\ UNCHANGED <<aList, aOwn, aVer>> /\ aList # "secrets"
      /\ r.kind = "delete" /\ r.st = "ok" /\ Told(r) /\ aRows' = Without(aRows, r.name)
      /\ aReqs' = aReqs \ {r} /\ aSpoiled' = (aSpoiled \/ r.name \in NamesOf(aOwn))
  BY DEF Done, FromLatest, On
<1>2. aSpoiled' \in BOOLEAN /\ (~aSpoiled' => ~aSpoiled /\ r.name \notin NamesOf(aOwn))
  BY <1>1, Zenon
<1>3. Effective(r)
  BY <1>1 DEF Effective
<1>4. aRows' \subseteq ARow
  BY <1>1 DEF AdminInv, AdminTypes, Without
<1>5. /\ \A n : n # r.name => Only(aRows', n) = Only(aRows, n)
      /\ Only(aRows', r.name) = {}
  BY <1>1 DEF Only, Without
<1>6. ~aSpoiled' => Only(aRows', r.name) = Only(mergeEntries(Team, aOwn), r.name)
  <2> SUFFICES ASSUME ~aSpoiled' PROVE Only(mergeEntries(Team, aOwn), r.name) = {}
    BY <1>5
  <2>1. Only(aOwn, r.name) = {}
    BY <1>2 DEF Only, NamesOf
  <2> QED BY <1>1, <2>1, NothingSeen
<1> QED BY <1>1, <1>2, <1>3, <1>4, <1>5, <1>6, RowChanged

\* The role is changed in the rows of the click.
LEMMA RoleIsChanged == ASSUME AdminInv, NEW r \in aReqs, RoleChanged(r) PROVE AdminInv'
<1> DEFINE Edit(m) == IF m.name = r.name THEN [m EXCEPT !.value = r.value] ELSE m
<1>1. /\ page = "admin" /\ page' = page /\ UNCHANGED <<aList, aOwn, aVer>> /\ aList # "secrets"
      /\ r.kind = "save" /\ r.st = "ok" /\ Told(r) /\ aRows' = {Edit(m) : m \in r.closure}
      /\ aReqs' = aReqs \ {r} /\ aSpoiled' = (aSpoiled \/ r.closure # aRows \/ r.ver < aSeen)
  BY DEF RoleChanged, Done, FromClosure, On
<1>2. /\ aSpoiled' \in BOOLEAN
      /\ ~aSpoiled' => ~aSpoiled /\ r.closure = aRows /\ ~(r.ver < aSeen)
  BY <1>1, Zenon
<1>3. Effective(r)
  BY <1>1 DEF Effective
<1>4. ACall(r)
  BY DEF AdminInv, AdminTypes
<1>5. r.closure \subseteq ARow /\ r.value \in Values /\ \E m \in r.closure : m.name = r.name
  BY <1>1, <1>4 DEF ACall
<1>6. ARow = [name : EntryNames, value : Values, inherited : {FALSE}, overrides : {FALSE}]
  BY <1>1 DEF ARow
<1>7. PICK row : row = Row(Entry(r.name, r.value), FALSE, FALSE)
  OBVIOUS
<1>8. row = [name |-> r.name, value |-> r.value, inherited |-> FALSE, overrides |-> FALSE]
  BY <1>7 DEF Row, Entry
<1>9. ASSUME NEW m \in r.closure, m.name = r.name PROVE Edit(m) = row /\ row \in ARow
  <2>1. m \in [name : EntryNames, value : Values, inherited : {FALSE}, overrides : {FALSE}]
    BY <1>5, <1>6
  <2>2. [m EXCEPT !.value = r.value] = row
    <3>1. PICK d : d = [m EXCEPT !.value = r.value]
      OBVIOUS
    <3>2. d \in [name : {r.name}, value : {r.value}, inherited : {FALSE}, overrides : {FALSE}]
      BY <1>9, <2>1, <3>1
    <3>3. d = [name |-> d.name, value |-> d.value, inherited |-> d.inherited,
               overrides |-> d.overrides]
      BY <3>2
    <3>4. /\ d.name = r.name /\ d.value = r.value /\ d.inherited = FALSE /\ d.overrides = FALSE
      BY <3>2
    <3> QED BY <1>8, <3>1, <3>3, <3>4
  <2> QED BY <1>5, <1>6, <1>8, <1>9, <2>1, <2>2
<1>10. \A m \in r.closure : m.name # r.name => Edit(m) = m
  OBVIOUS
<1>11. row.name = r.name
  BY <1>8
<1> HIDE DEF Edit
<1>12. aRows' \subseteq ARow
  BY <1>1, <1>5, <1>9, <1>10
<1>13. ASSUME ~aSpoiled'
       PROVE  /\ \A n : n # r.name => Only(aRows', n) = Only(aRows, n)
              /\ \/ Only(aRows', r.name) = Only(mergeEntries(Team, aOwn), r.name)
                 \/ \E p \in aReqs' : Effective(p) /\ p.name = r.name
  <2>1. aRows' = {Edit(m) : m \in aRows} /\ r.closure = aRows
    BY <1>1, <1>2, <1>13
  <2>2. ASSUME NEW n, n # r.name PROVE Only(aRows', n) = Only(aRows, n)
    BY <1>9, <1>10, <1>11, <2>1, <2>2 DEF Only
  <2>3. Only(aRows', r.name) = {row}
    BY <1>5, <1>9, <1>10, <1>11, <2>1 DEF Only
  <2>4. CASE \E p \in aReqs \ {r} : Effective(p) /\ p.name = r.name
    BY <1>1, <2>2, <2>4
  <2>5. CASE ~ \E p \in aReqs \ {r} : Effective(p) /\ p.name = r.name
    <3>1. Only(aOwn, r.name) = Effect(r)
      BY <1>2, <1>3, <1>13, <2>5, LastWord
    <3>2. Only(aOwn, r.name) = {Entry(r.name, r.value)}
      BY <1>1, <3>1 DEF Effect
    <3>3. Only(mergeEntries(Team, aOwn), r.name) = {row}
      BY <1>1, <1>7, <3>2, OneSeen
    <3> QED BY <2>2, <2>3, <3>3
  <2> QED BY <2>4, <2>5
<1> QED BY <1>1, <1>2, <1>3, <1>12, <1>13, RowChanged

\* The answer to a command, in each of the lists.
LEMMA CommandDone ==
  ASSUME AdminInv, NEW r \in aReqs,
         \/ TeamDeleted(r) \/ MemberAdded(r) \/ MemberDeleted(r) \/ RoleChanged(r)
         \/ TokenCreated(r) \/ TokenDeleted(r) \/ AccountUnlinked(r)
         \/ ProviderSaved(r) \/ ProviderEdited(r) \/ ProviderDeleted(r)
         \/ WorkerDeleted(r)
         \/ SecretStored(r) \/ SecretUpdated(r) \/ SecretDeleted(r)
  PROVE  AdminInv'
<1>1. ASSUME NEW ls, NEW k, Done(r, ls, k), Reloaded(r) PROVE AdminInv'
  <2>1. page = "admin" /\ page' = page /\ UNCHANGED <<aList, aOwn, aVer>> /\ Told(r)
    BY <1>1 DEF Done, On
  <2> QED BY <1>1, <2>1, RowsAskedAgain
<1>2. CASE \/ MemberAdded(r) \/ TokenCreated(r) \/ ProviderSaved(r) \/ ProviderEdited(r)
           \/ SecretStored(r) \/ SecretUpdated(r) \/ SecretDeleted(r)
  BY <1>1, <1>2 DEF MemberAdded, TokenCreated, ProviderSaved, ProviderEdited,
     SecretStored, SecretUpdated, SecretDeleted
<1>3. /\ {"teams"} \in SUBSET (Lists \ {"secrets"}) /\ {"tokens"} \in SUBSET (Lists \ {"secrets"})
      /\ {"accounts"} \in SUBSET (Lists \ {"secrets"})
      /\ {"providers"} \in SUBSET (Lists \ {"secrets"})
      /\ {"members"} \in SUBSET (Lists \ {"secrets"}) /\ {"workers"} \in SUBSET (Lists \ {"secrets"})
  BY DEF Lists
<1>4. CASE TeamDeleted(r) \/ TokenDeleted(r) \/ AccountUnlinked(r) \/ ProviderDeleted(r)
  BY <1>3, <1>4, DroppedFromClosure DEF TeamDeleted, TokenDeleted, AccountUnlinked, ProviderDeleted
<1>5. CASE MemberDeleted(r) \/ WorkerDeleted(r)
  BY <1>3, <1>5, DroppedFromLatest DEF MemberDeleted, WorkerDeleted
<1> QED BY <1>2, <1>4, <1>5, RoleIsChanged

LEMMA NextAdmin == AdminInv /\ [AdminNext]_<<page, adminVars>> => AdminInv'
<1> SUFFICES ASSUME AdminInv, [AdminNext]_<<page, adminVars>> PROVE AdminInv'
  OBVIOUS
<1>1. ASSUME NEW r \in aReqs, Performed(r) \/ Declined(r) \/ Loaded(r) \/ Unheard(r) PROVE AdminInv'
  BY <1>1, CommandPerformed, CommandDeclined, RowsLoaded, CallUnheard
<1>2. ASSUME NEW r \in aReqs, NEW leg \in Legs, Read(r, leg) \/ ReadFails(r, leg) PROVE AdminInv'
  BY <1>2, RowsRead, RowsNotRead
<1>3. CASE UNCHANGED <<page, adminVars>>
  <2>1. UNCHANGED <<page, aList, aOwn, aVer, aRows, aReqs, aSeen, aSpoiled>>
    BY <1>3 DEF adminVars
  <2>2. AdminTypes'
    <3>1. AdminTypes /\ aVer \in Nat /\ aVer' \in Nat /\ aVer' >= aVer
      BY <2>1 DEF AdminInv, AdminTypes
    <3>2. \A r \in aReqs' : ACall(r)'
      BY <2>1, <3>1, CallStays DEF AdminTypes
    <3>3. ARow' = ARow
      BY <2>1 DEF ARow
    <3> QED BY <2>1, <3>1, <3>2, <3>3 DEF AdminTypes, AnEntry
  <2>3. Team' = Team
    BY <2>1 DEF Team
  <2>4. ReadTrue' /\ EffectTrue'
    BY <2>1, <2>3 DEF AdminInv, ReadTrue, LoadTrue, EffectTrue, Effective, Effect, Only, Outdated
  <2>5. RowsTold'
    BY <2>1, RowsStay DEF AdminInv
  <2> QED BY <2>2, <2>4, <2>5 DEF AdminInv
<1>4. ASSUME NEW l \in Lists, NEW es \in StartEntries, OpenAdmin(l, es) PROVE AdminInv'
  BY <1>4, ListOpened
<1>5. CASE AdminNext
  <2>1. CASE CloseAdmin \/ Click
    BY <2>1, ListClosed, Clicked
  <2>2. ASSUME NEW r \in aReqs,
               \/ TeamDeleted(r) \/ MemberAdded(r) \/ MemberDeleted(r) \/ RoleChanged(r)
               \/ TokenCreated(r) \/ TokenDeleted(r) \/ AccountUnlinked(r)
               \/ ProviderSaved(r) \/ ProviderEdited(r) \/ ProviderDeleted(r)
               \/ WorkerDeleted(r)
               \/ SecretStored(r) \/ SecretUpdated(r) \/ SecretDeleted(r)
        PROVE  AdminInv'
    BY <2>2, CommandDone
  <2> QED BY <1>1, <1>2, <1>4, <1>5, <2>1, <2>2, Zenon DEF AdminNext
<1> QED BY <1>3, <1>5

\* The invariant gives what the page promises.
LEMMA AdminPromise == AdminInv => AdminListTrue
<1> SUFFICES ASSUME AdminInv, aReqs = {}, ~aSpoiled, NEW n \in EntryNames
             PROVE  /\ Cardinality(Only(aRows, n)) =
                         IF Only(aOwn, n) \union Only(Team, n) = {} THEN 0 ELSE 1
                    /\ \A r \in Only(aRows, n) :
                          /\ Entry(n, r.value) \in (IF Only(aOwn, n) # {} THEN Only(aOwn, n)
                                                    ELSE Only(Team, n))
                          /\ r.inherited <=> Only(aOwn, n) = {}
                          /\ r.overrides <=> Only(aOwn, n) # {} /\ Only(Team, n) # {}
  BY DEF AdminListTrue, Only
<1>1. AdminTypes /\ Only(aRows, n) = Only(mergeEntries(Team, aOwn), n)
  BY DEF AdminInv, RowsTold, RowsRight
<1>2. \A x : x \in Only(aRows, n) <=> SeenAs(x, Team, Only(aOwn, n), n)
  BY <1>1, MergeIs
<1>3. \A e \in Only(Team, n) : e = Entry(n, 0)
  BY DEF Only, Team, Entry
<1>4. n \in NamesOf(Team) <=> Only(Team, n) # {}
  BY DEF NamesOf, Only
<1>5. Cardinality({}) = 0 /\ \A x : Cardinality({x}) = 1
  BY FS_EmptySet, FS_Singleton
<1>6. CASE Only(aOwn, n) # {}
  <2>1. PICK e \in aOwn : e.name = n /\ Only(aOwn, n) = {e}
    BY <1>1, <1>6 DEF Only, AdminTypes
  <2>2. PICK x : x = Row(e, FALSE, n \in NamesOf(Team))
    OBVIOUS
  <2>3. Only(aRows, n) = {x}
    BY <1>2, <2>1, <2>2 DEF SeenAs, Only
  <2>4. x.value = e.value /\ x.inherited = FALSE /\ x.overrides = (n \in NamesOf(Team))
    BY <2>2 DEF Row
  <2>5. e = Entry(n, e.value)
    BY <1>1, <2>1 DEF AdminTypes, AnEntry, Entry
  <2>6. Cardinality(Only(aRows, n)) = 1
    BY <1>5, <2>3
  <2>7. ~x.inherited /\ (x.overrides <=> Only(Team, n) # {})
    BY <1>4, <2>4, Zenon
  <2> QED BY <1>6, <2>1, <2>3, <2>4, <2>5, <2>6, <2>7
<1>7. CASE Only(aOwn, n) = {} /\ Only(Team, n) # {}
  <2>1. Only(Team, n) = {Entry(n, 0)}
    BY <1>3, <1>7
  <2>2. PICK x : x = Row(Entry(n, 0), TRUE, FALSE)
    OBVIOUS
  <2>3. Only(aRows, n) = {x}
    BY <1>2, <1>7, <2>1, <2>2 DEF SeenAs, Only
  <2>4. x.value = 0 /\ x.inherited = TRUE /\ x.overrides = FALSE
    BY <2>2 DEF Row, Entry
  <2>5. Cardinality(Only(aRows, n)) = 1
    BY <1>5, <2>3
  <2> QED BY <1>7, <2>1, <2>3, <2>4, <2>5
<1>8. CASE Only(aOwn, n) = {} /\ Only(Team, n) = {}
  <2>1. Only(aRows, n) = {}
    BY <1>2, <1>8 DEF SeenAs, Only
  <2> QED BY <1>5, <1>8, <2>1
<1> QED BY <1>6, <1>7, <1>8

\* When a list waits for nothing, each name in force has one row, with its value and
\* its marks, and nothing else is shown, for any set of names and of the team's
\* names, and any number of calls in flight and of changes, unless an answer was
\* lost, came after a newer one, or used rows older than the ones shown: the handlers
\* of Teams.js, Users.js, OAuthAdmin.js, Workers.js and Secrets.js, and mergeEntries.
THEOREM AdminListIsTrue == AdminSpec => []AdminListTrue
<1>1. page = Elsewhere /\ AdminIdle => AdminInv
  BY InitAdmin
<1> QED BY AdminPromise, <1>1, NextAdmin, PTL DEF AdminSpec

-----------------------------------------------------------------------------
(* The pages together.  A step of one page leaves the cells of the others    *)
(* alone, and only leads to it or away from it.                              *)

\* A step of page p is taken on it, towards it or away from it.
Owned(p) == page \in {Elsewhere, p} /\ page' \in {Elsewhere, p}

LEMMA OwnJob == ContentNext => Owned("job")
  BY DEF ContentNext, OpenJob, LeaveJob, ShowTab, HideTab, BuildGoesOn, SendStatus, Press,
     AnswerRead, AnswerCommand, Refuse, HandleFull, HandleFix, HandleStatus, HandleCommand,
     Owned, Enter, Leave, On

LEMMA OwnList == ListNext => Owned("list")
  BY DEF ListNext, OpenList, LeaveList, ChooseResource, Owned, Enter, Leave, On

LEMMA OwnResource == ResourceNext => Owned("resource")
<1> SUFFICES ASSUME ResourceNext PROVE Owned("resource")
  OBVIOUS
<1>1. CASE \/ \E n \in 0..MaxVersion : OpenVersions(n)
           \/ LeaveVersions \/ NewVersion \/ PollVersions \/ onScroll
           \/ \E v \in Pinnable : onPinVersion(v)
  BY <1>1 DEF OpenVersions, LeaveVersions, NewVersion, PollVersions, onScroll, onPinVersion,
     Owned, Enter, Leave, On
<1>2. ASSUME NEW f \in fetches,
             \/ AnswerFetch(f) \/ FetchFails(f) \/ LoadVersions(f)
             \/ MergeVersions(f) \/ MoreVersions(f) \/ ResourceShown(f) \/ PinDone(f)
      PROVE  Owned("resource")
  BY <1>2 DEF AnswerFetch, FetchFails, LoadVersions, MergeVersions, MoreVersions, ResourceShown,
     PinDone, Fetched, Owned, Enter, Leave, On
<1> QED BY <1>1, <1>2 DEF ResourceNext

LEMMA OwnGraph == GraphNext => Owned("graph")
  BY DEF GraphNext, OpenGraph, destroy, GraphChanged, Drawn, DrawingFails, reset, onPanStart,
     onPanEnd, SwallowClick, enterFullscreen, exitFullscreen, onPanMove, ZoomBy,
     Owned, Enter, Leave, On

LEMMA OwnEditor == EditorNext => Owned("editor")
  BY DEF EditorNext, PipelineNew, PipelineEdit, PipelineFetched, CloseEditor, Type, EditVars,
     PreviewTimer, handleSubmit, toggleFullscreen, escHandler, PreviewShown, showEditorErrors,
     PreviewLost, PreviewDrawn, PreviewDrawFails, DrawingEnds, SaveFails, onSaveSuccess,
     TogglePanel, Owned, Enter, Leave, On

LEMMA OwnSession == SessionNext => Owned("session")
  BY DEF SessionNext, OpenBrowser, CloseBrowser, Reset, Reload, handleLogout, Visit, Send,
     Served, Refused, CallAnswered, Granted, CallRefused, CallLost, Owned, Enter, Leave, On

LEMMA OwnGrid == GridNext => Owned("grid")
  BY DEF GridNext, OpenGrid, CloseGrid, TypeSearch, PipelineEdited, Search, setSort, setPage,
     FilterSummary, StaleAnswer, LastPage, PageAnswered, PageFailed, Owned, Enter, Leave, On

LEMMA OwnAdmin == AdminNext => Owned("admin")
<1> USE DEF Owned, Enter, Leave, On
<1>1. ASSUME NEW l \in Lists, NEW es \in StartEntries, OpenAdmin(l, es) PROVE Owned("admin")
  BY <1>1 DEF OpenAdmin
<1>2. CASE CloseAdmin \/ Click
  BY <1>2 DEF CloseAdmin, Click
<1>3. ASSUME NEW r \in aReqs, Performed(r) \/ Declined(r) \/ Loaded(r) \/ Unheard(r)
      PROVE  Owned("admin")
  BY <1>3 DEF Performed, Declined, Loaded, Unheard
<1>4. ASSUME NEW r \in aReqs, NEW leg \in Legs, Read(r, leg) \/ ReadFails(r, leg)
      PROVE  Owned("admin")
  BY <1>4 DEF Read, ReadFails
<1>5. ASSUME NEW r \in aReqs, NEW ls, NEW k, Done(r, ls, k) PROVE Owned("admin")
  BY <1>5 DEF Done
<1>6. ASSUME NEW r \in aReqs,
             \/ TeamDeleted(r) \/ MemberAdded(r) \/ MemberDeleted(r) \/ RoleChanged(r)
             \/ TokenCreated(r) \/ TokenDeleted(r) \/ AccountUnlinked(r)
             \/ ProviderSaved(r) \/ ProviderEdited(r) \/ ProviderDeleted(r)
             \/ WorkerDeleted(r)
             \/ SecretStored(r) \/ SecretUpdated(r) \/ SecretDeleted(r)
      PROVE  Owned("admin")
  <2> USE <1>5, <1>6
  <2> HIDE DEF Owned, Enter, Leave, On
  <2> QED BY DEF TeamDeleted, MemberAdded, MemberDeleted, RoleChanged, TokenCreated,
           TokenDeleted, AccountUnlinked, ProviderSaved, ProviderEdited, ProviderDeleted,
           WorkerDeleted, SecretStored, SecretUpdated, SecretDeleted
<1> HIDE DEF Owned, Enter, Leave, On
<1> QED BY <1>1, <1>2, <1>3, <1>4, <1>6, Zenon DEF AdminNext

\* What a page has kept stays so while the user is on another one.
LEMMA KeepJob ==
  ASSUME ContentInv, UNCHANGED contentVars, page # "job", page' # "job" PROVE ContentInv'
  BY DEF contentVars, ContentInv, ContentTypes, Answers, Earlier, Unmounted, NoFailure,
     EndShown, CopyNewer, VoteKept, ContentIdle, IsAsk

LEMMA KeepResource ==
  ASSUME ResourceInv, UNCHANGED resourceVars, page # "resource", page' # "resource"
  PROVE  ResourceInv'
  BY DEF resourceVars, ResourceInv, ResourceIdle, Asked, Paged, Shown, Reaches, Newest

LEMMA KeepGraph == ASSUME ZoomInv, UNCHANGED zoomVars PROVE ZoomInv'
  BY DEF zoomVars, ZoomInv, Ranges, Viewed, Placed, Keyed

LEMMA KeepEditor ==
  ASSUME EditorInv, UNCHANGED editorVars, page # "editor", page' # "editor" PROVE EditorInv'
  BY DEF editorVars, EditorInv, Numbers, Waiting, Previewed, AboutSeen, Blocks, Gone

LEMMA KeepSession == ASSUME SessionInv, UNCHANGED sessionVars PROVE SessionInv'
  BY DEF sessionVars, SessionInv, SessionTypes, Ungranted, Closed, Current, Changed

LEMMA KeepGrid == ASSUME GridInv, UNCHANGED gridVars PROVE GridInv'
  BY DEF gridVars, GridInv, GridTypes, OneAsked, Filled, Fields

LEMMA KeepAdmin ==
  ASSUME AdminInv, UNCHANGED adminVars, page # "admin", page' # "admin" PROVE AdminInv'
<1>1. UNCHANGED <<aList, aOwn, aVer, aRows, aReqs, aSeen, aSpoiled>>
  BY DEF adminVars
<1>2. AdminTypes /\ aRows = {} /\ aVer \in Nat
  BY DEF AdminInv, AdminTypes
<1>3. \A r \in aReqs' : ACall(r)'
  BY <1>1, <1>2, CallStays DEF AdminTypes
<1>4. AdminTypes'
  BY <1>1, <1>2, <1>3 DEF AdminTypes, AnEntry
<1>5. Team' = Team
  BY <1>1 DEF Team
<1>6. ReadTrue' /\ EffectTrue'
  BY <1>1, <1>5 DEF AdminInv, ReadTrue, LoadTrue, EffectTrue, Effective, Effect, Only, Outdated
<1>7. RowsTold'
  BY <1>1, RowsStay DEF AdminInv
<1> QED BY <1>4, <1>6, <1>7 DEF AdminInv

PagesInv ==
    /\ ContentInv /\ ResourceInv /\ ZoomInv /\ EditorInv
    /\ SessionInv /\ GridInv /\ AdminInv

LEMMA InitPages == WebInit => PagesInv
<1> SUFFICES ASSUME WebInit PROVE PagesInv
  OBVIOUS
<1>1. /\ page = Elsewhere
      /\ ContentIdle /\ ResourceIdle /\ GraphIdle /\ EditorIdle
      /\ SessionIdle /\ GridIdle /\ AdminIdle
  BY DEF WebInit
<1> QED BY <1>1, InitContent, InitResource, InitZoom, InitEditor, InitSession, InitGrid, InitAdmin
       DEF PagesInv

LEMMA NextPages == PagesInv /\ [WebNext]_<<page, webVars>> => PagesInv'
<1> SUFFICES ASSUME PagesInv, [WebNext]_<<page, webVars>> PROVE PagesInv'
  OBVIOUS
<1>1. /\ ContentInv /\ ResourceInv /\ ZoomInv /\ EditorInv
      /\ SessionInv /\ GridInv /\ AdminInv
  BY DEF PagesInv
<1> USE DEF PagesInv
<1>2. CASE JobPage
  <2>1. Owned("job") /\ ContentInv'
    BY <1>1, <1>2, OwnJob, NextContent DEF JobPage
  <2>2. UNCHANGED <<resourceVars, zoomVars, editorVars, sessionVars, gridVars, adminVars>>
    BY <1>2 DEF JobPage
  <2> QED BY <1>1, <2>1, <2>2, KeepResource, KeepGraph, KeepEditor, KeepSession, KeepGrid, KeepAdmin
         DEF Owned, Elsewhere
<1>3. CASE ListPage
  <2>1. Owned("list")
    BY <1>3, OwnList DEF ListPage
  <2>2. UNCHANGED <<contentVars, resourceVars, zoomVars, editorVars, sessionVars, gridVars, adminVars>>
    BY <1>3 DEF ListPage
  <2> QED BY <1>1, <2>1, <2>2, KeepJob, KeepResource, KeepGraph, KeepEditor, KeepSession, KeepGrid,
             KeepAdmin DEF Owned, Elsewhere
<1>4. CASE ResourcePage
  <2>1. Owned("resource") /\ ResourceInv'
    BY <1>1, <1>4, OwnResource, NextResource DEF ResourcePage
  <2>2. UNCHANGED <<contentVars, zoomVars, editorVars, sessionVars, gridVars, adminVars>>
    BY <1>4 DEF ResourcePage
  <2> QED BY <1>1, <2>1, <2>2, KeepJob, KeepGraph, KeepEditor, KeepSession, KeepGrid, KeepAdmin
         DEF Owned, Elsewhere
<1>5. CASE GraphPage
  <2>1. Owned("graph") /\ ZoomInv'
    BY <1>1, <1>5, OwnGraph, NextZoom DEF GraphPage
  <2>2. UNCHANGED <<contentVars, resourceVars, editorVars, sessionVars, gridVars, adminVars>>
    BY <1>5 DEF GraphPage
  <2> QED BY <1>1, <2>1, <2>2, KeepJob, KeepResource, KeepEditor, KeepSession, KeepGrid, KeepAdmin
         DEF Owned, Elsewhere
<1>6. CASE EditorPage
  <2>1. Owned("editor") /\ EditorInv'
    BY <1>1, <1>6, OwnEditor, NextEditor DEF EditorPage
  <2>2. UNCHANGED <<contentVars, resourceVars, zoomVars, sessionVars, gridVars, adminVars>>
    BY <1>6 DEF EditorPage
  <2> QED BY <1>1, <2>1, <2>2, KeepJob, KeepResource, KeepGraph, KeepSession, KeepGrid, KeepAdmin
         DEF Owned, Elsewhere
<1>7. CASE SessionPages
  <2>1. Owned("session") /\ SessionInv'
    BY <1>1, <1>7, OwnSession, NextSession DEF SessionPages
  <2>2. UNCHANGED <<contentVars, resourceVars, zoomVars, editorVars, gridVars, adminVars>>
    BY <1>7 DEF SessionPages
  <2> QED BY <1>1, <2>1, <2>2, KeepJob, KeepResource, KeepGraph, KeepEditor, KeepGrid, KeepAdmin
         DEF Owned, Elsewhere
<1>8. CASE PipelinesPage
  <2>1. Owned("grid") /\ GridInv'
    BY <1>1, <1>8, OwnGrid, NextGrid DEF PipelinesPage
  <2>2. UNCHANGED <<contentVars, resourceVars, zoomVars, editorVars, sessionVars, adminVars>>
    BY <1>8 DEF PipelinesPage
  <2> QED BY <1>1, <2>1, <2>2, KeepJob, KeepResource, KeepGraph, KeepEditor, KeepSession, KeepAdmin
         DEF Owned, Elsewhere
<1>9. CASE AdminPages
  <2>1. Owned("admin") /\ AdminInv'
    BY <1>1, <1>9, OwnAdmin, NextAdmin DEF AdminPages
  <2>2. UNCHANGED <<contentVars, resourceVars, zoomVars, editorVars, sessionVars, gridVars>>
    BY <1>9 DEF AdminPages
  <2> QED BY <1>1, <2>1, <2>2, KeepJob, KeepResource, KeepGraph, KeepEditor, KeepSession, KeepGrid
         DEF Owned, Elsewhere
<1>10. CASE UNCHANGED <<page, webVars>>
  <2>1. UNCHANGED <<page, contentVars, resourceVars, zoomVars, editorVars, sessionVars, gridVars,
                    adminVars>>
    BY <1>10 DEF webVars
  <2> QED BY <1>1, <2>1, NextContent, NextResource, NextZoom, NextEditor, NextSession, NextGrid,
             NextAdmin
<1> QED BY <1>2, <1>3, <1>4, <1>5, <1>6, <1>7, <1>8, <1>9, <1>10 DEF WebNext

-----------------------------------------------------------------------------
(* The types of the pages: each page's own steps keep them, from the          *)
(* invariant of the page.                                                     *)

\* An attached svg has a view that can be panned.
GraphTypes == GraphTypeOK /\ (gSvg # 0 => gView \in Views)

LEMMA ViewsAre == Home \in Views /\ NoView \notin Views /\ \A z \in Int : Clamp(z) \in (-MinZoom)..MaxZoom
<1> USE ZoomAssumption
<1>1. Home \in Views
  BY DEF Home, Views
<1>2. NoView \notin Views
  <2>1. ASSUME NoView \in Views PROVE FALSE
    <3>1. NoView.zoom \in (-MinZoom)..MaxZoom
      BY <2>1 DEF Views
    <3> QED BY <3>1 DEF NoView
  <2> QED BY <2>1
<1>3. \A z \in Int : Clamp(z) \in (-MinZoom)..MaxZoom
  BY DEF Clamp
<1> QED BY <1>1, <1>2, <1>3

\* A view is written to the attached svg.
LEMMA WrittenView ==
  ASSUME GraphTypes, ZoomInv, applyViewBox, gSvg' = gSvg, gView' \in Views,
         UNCHANGED <<gCount, gTodo, gEl, gZoom, gOverlay, gParent, gKeys, gSuppress>>,
         gPan' \in {"no", "start", "dragged"}
  PROVE  GraphTypes'
<1>1. gBox' \in [Svgs -> Views \union {NoView}]
  <2>1. gBox \in [Svgs -> Views \union {NoView}]
    BY DEF GraphTypes, GraphTypeOK
  <2>2. gBox' = gBox \/ gBox' = [gBox EXCEPT ![gSvg] = gView']
    BY DEF applyViewBox
  <2> QED BY <2>1, <2>2
<1> QED BY <1>1 DEF GraphTypes, GraphTypeOK

LEMMA NextGraphTypes == ASSUME GraphTypes, ZoomInv, GraphNext PROVE GraphTypes'
<1> USE ZoomAssumption
<1>0. /\ gCount \in 0..MaxRenders /\ gTodo \in 0..MaxRenders
      /\ gEl \subseteq 0..MaxRenders /\ gSvg \in 0..MaxRenders
      /\ gZoom \in BOOLEAN /\ gParent \in BOOLEAN /\ gSuppress \in BOOLEAN
      /\ gView \in Views \union {NoView}
      /\ gBox \in [Svgs -> Views \union {NoView}]
      /\ gOverlay \in 0..MaxRenders /\ gKeys \in 0..1
      /\ gPan \in {"no", "start", "dragged"}
      /\ gSvg # 0 => gView \in Views
  BY DEF GraphTypes, GraphTypeOK
<1>1. CASE OpenGraph
  BY <1>0, <1>1 DEF OpenGraph, zoomVars, GraphTypes, GraphTypeOK
<1>2. CASE destroy
  <2>1. gKeys' = 0
    BY <1>2 DEF destroy, ZoomInv, Keyed
  <2>2. gBox' \in [Svgs -> Views \union {NoView}]
    BY <1>2 DEF destroy
  <2>3. /\ gCount' = 0 /\ gTodo' = 0 /\ gEl' = {} /\ gZoom' = FALSE /\ gSvg' = 0 /\ gView' = NoView
        /\ gOverlay' = 0 /\ gParent' = FALSE /\ gPan' = "no" /\ gSuppress' = FALSE
    BY <1>2 DEF destroy
  <2>4. /\ gCount' \in 0..MaxRenders /\ gTodo' \in 0..MaxRenders /\ gSvg' \in 0..MaxRenders
        /\ gOverlay' \in 0..MaxRenders /\ gKeys' \in 0..1 /\ gEl' \subseteq 0..MaxRenders
    BY <2>1, <2>3
  <2>5. gZoom' \in BOOLEAN /\ gParent' \in BOOLEAN /\ gSuppress' \in BOOLEAN
    BY <2>3, Zenon
  <2> QED BY <2>2, <2>3, <2>4, <2>5, Zenon DEF GraphTypes, GraphTypeOK
<1>3. CASE GraphChanged
  BY <1>0, <1>3 DEF GraphChanged, viewing, screen, mouse, GraphTypes, GraphTypeOK
<1>4. CASE Drawn
  <2>1. gView' \in Views /\ gTodo \in Svgs
    BY <1>0, <1>4, ViewsAre DEF Drawn, attachSVG, Svgs
  <2>2. gBox' \in [Svgs -> Views \union {NoView}]
    BY <1>0, <1>4, <2>1 DEF Drawn, attachSVG
  <2> QED BY <1>0, <1>4, <2>1, <2>2 DEF Drawn, attachSVG, screen, mouse, GraphTypes, GraphTypeOK
<1>5. CASE DrawingFails
  BY <1>0, <1>5 DEF DrawingFails, viewing, screen, mouse, GraphTypes, GraphTypeOK
<1>6. CASE reset
  <2>1. gView' \in Views
    BY <1>6, ViewsAre DEF reset
  <2> QED BY <1>0, <1>6, <2>1, WrittenView DEF reset, drawing, screen, mouse
<1>7. CASE onPanStart \/ SwallowClick
  BY <1>0, <1>7 DEF onPanStart, SwallowClick, drawing, viewing, screen, GraphTypes, GraphTypeOK
<1>8. CASE onPanEnd
  <2>1. gSuppress' \in BOOLEAN
    BY <1>0, <1>8, Zenon DEF onPanEnd
  <2> QED BY <1>0, <1>8, <2>1 DEF onPanEnd, drawing, viewing, screen, GraphTypes, GraphTypeOK
<1>9. CASE enterFullscreen
  <2>1. gKeys' = 1
    BY <1>9 DEF enterFullscreen, ZoomInv, Keyed
  <2>2. gParent' \in BOOLEAN
    <3>1. gParent' = (gSvg \in gEl)
      BY <1>9 DEF enterFullscreen
    <3>2. CASE gSvg \in gEl
      BY <3>1, <3>2, Zenon
    <3>3. CASE ~(gSvg \in gEl)
      BY <3>1, <3>3
    <3> QED BY <3>2, <3>3
  <2> QED BY <1>0, <1>9, <2>1, <2>2 DEF enterFullscreen, viewing, mouse, GraphTypes, GraphTypeOK
<1>10. CASE exitFullscreen
  <2>1. gKeys' = 0
    BY <1>10 DEF exitFullscreen, Exited, ZoomInv, Keyed
  <2> QED BY <1>0, <1>10, <2>1 DEF exitFullscreen, Exited, viewing, mouse, GraphTypes, GraphTypeOK
<1>11. ASSUME NEW p \in Places, onPanMove(p) PROVE GraphTypes'
  <2>1. gView \in Views
    BY <1>0, <1>11 DEF onPanMove
  <2>2. gView' \in Views
    BY <1>11, <2>1 DEF onPanMove, Views
  <2> QED BY <1>0, <1>11, <2>2, WrittenView DEF onPanMove, drawing, screen
<1>12. ASSUME NEW p \in Places, NEW d \in {-1, 1}, ZoomBy(d, p) PROVE GraphTypes'
  <2>1. gView.zoom \in Int
    BY <1>0, <1>12 DEF ZoomBy, Views
  <2>2. gView' \in Views
    BY <1>12, <2>1, ViewsAre DEF ZoomBy, Views
  <2> QED BY <1>0, <1>12, <2>2, WrittenView DEF ZoomBy, drawing, screen, mouse
<1> QED BY <1>1, <1>2, <1>3, <1>4, <1>5, <1>6, <1>7, <1>8, <1>9, <1>10, <1>11, <1>12 DEF GraphNext

\* The editor's numbers, and its flags.
EditorFlags == {eLoaded, eEmpty, eTimer, eVars, eFull, eBody, eSpoiled} \subseteq BOOLEAN
EditorNumbers ==
    /\ eText \in Texts
    /\ ePreviews \subseteq Texts /\ eDraws \subseteq Texts /\ eSaves \subseteq Texts
    /\ {eGraph, eFailed, eMarks, eBlocks, eSeen} \subseteq Texts \union {-1}
    /\ ePanels \subseteq EditorPanels

LEMMA EditorParts == EditorTypeOK <=> EditorFlags /\ EditorNumbers
  BY Zenon DEF EditorTypeOK, EditorFlags, EditorNumbers

LEMMA NextEditorNumbers == ASSUME EditorNumbers, EditorNext PROVE EditorNumbers'
<1> USE EditorAssumption DEF EditorNumbers, Texts
<1>1. CASE PipelineNew
  <2>1. eText' = 0 /\ eBlocks' = 0 /\ UNCHANGED <<ePreviews, drawn, eMarks, eSeen, eSaves, ePanels>>
    BY <1>1 DEF PipelineNew, updateBlocksPanel, layout
  <2> QED BY <2>1 DEF drawn
<1>11. ASSUME UNCHANGED <<ePreviews, drawn, eMarks, eBlocks, eSeen, eSaves, ePanels>>,
              eText' \in Texts
       PROVE  EditorNumbers'
  BY <1>11 DEF drawn
<1>12. CASE PipelineEdit
  BY <1>11, <1>12 DEF PipelineEdit, editorVars, drawn
<1>8. ASSUME changePipeline, eText' \in Texts PROVE ePreviews' \subseteq Texts
  BY <1>8 DEF changePipeline
<1>9. CASE PipelineFetched
  <2>1. eText' \in Texts /\ eBlocks' = eText' /\ UNCHANGED <<drawn, eMarks, eSeen, eSaves, ePanels>>
    BY <1>9 DEF PipelineFetched, updateBlocksPanel, layout
  <2>2. ePreviews' \subseteq Texts
    BY <1>8, <1>9, <2>1 DEF PipelineFetched
  <2> QED BY <2>1, <2>2 DEF drawn
<1>10. CASE PreviewTimer
  <2>1. /\ eText' \in Texts /\ eBlocks' = eText'
        /\ UNCHANGED <<drawn, eMarks, eSeen, eSaves, ePanels>>
    BY <1>10 DEF PreviewTimer, updateBlocksPanel, document, layout
  <2> QED BY <1>8, <1>10, <2>1 DEF PreviewTimer, drawn
<1>2. CASE Type \/ EditVars
  <2>1. UNCHANGED <<ePreviews, drawn, eMarks, eBlocks, eSeen, eSaves, ePanels>>
    BY <1>2 DEF Type, EditVars, previewed, layout
  <2>2. eText' \in Texts
    BY <1>2 DEF Type, EditVars, document
  <2> QED BY <1>11, <2>1, <2>2
<1>3. ASSUME NEW t \in Texts, PreviewShown(t) \/ showEditorErrors(t) \/ PreviewLost(t)
      PROVE  EditorNumbers'
  <2>1. /\ ePreviews' \subseteq ePreviews /\ eDraws' \subseteq eDraws \union {t}
        /\ eText' = eText /\ eBlocks' = eText
        /\ UNCHANGED <<eGraph, eFailed, eSaves, ePanels>>
        /\ eMarks' \in {t, -1} /\ eSeen' \in {eSeen, t}
    BY <1>3 DEF PreviewShown, showEditorErrors, PreviewLost, Draw, updateBlocksPanel,
       Overtaken, document, drawn, layout
  <2> QED BY <2>1
<1>13. ASSUME NEW t \in Texts, PreviewDrawn(t) \/ PreviewDrawFails(t) PROVE EditorNumbers'
  BY <1>13 DEF PreviewDrawn, PreviewDrawFails, DrawingEnds, document, layout
<1>4. CASE handleSubmit \/ toggleFullscreen \/ escHandler
  BY <1>4 DEF handleSubmit, toggleFullscreen, escHandler, document, previewed, drawn, layout
<1>5. ASSUME NEW t \in Texts, SaveFails(t) PROVE EditorNumbers'
  BY <1>5 DEF SaveFails, document, previewed, drawn, layout
<1>6. ASSUME NEW p \in EditorPanels, TogglePanel(p) PROVE EditorNumbers'
  BY <1>6 DEF TogglePanel, document, previewed, drawn
<1>7. CASE CloseEditor \/ \E t \in Texts : onSaveSuccess(t)
  BY <1>7 DEF CloseEditor, onSaveSuccess, Cleared
<1> QED BY <1>1, <1>2, <1>3, <1>4, <1>5, <1>6, <1>7, <1>9, <1>10, <1>12, <1>13 DEF EditorNext

LEMMA NextEditorFlags == ASSUME EditorFlags, EditorNext PROVE EditorFlags'
<1>0. /\ eLoaded \in BOOLEAN /\ eEmpty \in BOOLEAN /\ eTimer \in BOOLEAN /\ eVars \in BOOLEAN
      /\ eFull \in BOOLEAN /\ eBody \in BOOLEAN /\ eSpoiled \in BOOLEAN
  BY DEF EditorFlags
<1> SUFFICES /\ eLoaded' \in BOOLEAN /\ eEmpty' \in BOOLEAN /\ eTimer' \in BOOLEAN /\ eVars' \in BOOLEAN
             /\ eFull' \in BOOLEAN /\ eBody' \in BOOLEAN /\ eSpoiled' \in BOOLEAN
  BY DEF EditorFlags
<1> DEFINE Goal == /\ eLoaded' \in BOOLEAN /\ eEmpty' \in BOOLEAN /\ eTimer' \in BOOLEAN
                   /\ eVars' \in BOOLEAN /\ eFull' \in BOOLEAN /\ eBody' \in BOOLEAN
                   /\ eSpoiled' \in BOOLEAN
<1>1. CASE PipelineNew
  BY <1>0, <1>1 DEF PipelineNew, layout
<1>2. CASE PipelineEdit
  BY <1>0, <1>2 DEF PipelineEdit, editorVars
<1>3. CASE PipelineFetched
  BY <1>0, <1>3 DEF PipelineFetched, changePipeline, layout
<1>4. CASE Type
  BY <1>0, <1>4 DEF Type, previewed, layout
<1>5. CASE EditVars
  <2>1. eVars' \in BOOLEAN
    BY <1>5, Zenon DEF EditVars
  <2> QED BY <1>0, <1>5, <2>1 DEF EditVars, document, previewed, layout
<1>6. CASE PreviewTimer
  BY <1>0, <1>6 DEF PreviewTimer, changePipeline, document, layout
<1>13. ASSUME NEW t \in Texts, PreviewDrawn(t) \/ PreviewDrawFails(t) PROVE Goal
  <2>1. eSpoiled' \in BOOLEAN
    BY <1>13, Zenon DEF PreviewDrawn, PreviewDrawFails, DrawingEnds
  <2> QED BY <1>0, <1>13, <2>1 DEF PreviewDrawn, PreviewDrawFails, DrawingEnds, document, layout
<1>7. ASSUME NEW t \in Texts, PreviewShown(t) \/ showEditorErrors(t) \/ PreviewLost(t) PROVE Goal
  <2>1. eSpoiled' \in BOOLEAN
    <3>1. eSpoiled' = TRUE \/ eSpoiled' = (eSpoiled \/ t < eSeen)
      BY <1>7, Zenon DEF PreviewShown, showEditorErrors, PreviewLost, Draw, Overtaken
    <3> QED BY <3>1, Zenon
  <2> QED BY <1>0, <1>7, <2>1 DEF PreviewShown, showEditorErrors, PreviewLost, document, layout
<1>8. CASE handleSubmit \/ escHandler
  BY <1>0, <1>8 DEF handleSubmit, escHandler, document, previewed, layout
<1>9. CASE toggleFullscreen
  <2>1. eFull' \in BOOLEAN /\ eBody' \in BOOLEAN
    BY <1>9, Zenon DEF toggleFullscreen
  <2> QED BY <1>0, <1>9, <2>1 DEF toggleFullscreen, document, previewed
<1>10. ASSUME NEW t \in Texts, SaveFails(t) PROVE Goal
  BY <1>0, <1>10 DEF SaveFails, document, previewed, layout
<1>11. ASSUME NEW p \in EditorPanels, TogglePanel(p) PROVE Goal
  BY <1>0, <1>11 DEF TogglePanel, document, previewed
<1>12. CASE CloseEditor \/ \E t \in Texts : onSaveSuccess(t)
  BY <1>12 DEF CloseEditor, onSaveSuccess, Cleared
<1> QED BY <1>1, <1>2, <1>3, <1>4, <1>5, <1>6, <1>7, <1>8, <1>9, <1>10, <1>11, <1>12, <1>13 DEF EditorNext

\* The session's numbers, and its flags.
SessionNumbers ==
    /\ sGen \in 0..MaxGen /\ sStore \in Sessions
    /\ sTab \in [Tabs -> Sessions] /\ sRoute \in [Tabs -> Routes]
    /\ \A c \in sCalls : c.tab \in Tabs /\ c.gen \in Sessions /\ c.got \in Sessions
SessionFlags == sClosed \in BOOLEAN /\ sSpoiled \in BOOLEAN

LEMMA SessionParts == SessionTypeOK <=> SessionFlags /\ SessionNumbers
  BY Zenon DEF SessionTypeOK, SessionFlags, SessionNumbers

LEMMA RouteIs ==
  ASSUME NEW s, NEW r \in Routes PROVE useRequireAuth(s, r) \in Routes /\ Landing(s, r) \in Routes
  BY DEF useRequireAuth, Landing, Routes

LEMMA RepliedIs ==
  ASSUME SessionInv, SessionNumbers, NEW c \in sCalls, NEW s, NEW g \in Sessions, Replied(c, s, g)
  PROVE  \A d \in sCalls' : d.tab \in Tabs /\ d.gen \in Sessions /\ d.got \in Sessions
<1>1. c \in Calls
  BY DEF SessionInv, SessionTypes
<1> DEFINE e == [c EXCEPT !.st = s, !.got = g]
<1>2. e.tab = c.tab /\ e.gen = c.gen /\ e.got = g
  BY <1>1 DEF Calls
<1>3. sCalls' = (sCalls \ {c}) \union {e}
  BY DEF Replied
<1> HIDE DEF e
<1> QED BY <1>2, <1>3 DEF SessionNumbers

LEMMA CallIs ==
  ASSUME SessionNumbers, NEW t \in Tabs, NEW k
  PROVE  Call(t, k).tab \in Tabs /\ Call(t, k).gen \in Sessions /\ Call(t, k).got \in Sessions
  BY SessionAssumption DEF SessionNumbers, Call, Out, Sessions

LEMMA NextSessionNumbers == ASSUME SessionInv, SessionNumbers, SessionNext PROVE SessionNumbers'
<1>0. /\ sGen \in 0..MaxGen /\ sStore \in Sessions
      /\ sTab \in [Tabs -> Sessions] /\ sRoute \in [Tabs -> Routes]
      /\ \A c \in sCalls : c.tab \in Tabs /\ c.gen \in Sessions /\ c.got \in Sessions
  BY DEF SessionNumbers
<1>1. Out \in Sessions /\ \A g \in 0..MaxGen : g \in Sessions
  BY SessionAssumption DEF Out, Sessions
<1>2. "login" \in Routes /\ "home" \in Routes
  BY DEF Routes
<1>3. CASE OpenBrowser
  BY <1>0, <1>3 DEF OpenBrowser, sessionVars, SessionNumbers
<1>4. CASE CloseBrowser
  BY <1>1, <1>2, <1>4, SessionAssumption DEF CloseBrowser, SessionNumbers
<1>5. CASE Reset
  BY <1>0, <1>5, SessionAssumption DEF Reset, SessionNumbers
<1>6. ASSUME NEW t \in Tabs, Reload(t) PROVE SessionNumbers'
  <2>1. sTab' \in [Tabs -> Sessions]
    BY <1>0, <1>6 DEF Reload
  <2>2. Landing(sStore, sRoute[t]) \in Routes
    BY <1>0, RouteIs
  <2>3. sRoute' \in [Tabs -> Routes]
    BY <1>0, <1>6, <2>2 DEF Reload
  <2> QED BY <1>0, <1>6, <2>1, <2>3 DEF Reload, SessionNumbers
<1>7. ASSUME NEW t \in Tabs, handleLogout(t) PROVE SessionNumbers'
  BY <1>0, <1>1, <1>2, <1>7 DEF handleLogout, logout, SessionNumbers
<1>8. ASSUME NEW t \in Tabs, NEW r \in Routes, Visit(t, r) PROVE SessionNumbers'
  <2>1. Landing(sTab[t], r) \in Routes
    BY RouteIs
  <2>2. sRoute' \in [Tabs -> Routes]
    BY <1>0, <1>8, <2>1 DEF Visit
  <2> QED BY <1>0, <1>8, <2>2 DEF Visit, SessionNumbers
<1>9. ASSUME NEW t \in Tabs, NEW k \in {"call", "login", "password"}, Send(t, k) PROVE SessionNumbers'
  BY <1>0, <1>9, CallIs DEF Send, SessionNumbers
<1>10. ASSUME NEW c \in sCalls, Served(c) PROVE SessionNumbers'
  <2>1. sGen' \in 0..MaxGen
    BY <1>0, <1>10, SessionAssumption DEF Served
  <2>2. \E s, g : g \in Sessions /\ Replied(c, s, g)
    BY <1>0, <1>1, <1>10, <2>1 DEF Served
  <2>3. \A d \in sCalls' : d.tab \in Tabs /\ d.gen \in Sessions /\ d.got \in Sessions
    BY <2>2, RepliedIs
  <2> QED BY <1>0, <1>10, <2>1, <2>3 DEF Served, SessionNumbers
<1>11. ASSUME NEW c \in sCalls, Refused(c) PROVE SessionNumbers'
  <2>1. \A d \in sCalls' : d.tab \in Tabs /\ d.gen \in Sessions /\ d.got \in Sessions
    BY <1>1, <1>11, RepliedIs DEF Refused
  <2> QED BY <1>0, <1>11, <2>1 DEF Refused, SessionNumbers
<1>12. ASSUME NEW c \in sCalls, CallAnswered(c) PROVE SessionNumbers'
  BY <1>0, <1>12, CallIs DEF CallAnswered, refreshToken, SessionNumbers
<1>13. ASSUME NEW c \in sCalls, Granted(c) PROVE SessionNumbers'
  <2>1. sTab' \in [Tabs -> Sessions] /\ sStore' \in Sessions
    BY <1>0, <1>13 DEF Granted, login
  <2>2. useRequireAuth(c.got, "home") \in Routes
    BY <1>2, RouteIs
  <2>3. sRoute' \in [Tabs -> Routes]
    BY <1>0, <1>2, <1>13, <2>2 DEF Granted
  <2> QED BY <1>0, <1>13, <2>1, <2>3 DEF Granted, SessionNumbers
<1>14. ASSUME NEW c \in sCalls, CallRefused(c) PROVE SessionNumbers'
  <2>1. sGen' = sGen /\ sCalls' \subseteq sCalls
    BY <1>14 DEF CallRefused
  <2>2. CASE c.kind \in {"call", "password"} /\ sTab[c.tab] # Out
    BY <1>0, <1>1, <1>2, <1>14, <2>1, <2>2 DEF CallRefused, logout, SessionNumbers
  <2>3. CASE ~(c.kind \in {"call", "password"} /\ sTab[c.tab] # Out)
    BY <1>0, <1>14, <2>1, <2>3 DEF CallRefused, SessionNumbers
  <2> QED BY <2>2, <2>3
<1>15. ASSUME NEW c \in sCalls, CallLost(c) PROVE SessionNumbers'
  BY <1>0, <1>15 DEF CallLost, SessionNumbers
<1> QED BY <1>3, <1>4, <1>5, <1>6, <1>7, <1>8, <1>9, <1>10, <1>11, <1>12, <1>13, <1>14, <1>15
        DEF SessionNext

LEMMA NextSessionFlags == ASSUME SessionFlags, SessionNext PROVE SessionFlags'
<1> USE DEF SessionFlags
<1>1. CASE OpenBrowser \/ CloseBrowser \/ Reset
  BY <1>1 DEF OpenBrowser, CloseBrowser, Reset, sessionVars
<1>2. ASSUME NEW t \in Tabs, Reload(t) PROVE SessionFlags'
  BY <1>2, Zenon DEF Reload
<1>3. ASSUME NEW t \in Tabs, handleLogout(t) PROVE SessionFlags'
  BY <1>3, Zenon DEF handleLogout
<1>4. ASSUME NEW t \in Tabs, NEW r \in Routes, Visit(t, r) PROVE SessionFlags'
  BY <1>4 DEF Visit
<1>5. ASSUME NEW t \in Tabs, NEW k, Send(t, k) PROVE SessionFlags'
  <2>1. sClosed' = sClosed
    BY <1>5 DEF Send
  <2>2. sSpoiled' \in BOOLEAN
    BY <1>5, Zenon DEF Send
  <2> QED BY <2>1, <2>2
<1>6. ASSUME NEW c \in sCalls, Served(c) PROVE SessionFlags'
  <2>1. sClosed' = sClosed
    BY <1>6 DEF Served
  <2>2. sSpoiled' \in BOOLEAN
    BY <1>6, Zenon DEF Served
  <2> QED BY <2>1, <2>2
<1>7. ASSUME NEW c \in sCalls, Refused(c) PROVE SessionFlags'
  BY <1>7 DEF Refused
<1>10. ASSUME NEW c \in sCalls, Granted(c) PROVE SessionFlags'
  <2>1. sSpoiled' = sSpoiled
    BY <1>10 DEF Granted
  <2>2. sClosed' \in BOOLEAN
    BY <1>10, Zenon DEF Granted
  <2> QED BY <2>1, <2>2
<1>11. ASSUME NEW c \in sCalls, CallLost(c) PROVE SessionFlags'
  <2>1. sClosed' = sClosed
    BY <1>11 DEF CallLost
  <2>2. sSpoiled' \in BOOLEAN
    BY <1>11, Zenon DEF CallLost
  <2> QED BY <2>1, <2>2
<1>8. ASSUME NEW c \in sCalls, CallAnswered(c) PROVE SessionFlags'
  BY <1>8, Zenon DEF CallAnswered
<1>9. ASSUME NEW c \in sCalls, CallRefused(c) PROVE SessionFlags'
  <2>1. sSpoiled' = sSpoiled
    BY <1>9 DEF CallRefused
  <2>2. sClosed' = sClosed \/ sClosed' = ~InSession(sTab')
    BY <1>9 DEF CallRefused
  <2>3. sClosed' \in BOOLEAN
    BY <2>2, Zenon
  <2> QED BY <2>1, <2>3
<1> QED BY <1>1, <1>2, <1>3, <1>4, <1>5, <1>6, <1>7, <1>8, <1>9, <1>10, <1>11 DEF SessionNext

\* A tab can only press commands, and the server answers what it was asked.
LEMMA NextBusy == ASSUME busy \subseteq Commands, ContentNext PROVE busy' \subseteq Commands
<1>1. ASSUME NEW s \in BuildStates, OpenJob(s) PROVE busy' \subseteq Commands
  BY <1>1 DEF OpenJob, component
<1>2. CASE LeaveJob \/ ShowTab \/ HideTab
  BY <1>2 DEF LeaveJob, ShowTab, HideTab
<1>3. CASE BuildGoesOn \/ SendStatus
  BY <1>3 DEF BuildGoesOn, SendStatus, component
<1>4. ASSUME NEW c \in Commands, Press(c) PROVE busy' \subseteq Commands
  BY <1>4 DEF Press
<1>5. ASSUME NEW a \in asks,
             \/ AnswerRead(a) \/ AnswerCommand(a) \/ Refuse(a)
             \/ HandleFull(a) \/ HandleFix(a) \/ HandleStatus(a)
      PROVE  busy' \subseteq Commands
  BY <1>5 DEF AnswerRead, AnswerCommand, Refuse, HandleFull, HandleFix, HandleStatus, component
<1>6. ASSUME NEW a \in asks, HandleCommand(a) PROVE busy' \subseteq Commands
  <2>1. busy' = IF a.mine THEN busy \ {a.kind} ELSE busy
    BY <1>6 DEF HandleCommand
  <2> QED BY <2>1
<1> QED BY <1>1, <1>2, <1>3, <1>4, <1>5, <1>6 DEF ContentNext

LEMMA ContentTyped == ContentInv /\ busy \subseteq Commands => ContentTypeOK
  BY DEF ContentInv, ContentTypes, IsAsk, ContentTypeOK

\* What a request names is a version, or none.
ResourceTypes == ResourceTypeOK /\ \A f \in fetches : f.arg \in 0..MaxVersion

\* The list of versions has its types from the invariant; the rest is kept.
LEMMA ResourceRest ==
  ASSUME ResourceInv', latest' \in 0..MaxVersion, pinnedAt' \in 0..MaxVersion,
         vFetching' \in BOOLEAN, vPinned' \in -1..MaxVersion,
         behind' \in BOOLEAN, \A f \in fetches' : f.arg \in 0..MaxVersion
  PROVE  ResourceTypes'
<1>1. /\ versions' \subseteq 1..latest' /\ vOldest' \in Nat /\ vMore' \in BOOLEAN
      /\ vOldest' > 0 => vOldest' \in versions'
  BY DEF ResourceInv, Shown
<1>2. versions' \subseteq 1..MaxVersion /\ vOldest' \in 0..MaxVersion
  BY <1>1, ResourceAssumption
<1> QED BY <1>1, <1>2 DEF ResourceTypes, ResourceTypeOK, VersionIDs

LEMMA FetchIs == \A k, a : Fetch(k, a).arg = a
  BY DEF Fetch

LEMMA NextResourceTypes ==
  ASSUME ResourceInv, ResourceInv', ResourceTypes, ResourceNext PROVE ResourceTypes'
<1> USE ResourceAssumption
<1>0. /\ latest \in 0..MaxVersion /\ pinnedAt \in 0..MaxVersion
      /\ vOldest \in 0..MaxVersion /\ vFetching \in BOOLEAN
      /\ vPinned \in -1..MaxVersion /\ behind \in BOOLEAN
      /\ \A f \in fetches : f.arg \in 0..MaxVersion
      /\ \A f \in fetches : f \in Fetches
  BY DEF ResourceTypes, ResourceTypeOK, ResourceInv, Asked
<1>1. ASSUME NEW n \in 0..MaxVersion, OpenVersions(n) PROVE ResourceTypes'
  BY <1>0, <1>1, ResourceRest, FetchIs DEF OpenVersions, paging
<1>2. CASE LeaveVersions
  <2>1. vFetching' = FALSE /\ behind' = FALSE
    BY <1>2 DEF LeaveVersions
  <2>2. vFetching' \in BOOLEAN /\ behind' \in BOOLEAN
    BY <2>1, Zenon
  <2>3. latest' = 0 /\ pinnedAt' = 0 /\ vPinned' = -1 /\ fetches' = {}
    BY <1>2 DEF LeaveVersions
  <2>4. latest' \in 0..MaxVersion /\ pinnedAt' \in 0..MaxVersion /\ vPinned' \in -1..MaxVersion
    BY <2>3
  <2> QED BY <2>2, <2>3, <2>4, ResourceRest
<1>3. ASSUME NEW top, NEW shownTop, Behind(top, shownTop) PROVE behind' \in BOOLEAN
  BY <1>3, Zenon DEF Behind
<1>4. CASE NewVersion
  <2>1. behind' \in BOOLEAN
    BY <1>3, <1>4 DEF NewVersion
  <2> QED BY <1>0, <1>4, <2>1, ResourceRest DEF NewVersion, paging
<1>5. CASE PollVersions
  BY <1>0, <1>5, ResourceRest, FetchIs DEF PollVersions, paging
<1>6. CASE onScroll
  BY <1>0, <1>6, ResourceRest, FetchIs DEF onScroll
<1>7. ASSUME NEW v \in Pinnable, onPinVersion(v) PROVE ResourceTypes'
  BY <1>0, <1>7, ResourceRest, FetchIs DEF onPinVersion, paging
<1>8. ASSUME NEW f \in fetches, AnswerFetch(f) PROVE ResourceTypes'
  <2>1. pinnedAt' \in 0..MaxVersion
    BY <1>0, <1>8 DEF AnswerFetch
  <2>2. PICK g : fetches' = (fetches \ {f}) \union {g} /\ g.arg \in {f.arg, pinnedAt}
    <3> DEFINE high == IF f.kind = "more" THEN f.arg - 1 ELSE latest
               low == Higher(1, high - VersionPage + 1)
    <3>1. fetches' = (fetches \ {f}) \union
                       {CASE f.kind = "resource" -> [f EXCEPT !.st = "ok", !.arg = pinnedAt]
                          [] f.kind \in {"pin", "unpin"} -> [f EXCEPT !.st = "ok"]
                          [] OTHER -> [f EXCEPT !.st = "ok", !.low = low, !.high = high]}
      BY <1>8 DEF AnswerFetch
    <3> HIDE DEF high, low
    <3>2. f \in Fetches
      BY <1>0
    <3>3. [f EXCEPT !.st = "ok", !.arg = pinnedAt].arg = pinnedAt
      BY <3>2 DEF Fetches
    <3>4. [f EXCEPT !.st = "ok"].arg = f.arg
      BY <3>2 DEF Fetches
    <3>5. [f EXCEPT !.st = "ok", !.low = low, !.high = high].arg = f.arg
      BY <3>2 DEF Fetches
    <3> QED BY <3>1, <3>3, <3>4, <3>5
  <2>3. \A h \in fetches' : h.arg \in 0..MaxVersion
    BY <1>0, <2>2
  <2> QED BY <1>0, <1>8, <2>1, <2>3, ResourceRest DEF AnswerFetch, paging
<1>9. ASSUME NEW f \in fetches, FetchFails(f) PROVE ResourceTypes'
  <2>1. vFetching' \in BOOLEAN
    BY <1>9, Zenon DEF FetchFails
  <2> QED BY <1>0, <1>9, <2>1, ResourceRest DEF FetchFails
<1>10. ASSUME NEW f \in fetches, LoadVersions(f) PROVE ResourceTypes'
  <2>1. behind' \in BOOLEAN
    BY <1>3, <1>10 DEF LoadVersions
  <2> QED BY <1>0, <1>10, <2>1, ResourceRest DEF LoadVersions, Fetched
<1>11. ASSUME NEW f \in fetches, MergeVersions(f) PROVE ResourceTypes'
  BY <1>0, <1>11, ResourceRest DEF MergeVersions, Fetched, paging
<1>12. ASSUME NEW f \in fetches, MoreVersions(f) PROVE ResourceTypes'
  BY <1>0, <1>12, ResourceRest DEF MoreVersions, Fetched
<1>13. ASSUME NEW f \in fetches, ResourceShown(f) PROVE ResourceTypes'
  BY <1>0, <1>13, ResourceRest DEF ResourceShown, Fetched, paging
<1>14. ASSUME NEW f \in fetches, PinDone(f) PROVE ResourceTypes'
  <2>1. vPinned' \in -1..MaxVersion
    BY <1>0, <1>14 DEF PinDone
  <2>2. fetches' \subseteq fetches /\ UNCHANGED <<latest, pinnedAt, vFetching, behind>>
    BY <1>14 DEF PinDone, paging
  <2> QED BY <1>0, <2>1, <2>2, ResourceRest
<1> QED BY <1>1, <1>2, <1>4, <1>5, <1>6, <1>7, <1>8, <1>9, <1>10, <1>11, <1>12, <1>13, <1>14
       DEF ResourceNext

\* An answer of the grid has no more rows than a page.
GridRest ==
    /\ lEdits \in 0..MaxGridEdits /\ lTimer \in BOOLEAN /\ lMissed \in BOOLEAN
    /\ \A r \in lReqs : r.n \in 0..GridPage
    /\ lShown.at \in ListState

LEMMA GridTyped == GridInv /\ GridRest => GridTypeOK
  BY DEF GridInv, GridTypes, GridRequests, GridRest, GridTypeOK

LEMMA RowsAre ==
  ASSUME NEW s \in ListState, NEW total \in Nat PROVE Rows(s, total) \in 0..GridPage
<1>1. s.page \in Int /\ GridPage \in Nat
  BY GridAssumption DEF ListState
<1> DEFINE from == (s.page - 1) * GridPage
<1>2. from \in Int
  BY <1>1
<1>3. Rows(s, total) = IF total <= from THEN 0 ELSE Lesser(GridPage, total - from)
  BY DEF Rows
<1> HIDE DEF from
<1> QED BY <1>1, <1>2, <1>3 DEF Lesser

\* A new list state asks for its page; requests that are overtaken keep their rows.
LEMMA StateSetRest ==
  ASSUME GridInv, GridRest, NEW s, SetListState(s)
  PROVE  lMissed' \in BOOLEAN /\ \A r \in lReqs' : r.n \in 0..GridPage
<1>0. lReqs \subseteq GridRequests /\ lMissed \in BOOLEAN /\ \A r \in lReqs : r.n \in 0..GridPage
  BY DEF GridInv, GridTypes, GridRest
<1>1. CASE s = lAt
  BY <1>0, <1>1 DEF SetListState
<1>2. CASE s # lAt
  <2> DEFINE new == [at |-> s, stale |-> FALSE, st |-> "sent", total |-> 0, n |-> 0]
  <2>1. lMissed' = FALSE /\ lReqs' = {[r EXCEPT !.stale = TRUE] : r \in lReqs} \union {new}
    BY <1>2 DEF SetListState
  <2>2. \A r \in lReqs : [r EXCEPT !.stale = TRUE].n = r.n
    BY <1>0 DEF GridRequests
  <2>3. new.n \in 0..GridPage
    BY GridAssumption
  <2> HIDE DEF new
  <2> QED BY <1>0, <2>1, <2>2, <2>3
<1> QED BY <1>1, <1>2

LEMMA NextGridRest == ASSUME GridInv, GridRest, GridNext PROVE GridRest'
<1> USE GridAssumption
<1>0. /\ lEdits \in 0..MaxGridEdits /\ lTimer \in BOOLEAN /\ lMissed \in BOOLEAN
      /\ \A r \in lReqs : r.n \in 0..GridPage
      /\ lShown.at \in ListState
      /\ lReqs \subseteq GridRequests /\ lTotal \in [Searches -> Nat]
  BY DEF GridInv, GridTypes, GridRest
<1>1. NoShown.at \in ListState
  BY DEF NoShown, ListState, SORTS
<1>2. ASSUME NEW u, OpenGrid(u) PROVE GridRest'
  <2>1. \A r \in lReqs' : r.n \in 0..GridPage
    BY <1>2 DEF OpenGrid
  <2>2. lEdits' = lEdits /\ lTimer' = FALSE /\ lMissed' = FALSE /\ lShown' = NoShown
    BY <1>2 DEF OpenGrid
  <2> QED BY <1>0, <1>1, <2>1, <2>2 DEF GridRest
<1>3. CASE CloseGrid
  <2>1. lReqs' = {} /\ lEdits' = 0 /\ lTimer' = FALSE /\ lMissed' = TRUE /\ lShown' = NoShown
    BY <1>3 DEF CloseGrid
  <2>2. lTimer' \in BOOLEAN /\ lMissed' \in BOOLEAN
    BY <2>1, Zenon
  <2> QED BY <1>1, <2>1, <2>2 DEF GridRest
<1>4. ASSUME NEW w \in Searches, TypeSearch(w) PROVE GridRest'
  <2>1. lTimer' \in BOOLEAN
    BY <1>4, Zenon DEF TypeSearch
  <2> QED BY <1>0, <1>4, <2>1 DEF TypeSearch, GridRest
<1>5. ASSUME NEW w, NEW d, PipelineEdited(w, d) PROVE GridRest'
  <2>1. /\ lEdits' \in 0..MaxGridEdits
        /\ UNCHANGED <<lTimer, lReqs, lShown, lMissed>>
    BY <1>0, <1>5 DEF PipelineEdited
  <2> QED BY <1>0, <2>1 DEF GridRest
<1>6. CASE Search
  <2>1. lMissed' \in BOOLEAN /\ \A r \in lReqs' : r.n \in 0..GridPage
    BY <1>6, StateSetRest DEF Search
  <2> QED BY <1>0, <1>6, <2>1 DEF Search, GridRest
<1>7. ASSUME NEW o, setSort(o) PROVE GridRest'
  <2>1. lMissed' \in BOOLEAN /\ \A r \in lReqs' : r.n \in 0..GridPage
    BY <1>7, StateSetRest DEF setSort
  <2> QED BY <1>0, <1>7, <2>1 DEF setSort, GridRest
<1>8. ASSUME NEW p, setPage(p) PROVE GridRest'
  <2>1. lMissed' \in BOOLEAN /\ \A r \in lReqs' : r.n \in 0..GridPage
    BY <1>8, StateSetRest DEF setPage
  <2> QED BY <1>0, <1>8, <2>1 DEF setPage, GridRest
<1>9. ASSUME NEW r \in lReqs, FilterSummary(r) PROVE GridRest'
  <2>1. r \in GridRequests /\ r.at \in ListState /\ r.at.q \in Searches
    BY <1>0 DEF GridRequests, ListState
  <2>2. PICK f : lReqs' = (lReqs \ {r}) \union {f} /\ f.n \in 0..GridPage
    <3>1. CASE Counted(r)
      <4>1. [r EXCEPT !.st = "counted", !.total = lTotal[r.at.q]].n = r.n
        BY <2>1 DEF GridRequests
      <4> QED BY <1>0, <3>1, <4>1 DEF Counted, Put
    <3>2. CASE Selected(r)
      <4>1. lTotal[r.at.q] \in Nat
        BY <1>0, <2>1
      <4>2. PICK n : n = Rows(r.at, lTotal[r.at.q]) /\ n \in 0..GridPage
        BY <2>1, <4>1, RowsAre
      <4>3. [r EXCEPT !.st = "ok", !.n = n].n = n
        BY <2>1 DEF GridRequests
      <4> QED BY <3>2, <4>2, <4>3 DEF Selected, Put
    <3>3. CASE Broken(r)
      <4>1. [r EXCEPT !.st = "failed"].n = r.n
        BY <2>1 DEF GridRequests
      <4> QED BY <1>0, <3>3, <4>1 DEF Broken, Put
    <3> QED BY <1>9, <3>1, <3>2, <3>3 DEF FilterSummary
  <2> QED BY <1>0, <1>9, <2>2 DEF FilterSummary, GridRest
<1>10. ASSUME NEW r \in lReqs, StaleAnswer(r) PROVE GridRest'
  BY <1>0, <1>10 DEF StaleAnswer, GridRest
<1>11. ASSUME NEW r \in lReqs, LastPage(r) PROVE GridRest'
  <2> DEFINE s == [lAt EXCEPT !.page = ceil(r.total)]
             new == [at |-> s, stale |-> FALSE, st |-> "sent", total |-> 0, n |-> 0]
  <2>1. new.n = 0
    OBVIOUS
  <2>2. /\ lMissed' = TRUE \/ lMissed' = FALSE
        /\ lReqs' \subseteq lReqs \union {new}
        /\ UNCHANGED <<lEdits, lTimer, lShown>>
    BY <1>11 DEF LastPage
  <2> HIDE DEF new
  <2>3. lMissed' \in BOOLEAN
    BY <2>2, Zenon
  <2>4. \A q \in lReqs' : q.n \in 0..GridPage
    BY <1>0, <2>1, <2>2
  <2> QED BY <1>0, <2>2, <2>3, <2>4 DEF GridRest
<1>12. ASSUME NEW r \in lReqs, PageAnswered(r) PROVE GridRest'
  <2>1. lShown'.at \in ListState
    BY <1>0, <1>12 DEF PageAnswered, GridRequests
  <2> QED BY <1>0, <1>12, <2>1 DEF PageAnswered, GridRest
<1>13. ASSUME NEW r \in lReqs, PageFailed(r) PROVE GridRest'
  BY <1>0, <1>13 DEF PageFailed, GridRest
<1> QED BY <1>2, <1>3, <1>4, <1>5, <1>6, <1>7, <1>8, <1>9, <1>10, <1>11, <1>12, <1>13 DEF GridNext

\* The changes of the server, and those the rows were told of, are counted.
AdminBounds == aVer <= MaxChanges /\ aSeen <= MaxChanges

LEMMA AdminTyped == AdminInv /\ AdminBounds => AdminTypeOK
<1> SUFFICES ASSUME AdminInv, AdminBounds PROVE AdminTypeOK
  OBVIOUS
<1>1. /\ aList \in Lists /\ aOwn \subseteq AnEntry /\ aVer \in Nat /\ aSeen \in Nat
      /\ aSpoiled \in BOOLEAN /\ aRows \subseteq ARow /\ \A r \in aReqs : ACall(r)
  BY DEF AdminInv, AdminTypes
<1>2. NamesOf(aOwn) \subseteq EntryNames
  BY <1>1 DEF NamesOf, AnEntry
<1>3. aVer \in 0..MaxChanges /\ aSeen \in 0..MaxChanges
  BY <1>1, AdminAssumption DEF AdminBounds
<1>4. \A r \in aRows : r.name \in EntryNames /\ r.value \in Values
  BY <1>1 DEF ARow
<1>5. \A r \in aReqs : r.st \in {"sent", "ok", "lost", "failed"} /\ r.ver \in 0..MaxChanges
  <2> TAKE r \in aReqs
  <2>1. r.st \in {"sent", "ok", "lost", "failed"} /\ r.ver \in Nat /\ r.ver <= aVer
    BY <1>1 DEF ACall
  <2> QED BY <1>3, <2>1, AdminAssumption
<1> QED BY <1>1, <1>2, <1>3, <1>4, <1>5 DEF AdminTypeOK

LEMMA NextAdminBounds == ASSUME AdminInv, AdminBounds, AdminNext PROVE AdminBounds'
<1> USE AdminAssumption DEF AdminBounds
<1>0. /\ aVer \in Nat /\ aSeen \in Nat /\ \A r \in aReqs : r.ver \in Nat /\ r.ver <= MaxChanges
  <2>1. aVer \in Nat /\ aSeen \in Nat /\ \A r \in aReqs : ACall(r)
    BY DEF AdminInv, AdminTypes
  <2>2. \A r \in aReqs : r.ver \in Nat /\ r.ver <= aVer
    BY <2>1 DEF ACall
  <2> QED BY <2>1, <2>2
<1>1. ASSUME NEW r \in aReqs, Told(r), aVer' = aVer PROVE AdminBounds'
  BY <1>0, <1>1 DEF Told
<1>2. ASSUME NEW l \in Lists, NEW es \in StartEntries, OpenAdmin(l, es) PROVE AdminBounds'
  BY <1>2 DEF OpenAdmin
<1>3. CASE CloseAdmin \/ Click
  BY <1>3 DEF CloseAdmin, Click
<1>4. ASSUME NEW r \in aReqs, Performed(r) \/ Declined(r) PROVE AdminBounds'
  BY <1>0, <1>4 DEF Performed, Declined
<1>5. ASSUME NEW r \in aReqs, Loaded(r) \/ Unheard(r) PROVE AdminBounds'
  BY <1>1, <1>5 DEF Loaded, Unheard
<1>6. ASSUME NEW r \in aReqs, NEW leg \in Legs, Read(r, leg) \/ ReadFails(r, leg) PROVE AdminBounds'
  BY <1>6 DEF Read, ReadFails
<1>7. ASSUME NEW r \in aReqs, NEW ls, NEW k, Done(r, ls, k) PROVE AdminBounds'
  BY <1>1, <1>7 DEF Done
<1> HIDE DEF AdminBounds
<1>8. ASSUME NEW r \in aReqs,
             \/ TeamDeleted(r) \/ MemberAdded(r) \/ MemberDeleted(r) \/ RoleChanged(r)
             \/ TokenCreated(r) \/ TokenDeleted(r) \/ AccountUnlinked(r)
             \/ ProviderSaved(r) \/ ProviderEdited(r) \/ ProviderDeleted(r)
             \/ WorkerDeleted(r)
             \/ SecretStored(r) \/ SecretUpdated(r) \/ SecretDeleted(r)
      PROVE  AdminBounds'
  BY <1>7, <1>8 DEF TeamDeleted, MemberAdded, MemberDeleted, RoleChanged, TokenCreated,
     TokenDeleted, AccountUnlinked, ProviderSaved, ProviderEdited, ProviderDeleted,
     WorkerDeleted, SecretStored, SecretUpdated, SecretDeleted
<1> QED BY <1>2, <1>3, <1>4, <1>5, <1>6, <1>8, Zenon DEF AdminNext

-----------------------------------------------------------------------------
(* ListTree: the resource the list view starts with is one that a get step   *)
(* of the pipeline names.                                                    *)

\* The smallest element of a set of naturals.
LEMMA Minimum ==
  ASSUME NEW S, S \subseteq Nat, S # {} PROVE \E m \in S : \A w \in S : m <= w
<1>1. IsWellFoundedOn(OpToRel(<, Nat), Nat)
  BY NatLessThanWellFounded
<1>2. PICK m \in S : \A y \in S : ~(<<y, m>> \in OpToRel(<, Nat))
  BY <1>1, WFMin
<1>3. \A y \in S : ~(y < m)
  BY <1>2 DEF OpToRel
<1> QED BY <1>3

Plans == jobs \in [JobNames -> Seq(Get)]

LEMMA FiniteTriggers == ASSUME Plans PROVE IsFiniteSet(Triggers)
<1> DEFINE Col(j) == {<<j, k>> : k \in DOMAIN jobs[j]}
           Cols == {Col(j) : j \in JobNames}
<1>1. ASSUME NEW j \in JobNames PROVE IsFiniteSet(Col(j))
  <2> DEFINE f == [k \in DOMAIN jobs[j] |-> <<j, k>>]
  <2>1. DOMAIN jobs[j] = 1..Len(jobs[j]) /\ Len(jobs[j]) \in Nat
    BY DEF Plans
  <2>2. IsFiniteSet(DOMAIN jobs[j])
    BY <2>1, FS_Interval
  <2>3. f \in Surjection(DOMAIN jobs[j], Col(j))
    BY DEF Surjection
  <2> QED BY <2>2, <2>3, FS_Surjection
<1>2. IsFiniteSet(Cols)
  <2> DEFINE f == [j \in JobNames |-> Col(j)]
  <2>1. IsFiniteSet(JobNames)
    BY ListAssumption, FS_Interval DEF JobNames
  <2>2. f \in Surjection(JobNames, Cols)
    BY DEF Surjection
  <2> QED BY <2>1, <2>2, FS_Surjection
<1>3. IsFiniteSet(UNION Cols)
  BY <1>1, <1>2, FS_UNION
<1>4. Triggers \in SUBSET UNION Cols
  BY DEF Triggers
<1> QED BY <1>3, <1>4, FS_Subset

LEMMA TriggerIs ==
  ASSUME Plans, NEW x \in Triggers
  PROVE  x = <<x[1], x[2]>> /\ x[1] \in Nat /\ x[2] \in Nat /\ GetAt(x).r \in Gets
<1>1. PICK j \in JobNames : \E k \in DOMAIN jobs[j] : x = <<j, k>>
  BY DEF Triggers
<1>2. PICK k \in DOMAIN jobs[j] : x = <<j, k>>
  BY <1>1
<1>3. jobs[j] \in Seq(Get) /\ j \in Nat
  BY ListAssumption DEF Plans, JobNames
<1>4. k \in 1..Len(jobs[j]) /\ jobs[j][k] \in Get
  BY <1>3
<1> QED BY <1>2, <1>3, <1>4 DEF GetAt, Get

\* Of the places found one comes first.
LEMMA FirstFound ==
  ASSUME Plans, Found # {} PROVE \E x \in Found : \A y \in Found : ~Precedes(y, x)
<1>1. Found \subseteq Triggers
  BY DEF Found
<1>2. PICK a \in {x[1] : x \in Found} : \A w \in {x[1] : x \in Found} : a <= w
  <2>1. {x[1] : x \in Found} \subseteq Nat /\ {x[1] : x \in Found} # {}
    BY <1>1, TriggerIs
  <2> QED BY <2>1, Minimum
<1>3. PICK b \in {x[2] : x \in {z \in Found : z[1] = a}} :
          \A w \in {x[2] : x \in {z \in Found : z[1] = a}} : b <= w
  <2>1. {x[2] : x \in {z \in Found : z[1] = a}} \subseteq Nat
    BY <1>1, TriggerIs
  <2>2. {x[2] : x \in {z \in Found : z[1] = a}} # {}
    BY <1>2
  <2> QED BY <2>1, <2>2, Minimum
<1>4. PICK x \in Found : x[1] = a /\ x[2] = b
  BY <1>3
<1>5. a \in Nat /\ b \in Nat
  BY <1>1, <1>4, TriggerIs
<1>6. ASSUME NEW y \in Found, Precedes(y, x) PROVE FALSE
  <2>1. y[1] \in Nat /\ y[2] \in Nat /\ a <= y[1]
    BY <1>1, <1>2, TriggerIs
  <2>2. y[1] = a /\ y[2] < b
    BY <1>4, <1>5, <1>6, <2>1 DEF Precedes
  <2> QED BY <1>3, <1>5, <2>1, <2>2
<1> QED BY <1>6

\* The resource shown first is one a get step names, or there is none to show.
LEMMA FirstTrigger ==
  Plans => findTriggerResources = <<>> \/ findTriggerResources[1] \in Gets
<1> SUFFICES ASSUME Plans PROVE findTriggerResources = <<>> \/ findTriggerResources[1] \in Gets
  OBVIOUS
<1>1. IsFiniteSet(Found) /\ Found \subseteq Triggers
  BY FiniteTriggers, FS_Subset DEF Found
<1>2. Cardinality(Found) \in Nat /\ (Cardinality(Found) = 0 <=> Found = {})
  BY <1>1, FS_EmptySet, FS_CardinalityType
<1>3. CASE Found = {}
  <2>1. 1..Cardinality(Found) = {}
    BY <1>2, <1>3
  <2> QED BY <2>1 DEF findTriggerResources
<1>4. CASE Found # {}
  <2> DEFINE Is(x) == Cardinality({y \in Found : Precedes(y, x)}) = 1 - 1
  <2>1. PICK z \in Found : \A y \in Found : ~Precedes(y, z)
    BY <1>4, FirstFound
  <2>2. {y \in Found : Precedes(y, z)} = {}
    BY <2>1
  <2>3. Is(z)
    BY <2>2, FS_EmptySet
  <2>4. 1 \in 1..Cardinality(Found)
    BY <1>2, <1>4
  <2>5. findTriggerResources[1] = GetAt(CHOOSE x \in Found : Is(x)).r
    BY <2>4 DEF findTriggerResources
  <2> HIDE DEF Is
  <2>6. PICK x : x = CHOOSE y \in Found : Is(y)
    OBVIOUS
  <2>7. x \in Found
    BY <2>3, <2>6
  <2> QED BY <1>1, <2>5, <2>6, <2>7, TriggerIs
<1> QED BY <1>3, <1>4

ListTypes == Plans /\ resource \in Gets \union {NoResource}

LEMMA ListTyped == ListTypes => ListTypeOK
  BY DEF ListTypes, Plans, ListTypeOK

LEMMA NextListTypes == ASSUME ListTypes, ListNext PROVE ListTypes'
<1>1. CASE OpenList
  <2>1. Plans'
    BY <1>1, ListAssumption DEF OpenList, Plans, JobNames
  <2>2. (Plans => findTriggerResources = <<>> \/ findTriggerResources[1] \in Gets)'
    BY FirstTrigger, PTL
  <2>3. findTriggerResources' = <<>> \/ findTriggerResources'[1] \in Gets
    BY <2>1, <2>2
  <2>4. resource' = IF findTriggerResources' = <<>> THEN NoResource ELSE findTriggerResources'[1]
    BY <1>1 DEF OpenList
  <2> QED BY <2>1, <2>3, <2>4 DEF ListTypes
<1>2. CASE LeaveList
  <2>1. \A j \in JobNames : <<>> \in Seq(Get)
    OBVIOUS
  <2> QED BY <1>2, <2>1 DEF LeaveList, ListTypes, Plans
<1>3. ASSUME NEW r \in Gets, ChooseResource(r) PROVE ListTypes'
  BY <1>3 DEF ChooseResource, ListTypes, Plans
<1> QED BY <1>1, <1>2, <1>3 DEF ListNext

-----------------------------------------------------------------------------
(* The pages together, with their types. *)

WebTypes ==
    /\ busy \subseteq Commands /\ ListTypes /\ ResourceTypes /\ GraphTypes /\ EditorTypeOK
    /\ SessionTypeOK /\ GridRest /\ AdminBounds

WebInv == PagesInv /\ WebTypes

LEMMA InitTypes == WebInit => WebTypes
<1> SUFFICES ASSUME WebInit PROVE WebTypes
  OBVIOUS
<1>1. ContentIdle /\ ListIdle /\ ResourceIdle /\ GraphIdle /\ EditorIdle /\ SessionIdle
      /\ GridIdle /\ AdminIdle
  BY DEF WebInit
<1>2. busy \subseteq Commands
  BY <1>1 DEF ContentIdle
<1>3. ListTypes
  <2>1. \A j \in JobNames : <<>> \in Seq(Get)
    OBVIOUS
  <2> QED BY <1>1, <2>1 DEF ListIdle, ListTypes, Plans
<1>4. ResourceTypes
  <2>1. vMore = FALSE /\ vFetching = FALSE /\ behind = FALSE
    BY <1>1 DEF ResourceIdle
  <2>2. vMore \in BOOLEAN /\ vFetching \in BOOLEAN /\ behind \in BOOLEAN
    BY <2>1, Zenon
  <2>3. /\ latest = 0 /\ pinnedAt = 0 /\ versions = {} /\ vOldest = 0 /\ vPinned = -1
        /\ fetches = {}
    BY <1>1 DEF ResourceIdle
  <2> QED BY <2>2, <2>3, ResourceAssumption DEF ResourceTypes, ResourceTypeOK
<1>5. GraphTypes
  <2>1. gZoom = FALSE /\ gParent = FALSE /\ gSuppress = FALSE
    BY <1>1 DEF GraphIdle
  <2>2. gZoom \in BOOLEAN /\ gParent \in BOOLEAN /\ gSuppress \in BOOLEAN
    BY <2>1, Zenon
  <2>3. gBox \in [Svgs -> Views \union {NoView}]
    BY <1>1 DEF GraphIdle
  <2>4. /\ gCount = 0 /\ gTodo = 0 /\ gEl = {} /\ gSvg = 0 /\ gView = NoView
        /\ gOverlay = 0 /\ gKeys = 0 /\ gPan = "no"
    BY <1>1 DEF GraphIdle
  <2>5. /\ gCount \in 0..MaxRenders /\ gTodo \in 0..MaxRenders /\ gSvg \in 0..MaxRenders
        /\ gOverlay \in 0..MaxRenders /\ gKeys \in 0..1 /\ gEl \subseteq 0..MaxRenders
    BY <2>4, ZoomAssumption
  <2> QED BY <2>2, <2>3, <2>4, <2>5, Zenon DEF GraphTypes, GraphTypeOK
<1>6. EditorTypeOK
  <2>1. EditorNumbers
    BY <1>1, EditorAssumption DEF EditorIdle, EditorNumbers, Texts
  <2>2. EditorFlags
    BY <1>1 DEF EditorIdle, EditorFlags
  <2> QED BY <2>1, <2>2, EditorParts
<1>7. SessionTypeOK
  <2>1. Out \in Sessions /\ 0 \in 0..MaxGen
    BY SessionAssumption DEF Out, Sessions
  <2>2. SessionNumbers
    BY <1>1, <2>1 DEF SessionIdle, SessionNumbers, Routes
  <2>3. SessionFlags
    BY <1>1 DEF SessionIdle, SessionFlags
  <2> QED BY <2>2, <2>3, SessionParts
<1>8. GridRest
  <2>1. lTimer = FALSE /\ lMissed = TRUE
    BY <1>1 DEF GridIdle
  <2>2. lTimer \in BOOLEAN /\ lMissed \in BOOLEAN
    BY <2>1, Zenon
  <2>3. NoShown.at \in ListState
    BY GridAssumption DEF NoShown, ListState, SORTS
  <2>4. lEdits = 0 /\ lReqs = {} /\ lShown = NoShown
    BY <1>1 DEF GridIdle
  <2> QED BY <2>2, <2>3, <2>4, GridAssumption DEF GridRest
<1>9. AdminBounds
  BY <1>1, AdminAssumption DEF AdminIdle, AdminBounds
<1> QED BY <1>2, <1>3, <1>4, <1>5, <1>6, <1>7, <1>8, <1>9 DEF WebTypes

\* Each part of the types, by the step of its own page or left alone.
LEMMA NextTypes == WebInv /\ PagesInv' /\ [WebNext]_<<page, webVars>> => WebTypes'
<1> SUFFICES ASSUME WebInv, PagesInv', [WebNext]_<<page, webVars>> PROVE WebTypes'
  OBVIOUS
<1>0. /\ ResourceInv /\ ResourceInv' /\ ZoomInv /\ SessionInv /\ GridInv /\ AdminInv
      /\ busy \subseteq Commands /\ ListTypes /\ ResourceTypes /\ GraphTypes /\ EditorTypeOK
      /\ SessionTypeOK /\ GridRest /\ AdminBounds
  BY DEF WebInv, PagesInv, WebTypes
<1>1. busy' \subseteq Commands
  <2>1. ContentNext \/ UNCHANGED contentVars
    BY DEF WebNext, webVars, JobPage, ListPage, ResourcePage, GraphPage, EditorPage, SessionPages,
       PipelinesPage, AdminPages
  <2> QED BY <1>0, <2>1, NextBusy DEF contentVars
<1>2. ListTypes'
  <2>1. ListNext \/ UNCHANGED listTreeVars
    BY DEF WebNext, webVars, JobPage, ListPage, ResourcePage, GraphPage, EditorPage, SessionPages,
       PipelinesPage, AdminPages
  <2> QED BY <1>0, <2>1, NextListTypes DEF listTreeVars, ListTypes, Plans
<1>3. ResourceTypes'
  <2>1. ResourceNext \/ UNCHANGED resourceVars
    BY DEF WebNext, webVars, JobPage, ListPage, ResourcePage, GraphPage, EditorPage, SessionPages,
       PipelinesPage, AdminPages
  <2>2. CASE UNCHANGED resourceVars
    BY <1>0, <2>2 DEF resourceVars, ResourceTypes, ResourceTypeOK
  <2> QED BY <1>0, <2>1, <2>2, NextResourceTypes
<1>4. GraphTypes'
  <2>1. GraphNext \/ UNCHANGED zoomVars
    BY DEF WebNext, webVars, JobPage, ListPage, ResourcePage, GraphPage, EditorPage, SessionPages,
       PipelinesPage, AdminPages
  <2>2. CASE UNCHANGED zoomVars
    BY <1>0, <2>2 DEF zoomVars, GraphTypes, GraphTypeOK
  <2> QED BY <1>0, <2>1, <2>2, NextGraphTypes
<1>5. EditorTypeOK'
  <2>1. EditorNext \/ UNCHANGED editorVars
    BY DEF WebNext, webVars, JobPage, ListPage, ResourcePage, GraphPage, EditorPage, SessionPages,
       PipelinesPage, AdminPages
  <2>2. CASE UNCHANGED editorVars
    BY <1>0, <2>2 DEF editorVars, EditorTypeOK
  <2>3. CASE EditorNext
    <3>1. EditorFlags' /\ EditorNumbers'
      BY <1>0, <2>3, EditorParts, NextEditorFlags, NextEditorNumbers
    <3> QED BY <3>1 DEF EditorFlags, EditorNumbers, EditorTypeOK
  <2> QED BY <2>1, <2>2, <2>3
<1>6. SessionTypeOK'
  <2>1. SessionNext \/ UNCHANGED sessionVars
    BY DEF WebNext, webVars, JobPage, ListPage, ResourcePage, GraphPage, EditorPage, SessionPages,
       PipelinesPage, AdminPages
  <2>2. CASE UNCHANGED sessionVars
    BY <1>0, <2>2 DEF sessionVars, SessionTypeOK
  <2>3. CASE SessionNext
    <3>1. SessionFlags' /\ SessionNumbers'
      BY <1>0, <2>3, SessionParts, NextSessionFlags, NextSessionNumbers
    <3> QED BY <3>1 DEF SessionFlags, SessionNumbers, SessionTypeOK
  <2> QED BY <2>1, <2>2, <2>3
<1>7. GridRest'
  <2>1. GridNext \/ UNCHANGED gridVars
    BY DEF WebNext, webVars, JobPage, ListPage, ResourcePage, GraphPage, EditorPage, SessionPages,
       PipelinesPage, AdminPages
  <2>2. CASE UNCHANGED gridVars
    BY <1>0, <2>2 DEF gridVars, GridRest
  <2> QED BY <1>0, <2>1, <2>2, NextGridRest
<1>8. AdminBounds'
  <2>1. AdminNext \/ UNCHANGED adminVars
    BY DEF WebNext, webVars, JobPage, ListPage, ResourcePage, GraphPage, EditorPage, SessionPages,
       PipelinesPage, AdminPages
  <2>2. CASE UNCHANGED adminVars
    BY <1>0, <2>2 DEF adminVars, AdminBounds
  <2> QED BY <1>0, <2>1, <2>2, NextAdminBounds
<1> QED BY <1>1, <1>2, <1>3, <1>4, <1>5, <1>6, <1>7, <1>8 DEF WebTypes

\* The cells of every page have their types in every behaviour of the web
\* interface, whichever pages are visited (useState and useRef of the components).
THEOREM PagesTyped == WebSpec => []WebTypeOK
<1>1. WebInv => WebTypeOK
  <2> SUFFICES ASSUME WebInv PROVE WebTypeOK
    OBVIOUS
  <2>1. ContentTypeOK
    BY ContentTyped DEF WebInv, PagesInv, WebTypes
  <2>2. ListTypeOK
    BY ListTyped DEF WebInv, WebTypes
  <2>3. ResourceTypeOK /\ GraphTypeOK /\ EditorTypeOK /\ SessionTypeOK
    BY DEF WebInv, WebTypes, ResourceTypes, GraphTypes
  <2>4. GridTypeOK
    BY GridTyped DEF WebInv, PagesInv, WebTypes
  <2>5. AdminTypeOK
    BY AdminTyped DEF WebInv, PagesInv, WebTypes
  <2> QED BY <2>1, <2>2, <2>3, <2>4, <2>5 DEF WebTypeOK
<1>2. WebInit => WebInv
  BY InitPages, InitTypes DEF WebInv
<1>3. WebInv /\ [WebNext]_<<page, webVars>> => WebInv'
  BY NextPages, NextTypes DEF WebInv
<1> QED BY <1>1, <1>2, <1>3, PTL DEF WebSpec

\* What each page promises while it is the only one holds in the whole web interface,
\* whichever pages the user visits, leaves and comes back to: the router unmounts a
\* page that is left, and no other page touches its cells (Router of app.js).
THEOREM PagesKeepTheirWord ==
  WebSpec => [](/\ ContentSettled /\ VersionsWhole /\ GraphKept /\ PreviewCurrent
                /\ SessionSound /\ GridCurrent /\ AdminListTrue)
<1>1. PagesInv => /\ ContentSettled /\ VersionsWhole /\ GraphKept /\ PreviewCurrent
                  /\ SessionSound /\ GridCurrent /\ AdminListTrue
  BY ContentPromise, ResourcePromise, GraphPromise, EditorPromise, SessionPromise, GridPromise,
     AdminPromise DEF PagesInv
<1> QED BY <1>1, InitPages, NextPages, PTL DEF WebSpec
=============================================================================
