------------------------------ MODULE GraphZoom ------------------------------
(***************************************************************************)
(* The drawing of a pipeline's graph (PipelineGraph.js) and the object     *)
(* that zooms, pans and shows it in a fullscreen overlay (graph-zoom.js),  *)
(* as PipelineShow.js puts them together.                                  *)
(*                                                                         *)
(* Every poll that changes the graph makes a new svg element, also while   *)
(* the old one is being dragged or is in the overlay.  An svg is a number; *)
(* a view box is its zoom and its place, the size of the graph is left     *)
(* out.                                                                    *)
(***************************************************************************)
EXTENDS Router, Integers

CONSTANTS
    MaxRenders, \* bound: graphs drawn while the page is open
    MinZoom,    \* notches of ZOOM_FACTOR down to MIN_ZOOM
    MaxZoom,    \* notches up to MAX_ZOOM
    Places      \* where a view box may be panned to; 0 is the centre

ASSUME ZoomAssumption ==
    /\ MaxRenders \in Nat /\ MinZoom \in Nat /\ MaxZoom \in Nat
    /\ 0 \in Places

VARIABLES
    gCount,     \* graphs received so far
    gTodo,      \* the graph that is being drawn, 0 for none
    gEl,        \* the children of #pipeline-graph: svgs, and 0 for an error text
    gZoom,      \* the PikoGraphZoom object exists
    gSvg,       \* this.svg, 0 for null
    gView,      \* currentViewBox and zoomLevel
    gBox,       \* the viewBox attribute of each svg
    gOverlay,   \* the svg in the fullscreen overlay, 0 without an overlay
    gParent,    \* _svgParent is #pipeline-graph
    gPan,       \* "no", "start", "dragged": isPanning and panStart
    gSuppress,  \* _suppressClick
    gKeys       \* keydown listeners on the document

zoomVars == <<gCount, gTodo, gEl, gZoom, gSvg, gView, gBox, gOverlay, gParent,
              gPan, gSuppress, gKeys>>
drawing == <<gCount, gTodo, gEl>>
viewing == <<gSvg, gView, gBox>>
screen == <<gOverlay, gParent, gKeys>>
mouse == <<gPan, gSuppress>>

Svgs == 1..MaxRenders
NoView == [zoom |-> MaxZoom + 1, at |-> 0]
Home == [zoom |-> 0, at |-> 0]
Views == [zoom : (-MinZoom)..MaxZoom, at : Places]

\* Mutant: no limits.
Clamp_Open(z) == z

Clamp(z) == IF z < -MinZoom THEN -MinZoom ELSE IF z > MaxZoom THEN MaxZoom ELSE z

-----------------------------------------------------------------------------
GraphIdle ==
    /\ gCount = 0 /\ gTodo = 0 /\ gEl = {}
    /\ gZoom = FALSE /\ gSvg = 0 /\ gView = NoView
    /\ gBox = [s \in Svgs |-> NoView]
    /\ gOverlay = 0 /\ gParent = FALSE /\ gKeys = 0
    /\ gPan = "no" /\ gSuppress = FALSE

OpenGraph == Enter("graph") /\ UNCHANGED zoomVars

\* dotSource changes: the effect's cleanup cancels a drawing that is under way
GraphChanged ==
    /\ On("graph") /\ gCount < MaxRenders
    /\ gCount' = gCount + 1 /\ gTodo' = gCount + 1
    /\ UNCHANGED <<gEl, gZoom, viewing, screen, mouse>>

\* Mutant: the new drawing keeps its own view box.
attachSVG_OwnBox(s) ==
    /\ gSvg' = s
    /\ gView' = IF gView = NoView THEN Home ELSE gView
    /\ gBox' = [gBox EXCEPT ![s] = Home]

\* attachSVG: the view the user has chosen goes on, a first one is made
attachSVG(s) ==
    /\ gSvg' = s
    /\ gView' = IF gView = NoView THEN Home ELSE gView
    /\ gBox' = [gBox EXCEPT ![s] = gView']

\* Viz has drawn the graph: it replaces the contents, wherever the old svg is
Drawn ==
    /\ On("graph") /\ gTodo > 0
    /\ gEl' = {gTodo} /\ gTodo' = 0
    /\ gZoom' = TRUE
    /\ attachSVG(gTodo)
    /\ UNCHANGED <<gCount, screen, mouse>>

DrawingFails ==
    /\ On("graph") /\ gTodo > 0
    /\ gEl' = {0} /\ gTodo' = 0
    /\ UNCHANGED <<gCount, gZoom, viewing, screen, mouse>>

-----------------------------------------------------------------------------
(* The view box. *)

applyViewBox == gBox' = IF gSvg = 0 THEN gBox ELSE [gBox EXCEPT ![gSvg] = gView']

\* zoomIn, zoomOut, the wheel and pinching: around the centre or a point
ZoomBy(d, p) ==
    /\ On("graph") /\ gZoom /\ gView # NoView
    /\ gView' = [zoom |-> Clamp(gView.zoom + d), at |-> p]
    /\ applyViewBox
    /\ UNCHANGED <<drawing, gZoom, gSvg, screen, mouse>>

reset ==
    /\ On("graph") /\ gZoom /\ gView # NoView
    /\ gView' = Home
    /\ applyViewBox
    /\ UNCHANGED <<drawing, gZoom, gSvg, screen, mouse>>

-----------------------------------------------------------------------------
(* Dragging.  The mouse is followed on the window, so that it may be let go *)
(* anywhere.                                                                *)

onPanStart ==
    /\ On("graph") /\ gZoom
    /\ gPan' = "start"
    /\ UNCHANGED <<drawing, gZoom, viewing, screen, gSuppress>>

onPanMove(p) ==
    /\ On("graph") /\ gPan # "no" /\ gSvg # 0
    /\ gPan' = "dragged"
    /\ gView' = [gView EXCEPT !.at = p]
    /\ applyViewBox
    /\ UNCHANGED <<drawing, gZoom, gSvg, screen, gSuppress>>

onPanEnd ==
    /\ On("graph") /\ gPan # "no"
    /\ gSuppress' = (gSuppress \/ gPan = "dragged")
    /\ gPan' = "no"
    /\ UNCHANGED <<drawing, gZoom, viewing, screen>>

\* the click that ends a drag is swallowed
SwallowClick ==
    /\ On("graph") /\ gSuppress /\ gPan = "no"
    /\ gSuppress' = FALSE
    /\ UNCHANGED <<drawing, gZoom, viewing, screen, gPan>>

-----------------------------------------------------------------------------
(* Fullscreen. *)

\* the svg moves into the overlay and remembers where it was
enterFullscreen ==
    /\ On("graph") /\ gZoom /\ gOverlay = 0 /\ gSvg # 0
    /\ gParent' = (gSvg \in gEl)
    /\ gEl' = gEl \ {gSvg}
    /\ gOverlay' = gSvg
    /\ gKeys' = gKeys + 1
    /\ UNCHANGED <<gCount, gTodo, gZoom, viewing, mouse>>

\* the svg that is attached by now goes back, and the overlay is removed with
\* whatever it holds
Exited ==
    /\ gEl' = IF gParent THEN gEl \union {gSvg} ELSE gEl
    /\ gOverlay' = 0
    /\ gKeys' = gKeys - 1

exitFullscreen ==
    /\ On("graph") /\ gOverlay # 0
    /\ Exited
    /\ UNCHANGED <<gCount, gTodo, gZoom, viewing, gParent, mouse>>

-----------------------------------------------------------------------------
\* The page is unmounted, also by a click on a job that no drag swallows.
\* destroy leaves fullscreen first; the elements go with the page.
destroy ==
    /\ Leave("graph")
    /\ gKeys' = IF gOverlay # 0 THEN gKeys - 1 ELSE gKeys
    /\ gOverlay' = 0
    /\ gCount' = 0 /\ gTodo' = 0 /\ gEl' = {}
    /\ gZoom' = FALSE /\ gSvg' = 0 /\ gView' = NoView
    /\ gBox' = [s \in Svgs |-> NoView]
    /\ gParent' = FALSE /\ gPan' = "no" /\ gSuppress' = FALSE

GraphNext ==
    \/ OpenGraph \/ destroy \/ GraphChanged \/ Drawn \/ DrawingFails
    \/ reset \/ onPanStart \/ onPanEnd \/ SwallowClick
    \/ enterFullscreen \/ exitFullscreen
    \/ \E p \in Places : onPanMove(p) \/ \E d \in {-1, 1} : ZoomBy(d, p)

GraphSpec == page = Elsewhere /\ GraphIdle /\ [][GraphNext]_<<page, zoomVars>>

-----------------------------------------------------------------------------
GraphTypeOK ==
    /\ gCount \in 0..MaxRenders /\ gTodo \in 0..MaxRenders
    /\ gEl \subseteq 0..MaxRenders /\ gSvg \in 0..MaxRenders
    /\ gZoom \in BOOLEAN /\ gParent \in BOOLEAN /\ gSuppress \in BOOLEAN
    /\ gView \in Views \union {NoView}
    /\ gBox \in [Svgs -> Views \union {NoView}]
    /\ gOverlay \in 0..MaxRenders /\ gKeys \in 0..1
    /\ gPan \in {"no", "start", "dragged"}

\* Outside the overlay the page shows one graph, the last one that could be
\* drawn, with the zoom and the place the user has chosen, however polls that
\* redraw it fall between dragging, zooming and entering and leaving fullscreen
\* (attachSVG, enterFullscreen, exitFullscreen); and no key handler is left.
\* While an error text has taken the graph's place the view is not spoken of.
GraphKept ==
    /\ gOverlay = 0 /\ gSvg # 0 /\ 0 \notin gEl =>
          gEl = {gSvg} /\ gBox[gSvg] = gView
    /\ gOverlay = 0 => gKeys = 0
=============================================================================
