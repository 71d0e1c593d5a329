------------------------------- MODULE Editor -------------------------------
(***************************************************************************)
(* The pipeline editor (assets/js/app/components/Editor.js): a text that   *)
(* is previewed 500 ms after the last key, answers that come back in any   *)
(* order, the marks of the errors, and saving.                             *)
(*                                                                         *)
(* A text is the number of edits that led to it; whether it is a valid     *)
(* pipeline is decided by the server.                                      *)
(***************************************************************************)
EXTENDS Router, Integers, FiniteSets

CONSTANTS
    MaxEdits,       \* bound: edits while the page is open
    Invalid,        \* the texts the server finds errors in
    MaxPreviews,    \* bound: previews in flight
    EditorPanels    \* the panels that are toggled: docs, blocks, graph, strip

ASSUME EditorAssumption ==
    /\ MaxEdits \in Nat /\ Invalid \subseteq 0..MaxEdits /\ MaxPreviews \in Nat

VARIABLES
    eLoaded,    \* the pipeline to edit has been fetched; a new one needs none
    eText,      \* the document
    eEmpty,     \* the text the editor was opened with is empty, as for a new pipeline
    eTimer,     \* the preview timer is armed
    eVars,      \* vars.json parses
    ePreviews,  \* preview requests in flight: the text each was sent with
    eDraws,     \* the texts whose graphs are being drawn
    eGraph,     \* the text whose graph is drawn, -1 for none
    eFailed,    \* the text whose drawing failed, in place of a graph, -1 for none
    eMarks,     \* the text whose errors are marked, -1 for none
    eBlocks,    \* the text the blocks panel was built from, -1 at first
    eSaves,     \* saves in flight: the text of each
    ePanels,    \* panels that are open
    eFull,      \* the card is fullscreen
    eBody,      \* the class piko-fullscreen of the document's body
    eSeen,      \* history: the newest text a preview was shown for
    eSpoiled    \* history: a preview or drawing was overtaken, a preview was lost,
                \* came without an image, or was not sent because of vars.json

editorVars == <<eLoaded, eText, eEmpty, eTimer, eVars, ePreviews, eDraws, eGraph, eFailed,
                eMarks, eBlocks, eSaves, ePanels, eFull, eBody, eSeen, eSpoiled>>
document == <<eLoaded, eText, eEmpty>>
drawn == <<eDraws, eGraph, eFailed>>
previewed == <<drawn, eMarks, eBlocks, eSeen, eSpoiled>>
layout == <<ePanels, eFull, eBody>>

Texts == 0..MaxEdits

-----------------------------------------------------------------------------
EditorIdle ==
    /\ eLoaded = FALSE /\ eText = 0 /\ eEmpty = FALSE
    /\ eTimer = FALSE /\ eVars = TRUE /\ ePreviews = {} /\ eDraws = {}
    /\ eGraph = -1 /\ eFailed = -1 /\ eMarks = -1 /\ eBlocks = -1
    /\ eSaves = {}
    /\ ePanels = {} /\ eFull = FALSE /\ eBody = FALSE
    /\ eSeen = -1 /\ eSpoiled = FALSE

\* changePipeline: the text of this moment is sent, unless vars.json is broken
changePipeline ==
    IF eVars
    THEN ePreviews' = ePreviews \union {eText'} /\ eSpoiled' = eSpoiled
    ELSE ePreviews' = ePreviews /\ eSpoiled' = TRUE

\* updateBlocksPanel reads the document of this moment
updateBlocksPanel == eBlocks' = eText'

\* PipelineNew shows the editor at once; PipelineEdit fetches the pipeline first
PipelineNew ==
    /\ Enter("editor")
    /\ eLoaded' = TRUE /\ eEmpty' = TRUE /\ eText' = 0
    /\ updateBlocksPanel
    /\ UNCHANGED <<eTimer, eVars, ePreviews, drawn, eMarks, eSeen, eSpoiled, eSaves, layout>>

PipelineEdit ==
    /\ Enter("editor")
    /\ UNCHANGED editorVars

\* the effect that creates the editor: blocks, and a preview of what there is.  A
\* pipeline that cannot be fetched gets no editor.
PipelineFetched ==
    /\ On("editor") /\ ~eLoaded
    /\ eLoaded' = TRUE /\ eText' = 0
    /\ \/ eEmpty' = TRUE /\ UNCHANGED <<ePreviews, eSpoiled>>
       \/ eEmpty' = FALSE /\ changePipeline
    /\ updateBlocksPanel
    /\ UNCHANGED <<eTimer, eVars, drawn, eMarks, eSeen, eSaves, layout>>

-----------------------------------------------------------------------------
(* Editing. *)

\* the update listener: the timer starts again
Type ==
    /\ On("editor") /\ eLoaded /\ eText < MaxEdits
    /\ eText' = eText + 1
    /\ eTimer' = TRUE
    /\ UNCHANGED <<eLoaded, eEmpty, eVars, ePreviews, previewed, eSaves, layout>>

\* vars.json is edited, which previews nothing
EditVars ==
    /\ On("editor") /\ eLoaded
    /\ eVars' = ~eVars
    /\ UNCHANGED <<document, eTimer, ePreviews, previewed, eSaves, layout>>

PreviewTimer ==
    /\ On("editor") /\ eTimer /\ Cardinality(ePreviews) < MaxPreviews
    /\ eTimer' = FALSE
    /\ UNCHANGED <<document, eVars, drawn, eMarks, eSeen, eSaves, layout>>
    /\ changePipeline
    /\ updateBlocksPanel

\* an answer about text t is shown after one about a newer text
Overtaken(t) ==
    /\ eSeen' = IF t > eSeen THEN t ELSE eSeen
    /\ eSpoiled' = (eSpoiled \/ t < eSeen)

\* The answer about text t has an image, which is drawn from now on; without one
\* the graph stays as it is.
Draw(t) ==
    /\ UNCHANGED <<eGraph, eFailed>>
    /\ \/ eDraws' = eDraws \union {t} /\ Overtaken(t)
       \/ UNCHANGED <<eDraws, eSeen>> /\ eSpoiled' = TRUE

\* Mutant: the marks of an earlier answer stay.
PreviewShown_Marked(t) ==
    /\ On("editor") /\ t \in ePreviews /\ t \notin Invalid
    /\ ePreviews' = ePreviews \ {t}
    /\ UNCHANGED <<document, eTimer, eVars, eSaves, layout>>
    /\ eMarks' = eMarks
    /\ updateBlocksPanel
    /\ Draw(t)

\* clearEditorErrors and renderGraphToContainer
PreviewShown(t) ==
    /\ On("editor") /\ t \in ePreviews /\ t \notin Invalid
    /\ ePreviews' = ePreviews \ {t}
    /\ UNCHANGED <<document, eTimer, eVars, eSaves, layout>>
    /\ eMarks' = -1
    /\ updateBlocksPanel
    /\ Draw(t)

\* renderGraphSVG is done with text t.  Drawings come to an end in any order, and
\* each replaces what its container holds.  (One container stands for both.)
DrawingEnds(t) ==
    /\ On("editor") /\ t \in eDraws
    /\ eDraws' = eDraws \ {t}
    /\ eSpoiled' = (eSpoiled \/ t < eGraph \/ t < eFailed)
    /\ UNCHANGED <<document, eTimer, eVars, ePreviews, eMarks, eBlocks, eSeen, eSaves, layout>>

PreviewDrawn(t) == DrawingEnds(t) /\ eGraph' = t /\ eFailed' = -1

\* An error box takes the place of the graph.
PreviewDrawFails(t) == DrawingEnds(t) /\ eGraph' = -1 /\ eFailed' = t

\* showEditorErrors: the errors of text t are marked in the text of this moment;
\* the graph stays
showEditorErrors(t) ==
    /\ On("editor") /\ t \in ePreviews /\ t \in Invalid
    /\ ePreviews' = ePreviews \ {t}
    /\ UNCHANGED <<document, eTimer, eVars, drawn, eSaves, layout>>
    /\ eMarks' = t
    /\ updateBlocksPanel
    /\ Overtaken(t)

\* the request is lost: its message names no place in the text
PreviewLost(t) ==
    /\ On("editor") /\ t \in ePreviews
    /\ ePreviews' = ePreviews \ {t}
    /\ UNCHANGED <<document, eTimer, eVars, drawn, eSeen, eSaves, layout>>
    /\ eMarks' = -1
    /\ updateBlocksPanel
    /\ eSpoiled' = TRUE

-----------------------------------------------------------------------------
(* Saving: the button can be pressed again while a save is in flight. *)

handleSubmit ==
    /\ On("editor") /\ eLoaded /\ eVars
    /\ eSaves' = eSaves \union {eText}
    /\ UNCHANGED <<document, eTimer, eVars, ePreviews, previewed, layout>>

\* the save fails, or creates a pipeline and the answer does not name it: the editor
\* stays
SaveFails(t) ==
    /\ On("editor") /\ t \in eSaves
    /\ eSaves' = eSaves \ {t}
    /\ UNCHANGED <<document, eTimer, eVars, ePreviews, previewed, layout>>

Cleared ==
    /\ eLoaded' = FALSE /\ eText' = 0 /\ eEmpty' = FALSE
    /\ eTimer' = FALSE /\ eVars' = TRUE /\ ePreviews' = {} /\ eDraws' = {}
    /\ eGraph' = -1 /\ eFailed' = -1 /\ eMarks' = -1 /\ eBlocks' = -1
    /\ eSaves' = {}
    /\ ePanels' = {} /\ eFull' = FALSE
    /\ eSeen' = -1 /\ eSpoiled' = FALSE

\* The cleanup of the effect: timer, editor, listeners and the body's class.
CloseEditor ==
    /\ Leave("editor")
    /\ Cleared
    /\ eBody' = FALSE

\* onSaveSuccess: the route changes, which unmounts the editor
onSaveSuccess(t) ==
    /\ t \in eSaves /\ t \notin Invalid
    /\ CloseEditor

-----------------------------------------------------------------------------
(* Layout. *)

\* toggleDocs, toggleBlocks, toggleGraphPanel, toggleGraphStrip
TogglePanel(p) ==
    /\ On("editor") /\ eLoaded
    /\ ePanels' = IF p \in ePanels THEN ePanels \ {p} ELSE ePanels \union {p}
    /\ UNCHANGED <<document, eTimer, eVars, ePreviews, previewed, eSaves, eFull, eBody>>

\* the button toggles the card and the body; Escape leaves
toggleFullscreen ==
    /\ On("editor") /\ eLoaded
    /\ eFull' = ~eFull /\ eBody' = ~eFull
    /\ UNCHANGED <<document, eTimer, eVars, ePreviews, previewed, eSaves, ePanels>>

escHandler ==
    /\ On("editor") /\ eFull
    /\ eFull' = FALSE /\ eBody' = FALSE
    /\ UNCHANGED <<document, eTimer, eVars, ePreviews, previewed, eSaves, ePanels>>

EditorNext ==
    \/ PipelineNew \/ PipelineEdit \/ PipelineFetched \/ CloseEditor
    \/ Type \/ EditVars \/ PreviewTimer \/ handleSubmit
    \/ toggleFullscreen \/ escHandler
    \/ \E t \in Texts : \/ PreviewShown(t) \/ showEditorErrors(t) \/ PreviewLost(t)
                        \/ PreviewDrawn(t) \/ PreviewDrawFails(t)
                        \/ SaveFails(t) \/ onSaveSuccess(t)
    \/ \E p \in EditorPanels : TogglePanel(p)

EditorSpec == page = Elsewhere /\ EditorIdle /\ [][EditorNext]_<<page, editorVars>>

-----------------------------------------------------------------------------
EditorTypeOK ==
    /\ eText \in Texts
    /\ {eLoaded, eEmpty, eTimer, eVars, eFull, eBody, eSpoiled} \subseteq BOOLEAN
    /\ ePreviews \subseteq Texts /\ eDraws \subseteq Texts /\ eSaves \subseteq Texts
    /\ {eGraph, eFailed, eMarks, eBlocks, eSeen} \subseteq Texts \union {-1}
    /\ ePanels \subseteq EditorPanels

\* When the user has stopped typing, every preview has come back and everything is
\* drawn, the page is about the text that is there: its errors are marked, or
\* nothing is, beside its graph or the message that it could not be drawn.  But not
\* if a preview or a drawing was overtaken by an older one, or a preview was lost,
\* had no image, or was not sent because vars.json did not parse.  Leaving the
\* editor also leaves its fullscreen.
PreviewCurrent ==
    /\ eLoaded /\ ~eTimer /\ ePreviews = {} /\ eDraws = {} /\ ~eSpoiled =>
          /\ eBlocks = eText
          /\ ~eEmpty \/ eText > 0 =>
                IF eText \in Invalid THEN eMarks = eText
                ELSE eMarks = -1 /\ (eGraph = eText \/ eFailed = eText)
    /\ page # "editor" => ~eBody
=============================================================================
