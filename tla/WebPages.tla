------------------------------ MODULE WebPages ------------------------------
(***************************************************************************)
(* The pages of the web interface under the router of app.js: one is       *)
(* mounted at a time, starts from nothing when it is mounted and is gone   *)
(* when the user leaves it.  The tabs of a job and the views of a pipeline *)
(* have compositions of their own (BuildsView, PipelineView).              *)
(***************************************************************************)
EXTENDS BuildContent, ListTree, ResourceView, GraphZoom, Editor, WebSession,
        PipelineGrid, AdminLists

webVars == <<contentVars, listTreeVars, resourceVars, zoomVars, editorVars,
             sessionVars, gridVars, adminVars>>

WebInit ==
    /\ page = Elsewhere
    /\ ContentIdle /\ ListIdle /\ ResourceIdle /\ GraphIdle /\ EditorIdle
    /\ SessionIdle /\ GridIdle /\ AdminIdle

JobPage ==
    /\ ContentNext
    /\ UNCHANGED <<listTreeVars, resourceVars, zoomVars, editorVars, sessionVars,
                   gridVars, adminVars>>

ListPage ==
    /\ ListNext
    /\ UNCHANGED <<contentVars, resourceVars, zoomVars, editorVars, sessionVars,
                   gridVars, adminVars>>

ResourcePage ==
    /\ ResourceNext
    /\ UNCHANGED <<contentVars, listTreeVars, zoomVars, editorVars, sessionVars,
                   gridVars, adminVars>>

GraphPage ==
    /\ GraphNext
    /\ UNCHANGED <<contentVars, listTreeVars, resourceVars, editorVars, sessionVars,
                   gridVars, adminVars>>

EditorPage ==
    /\ EditorNext
    /\ UNCHANGED <<contentVars, listTreeVars, resourceVars, zoomVars, sessionVars,
                   gridVars, adminVars>>

SessionPages ==
    /\ SessionNext
    /\ UNCHANGED <<contentVars, listTreeVars, resourceVars, zoomVars, editorVars,
                   gridVars, adminVars>>

PipelinesPage ==
    /\ GridNext
    /\ UNCHANGED <<contentVars, listTreeVars, resourceVars, zoomVars, editorVars,
                   sessionVars, adminVars>>

AdminPages ==
    /\ AdminNext
    /\ UNCHANGED <<contentVars, listTreeVars, resourceVars, zoomVars, editorVars,
                   sessionVars, gridVars>>

WebNext ==
    \/ JobPage \/ ListPage \/ ResourcePage \/ GraphPage \/ EditorPage
    \/ SessionPages \/ PipelinesPage \/ AdminPages

WebSpec == WebInit /\ [][WebNext]_<<page, webVars>>

-----------------------------------------------------------------------------
\* Every page's state has its type (the useState and useRef cells of the pages).
WebTypeOK ==
    /\ ContentTypeOK /\ ListTypeOK /\ ResourceTypeOK /\ GraphTypeOK /\ EditorTypeOK
    /\ SessionTypeOK /\ GridTypeOK /\ AdminTypeOK
=============================================================================
