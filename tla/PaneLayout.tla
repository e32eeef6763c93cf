----------------------------- MODULE PaneLayout -----------------------------
(***************************************************************************)
(* The panes of the workspace page: which are shown (usePaneVisibility.ts),*)
(* how the space is split (useSplit in IDELayout.tsx), and the buttons,    *)
(* menu and drags that change either.  A plain-java lesson (console) and a *)
(* robot project keep their choices apart, in the tab's session storage,   *)
(* which may be missing and may hold what an older build left.             *)
(*                                                                         *)
(* A render, its effects and what the panel library reports of a layout    *)
(* that was set are one step; one handle is dragged at a time.  Focus,     *)
(* labels and pixels are left out; a split is the share of its first pane. *)
(***************************************************************************)
EXTENDS Naturals

CONSTANTS Shares,    \* shares a drag may leave, of 100
          Fallback   \* the share of a split that nobody has dragged

ASSUME PaneAssumption == Shares \cup {Fallback} \subseteq 1 .. 99

ProjectKinds  == {"robot", "console"}
Splits == {"columns", "rows"}
Keys   == {"ide-columns", "ide-console-columns", "ide-rows"}

VARIABLES
    shownKind,   \* of the project that is open
    narrow,      \* the window is at most 900 pixels wide
    storing,     \* session storage works
    visibility,  \* saved.value
    storedPanes, \* what reading coderunner:pane-visibility:<kind> gives
    storedSplit, \* what reading react-resizable-panels:<key> gives
    expanded,    \* the share of each split while both its panes are shown
    seen,        \* the size its layout effect ran for last
    layout,      \* the layout the panel library has
    choice,      \* what was chosen last for each kind of project (no code)
    dragged      \* and dragged last for each key (no code)

paneVars == <<shownKind, narrow, storing, visibility, storedPanes, storedSplit,
              expanded, seen, layout, choice, dragged>>

Panes == [upper : {"both", "editor", "right"}, bottom : BOOLEAN,
          narrowPane : {"editor", "right"}]
DefaultPanes(k) == [upper |-> IF k = "console" THEN "editor" ELSE "both",
                    bottom |-> TRUE, narrowPane |-> "editor"]

PaneTypeOK ==
    /\ shownKind \in ProjectKinds /\ narrow \in BOOLEAN /\ storing \in BOOLEAN
    /\ visibility \in Panes
    /\ storedPanes \in [ProjectKinds -> Panes]
    /\ storedSplit \in [Keys -> 1 .. 99]
    /\ expanded \in [Splits -> 1 .. 99]
    /\ seen \in [Splits -> 0 .. 100] /\ layout \in [Splits -> 0 .. 100]
    /\ choice \in [ProjectKinds -> Panes] /\ dragged \in [Keys -> 1 .. 99]

KeyOf(s, k)  == IF s = "rows" THEN "ide-rows"
                ELSE IF k = "robot" THEN "ide-columns" ELSE "ide-console-columns"

EditorVisible(v, n) == IF n THEN v.narrowPane = "editor" ELSE v.upper # "right"
RightVisible(v, n)  == IF n THEN v.narrowPane = "right" ELSE v.upper # "editor"
FirstShown(s, v, n)     == s = "rows" \/ EditorVisible(v, n)
SecondShown(s, v, n, k) == IF s = "rows" THEN k = "robot" /\ v.bottom
                           ELSE RightVisible(v, n)
SizeOf(s, v, n, k, share) == IF ~ FirstShown(s, v, n) THEN 0
                             ELSE IF ~ SecondShown(s, v, n, k) THEN 100 ELSE share
BothShown(s) == /\ FirstShown(s, visibility, narrow)
                /\ SecondShown(s, visibility, narrow, shownKind)

\* mutant: the effect does not run for a reset that leaves the size alone
LaysOutWhatChanged(reset) ==
    /\ seen' = [s \in Splits |-> SizeOf(s, visibility', narrow', shownKind', expanded'[s])]
    /\ layout' = [s \in Splits |-> IF seen'[s] # seen[s] THEN seen'[s] ELSE layout[s]]

(* A render and the layout effect of each split. *)
LaysOut(reset) ==
    /\ seen' = [s \in Splits |-> SizeOf(s, visibility', narrow', shownKind', expanded'[s])]
    /\ layout' = [s \in Splits |->
         IF \/ seen'[s] # seen[s] \/ reset
            \/ KeyOf(s, shownKind') # KeyOf(s, shownKind)
         THEN seen'[s] ELSE layout[s]]

PaneInit ==
    /\ shownKind = "robot"           \* until the session is known
    /\ narrow \in BOOLEAN /\ storing \in BOOLEAN
    /\ storedPanes = [k \in ProjectKinds |-> DefaultPanes(k)]
    /\ storedSplit \in [Keys -> {Fallback}] \cup (IF storing THEN [Keys -> Shares] ELSE {})
    /\ visibility = storedPanes["robot"] /\ choice = storedPanes
    /\ dragged = storedSplit
    /\ expanded = [s \in Splits |-> storedSplit[KeyOf(s, "robot")]]
    /\ seen = [s \in Splits |-> SizeOf(s, visibility, narrow, "robot", expanded[s])]
    /\ layout = seen

----------------------------------------------------------------------------
(* setUpper, setNarrowPane, setBottomVisible: the value is replaced and    *)
(* written under the key it was read from.                                 *)
Saves(v) ==
    /\ visibility' = v
    /\ choice' = [choice EXCEPT ![shownKind] = v]
    /\ storedPanes' = IF storing THEN [storedPanes EXCEPT ![shownKind] = v]
                      ELSE storedPanes

ChoiceOnly == UNCHANGED <<shownKind, narrow, storing, storedSplit, expanded, dragged>>

WithEditor(visible) ==
    IF narrow THEN [visibility EXCEPT !.narrowPane = IF visible THEN "editor" ELSE "right"]
    ELSE [visibility EXCEPT !.upper = IF ~ visible THEN "right"
                                      ELSE IF @ = "right" THEN "both" ELSE @]
WithRight(visible) ==
    IF narrow THEN [visibility EXCEPT !.narrowPane = IF visible THEN "right" ELSE "editor"]
    ELSE [visibility EXCEPT !.upper = IF ~ visible THEN "editor"
                                      ELSE IF @ = "editor" THEN "both" ELSE @]

SetEditorVisible(visible) == Saves(WithEditor(visible)) /\ ChoiceOnly /\ LaysOut(FALSE)
SetRightVisible(visible)  == Saves(WithRight(visible)) /\ ChoiceOnly /\ LaysOut(FALSE)
\* The driver station is a robot project's.
SetBottomVisible(visible) ==
    /\ shownKind = "robot"
    /\ Saves([visibility EXCEPT !.bottom = visible]) /\ ChoiceOnly /\ LaysOut(FALSE)

(* A handle is dragged.  At a share the drag leaves, that is remembered    *)
(* and nothing is rendered; at an edge, the pane is hidden instead.        *)
Drags(s, share) ==
    /\ BothShown(s)
    /\ layout' = [layout EXCEPT ![s] = share]
    /\ expanded' = [expanded EXCEPT ![s] = share]
    /\ dragged' = [dragged EXCEPT ![KeyOf(s, shownKind)] = share]
    /\ storedSplit' = IF storing THEN [storedSplit EXCEPT ![KeyOf(s, shownKind)] = share]
                      ELSE storedSplit
    /\ UNCHANGED <<shownKind, narrow, storing, visibility, storedPanes, seen, choice>>
DragsShut(s, first) ==
    /\ BothShown(s) /\ (s = "rows" => ~ first)
    /\ Saves(IF s = "rows" THEN [visibility EXCEPT !.bottom = FALSE]
             ELSE IF first THEN WithEditor(FALSE) ELSE WithRight(FALSE))
    /\ ChoiceOnly /\ LaysOut(FALSE)

WindowResized ==
    /\ narrow' = ~ narrow
    /\ UNCHANGED <<shownKind, storing, visibility, storedPanes, storedSplit, expanded,
                   choice, dragged>>
    /\ LaysOut(FALSE)

----------------------------------------------------------------------------

(* Another kind of project is opened: its own choices are read. *)
Switched(k) ==
    /\ shownKind' = k
    /\ visibility' = storedPanes[k]
    /\ storedPanes' = IF storing THEN [storedPanes EXCEPT ![k] = visibility']
                      ELSE storedPanes
SwitchKind(k) ==
    /\ k # shownKind
    /\ Switched(k)
    /\ expanded' = [expanded EXCEPT !["columns"] = storedSplit[KeyOf("columns", k)]]
    /\ UNCHANGED <<narrow, storing, storedSplit, choice, dragged>>
    /\ LaysOut(FALSE)

(* Reset layout. *)
ResetLayout ==
    /\ Saves(DefaultPanes(shownKind))
    /\ storedSplit' = [key \in Keys |-> Fallback]
    /\ dragged' = storedSplit'
    /\ expanded' = [s \in Splits |-> Fallback]
    /\ UNCHANGED <<shownKind, narrow, storing>>
    /\ LaysOut(TRUE)

(* The tab is reloaded: everything is read again. *)
ReloadTab ==
    /\ shownKind' = "robot" /\ visibility' = storedPanes["robot"]
    /\ storedPanes' = [storedPanes EXCEPT !["robot"] = visibility']
    /\ expanded' = [s \in Splits |-> storedSplit[KeyOf(s, "robot")]]
    /\ seen' = [s \in Splits |-> SizeOf(s, visibility', narrow, "robot", expanded'[s])]
    /\ layout' = seen'
    /\ UNCHANGED <<narrow, storing, storedSplit, choice, dragged>>

PaneNext ==
    \/ \E visible \in BOOLEAN :
        SetEditorVisible(visible) \/ SetRightVisible(visible) \/ SetBottomVisible(visible)
    \/ \E s \in Splits :
        \/ \E share \in Shares : Drags(s, share)
        \/ \E first \in BOOLEAN : DragsShut(s, first)
    \/ WindowResized \/ (\E k \in ProjectKinds : SwitchKind(k)) \/ ResetLayout \/ ReloadTab

PaneSpec == PaneInit /\ [][PaneNext]_paneVars

----------------------------------------------------------------------------
(* What the panes take is what was chosen and dragged last for this kind   *)
(* of project, whatever was hidden, narrowed, switched, reloaded or reset  *)
(* meanwhile, and one upper pane is always there.  Without storage only    *)
(* the choices since the last switch are kept.                             *)
PanesFollowChoices ==
    /\ \A s \in Splits :
        layout[s] = SizeOf(s, visibility, narrow, shownKind, expanded[s])
    /\ storing => /\ visibility = choice[shownKind]
                  /\ \A s \in Splits : expanded[s] = dragged[KeyOf(s, shownKind)]
    /\ EditorVisible(visibility, narrow) \/ RightVisible(visibility, narrow)
=============================================================================
