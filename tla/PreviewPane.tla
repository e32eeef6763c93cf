----------------------------- MODULE PreviewPane -----------------------------
(***************************************************************************)
(* The project's own documents beside the editor (PreviewPane.tsx): the    *)
(* list the tab fetches when Preview is first opened, on Refresh and after *)
(* a swap (usePreviewDocuments.ts), and the two frames, one shown and one  *)
(* loading behind it, with the server's end of both requests               *)
(* (app/preview.ts, app/preview-token.ts).                                 *)
(*                                                                         *)
(* One document is enough: a README that a list may or may not have.  The  *)
(* content of a list or a frame is the era of the project it was read in;  *)
(* a frame that got an error document instead has a notice.                *)
(***************************************************************************)
EXTENDS ProjectSwap

VARIABLES
    active,    \* previewActivated
    list,      \* the newest request for the list
    late,      \* answers it superseded, when only their continuation was left
    listed,    \* what useDocuments holds
    selected,  \* the README is selected
    frame,     \* displayedFrame
    behind     \* loadingFrame

previewVars == <<active, list, late, listed, selected, frame, behind>>

Requests == [st : {"asked", "read", "parsed", "over"}, era : Eras, has : BOOLEAN]
Frames   == [st : {"none", "blank", "doc", "notice"}, era : Eras]

PreviewTypeOK ==
    /\ active \in BOOLEAN
    /\ list \in Requests
    /\ late \in SUBSET Requests
    /\ listed \in [st : {"none", "loaded", "error"}, era : Eras, has : BOOLEAN]
    /\ selected \in BOOLEAN
    /\ frame \in Frames /\ behind \in Frames

NoFrame == [st |-> "none", era |-> 0]
NoList  == [st |-> "none", era |-> 0, has |-> FALSE]
Asked   == [st |-> "asked", era |-> 0, has |-> FALSE]
Over    == [Asked EXCEPT !.st = "over"]

(* A page that opens on a stored Preview tab activates it at once. *)
PreviewInit ==
    /\ active = FALSE
    /\ list = Over
    /\ late = {}
    /\ listed = NoList
    /\ selected = FALSE
    /\ frame = NoFrame /\ behind = NoFrame

Loading == list.st # "over"

----------------------------------------------------------------------------
(* The request effect: the one before is aborted, unless its answer was    *)
(* parsed and only the continuation is left.                               *)
Asks ==
    /\ list' = Asked
    /\ late' = IF list.st = "parsed" THEN late \cup {list} ELSE late

Activate ==
    /\ ~ active /\ active' = TRUE
    /\ Asks
    /\ UNCHANGED <<listed, selected, frame, behind>>

Refresh ==
    /\ active /\ ~ Loading
    /\ Asks
    /\ UNCHANGED <<active, listed, selected, frame, behind>>

(* What the pane shows of a new list l: the frame shown stays while its    *)
(* replacement, a new frame for every list, loads behind it.               *)
Pane(l, sel) ==
    LET wanted == l.st = "loaded" /\ sel /\ l.has
        made   == [NoFrame EXCEPT !.st = "blank"]
        stays  == frame # NoFrame
    IN  /\ frame' = IF ~ wanted THEN NoFrame ELSE IF stays THEN frame ELSE made
        /\ behind' = IF wanted /\ stays THEN made ELSE NoFrame

(* The effects on reloadNonce: list and selection are dropped at once, and *)
(* with them both frames, for a frame does not stay into another project.  *)
Dropped ==
    /\ listed' = NoList
    /\ selected' = FALSE
    /\ frame' = NoFrame /\ behind' = NoFrame
SwapSeen ==
    /\ Dropped
    /\ IF active THEN Asks ELSE UNCHANGED <<list, late>>
    /\ UNCHANGED active

(* Robot and console layouts hold the pane in different places, so it is   *)
(* mounted anew.  A console lesson whose right pane is shown activates it. *)
Remounts(console) ==
    /\ Dropped
    /\ active' \in {active, active \/ console}
    /\ IF active' THEN Asks ELSE UNCHANGED <<list, late>>

----------------------------------------------------------------------------
(* GET /api/preview/documents, which walks the project's directory. *)

ListRead ==
    /\ list.st = "asked"
    /\ \E h \in BOOLEAN : list' = [st |-> "read", era |-> record.era, has |-> h]
    /\ UNCHANGED <<active, late, listed, selected, frame, behind>>

ListParsed ==
    /\ list.st = "read"
    /\ list' = [list EXCEPT !.st = "parsed"]
    /\ UNCHANGED <<active, late, listed, selected, frame, behind>>

ListShown(l) ==
    /\ listed' = [l EXCEPT !.st = "loaded"]
    /\ selected' = (selected \/ l.has)
    /\ Pane(listed', selected')

ListArrives ==
    /\ list.st = "parsed"
    /\ list' = Over
    /\ ListShown(list)
    /\ UNCHANGED <<active, late>>

\* mutant: a superseded answer is taken
LateTaken(l) ==
    /\ l \in late
    /\ late' = late \ {l}
    /\ ListShown(l)
    /\ UNCHANGED <<active, list>>
(* The generation moved on while the answer was read. *)
LateArrives(l) ==
    /\ l \in late
    /\ late' = late \ {l}
    /\ UNCHANGED <<active, list, listed, selected, frame, behind>>

(* The old list is dropped rather than left looking freshly loaded. *)
ListFails ==
    /\ list.st \in {"asked", "read"}
    /\ list' = Over
    /\ listed' = [NoList EXCEPT !.st = "error"]
    /\ frame' = NoFrame /\ behind' = NoFrame
    /\ UNCHANGED <<active, late, selected>>

----------------------------------------------------------------------------
(* GET /api/preview/files: the document as it is now, or an error document *)
(* (the token has expired, the file is gone, too large or changing).       *)
Served(f) == [f EXCEPT !.st = "doc", !.era = record.era]
Refused(f) == [f EXCEPT !.st = "notice"]

FrameLoads ==
    /\ frame.st = "blank"
    /\ frame' \in {Served(frame), Refused(frame)}
    /\ UNCHANGED <<active, list, late, listed, selected, behind>>

(* onLoad of the frame behind: it takes the place of the one shown. *)
BehindLoads ==
    /\ behind # NoFrame
    /\ frame' \in {Served(behind), Refused(behind)}
    /\ behind' = NoFrame
    /\ UNCHANGED <<active, list, late, listed, selected>>

ListNext ==
    ListRead \/ ListParsed \/ ListArrives \/ \E l \in late : LateArrives(l)

----------------------------------------------------------------------------
(* After the tab was told of a swap, no list and no document that it shows *)
(* was read before that swap: neither an answer that was under way, nor    *)
(* the frame that stays while another one loads, brings the old project    *)
(* back.                                                                   *)
PreviewIsCurrent ==
    /\ listed.st = "loaded" => listed.era >= acked
    /\ frame.st = "doc" => frame.era >= acked
=============================================================================
