---------------------------- MODULE DeployFiles ----------------------------
(***************************************************************************)
(* The deploy files of a project, which PathPlanner saves, deletes and     *)
(* lists through the control plane (app/deploy-files.ts) while an import   *)
(* replaces the project and the student works in the same directories.     *)
(*                                                                         *)
(* One file in one directory.  The directory may be gone, and its path may *)
(* lead somewhere else, when a student has made it a link.  An open file   *)
(* stays the one that was opened, wherever the path leads afterwards.  A   *)
(* body is a sequence of pieces, written at offsets of the saver's own.    *)
(* The checks of names and sizes, and the walk of a listing, are left out. *)
(***************************************************************************)
EXTENDS Naturals, Sequences, FiniteSets

CONSTANTS
    Savers,      \* requests, each a save or a removal at a time
    MaxSaves,    \* requests made
    MaxEdits     \* imports begun and links made

ASSUME FilesAssumption ==
    IsFiniteSet(Savers) /\ "import" \notin Savers /\ {MaxSaves, MaxEdits} \subseteq Nat

Dirs   == {"project", "elsewhere"}
Absent   == 0
Inodes == 1 .. Cardinality(Savers) + 4

VARIABLES
    place,      \* where the directory's path leads, or "missing"
    entries,    \* the file of each directory: Absent, or an inode
    data,       \* what each inode holds
    importing,  \* an import has emptied the project and not copied yet
    at,         \* the next step of each request, or how it ended
    body,       \* what it saves
    handle,     \* the file it has open
    disturbed,  \* somebody else has changed the file, or the way to it, since (no code)
    saves, edits \* so far

fileVars == <<place, entries, data, importing, at, body, handle, disturbed, saves, edits>>

Ended  == {"idle", "ok", "refused", "failed"}
Steps  == Ended \cup {"check-ancestor", "mkdir", "check-directory", "open", "check-file",
                      "truncate", "write", "write-on",
                      "look", "open-to-remove", "check-to-remove", "remove"}
Pieces == Savers \cup {"import", "hole"}
Imported == <<"import", "import">>
Foreign  == 2     \* the file that is elsewhere

FileTypeOK ==
    /\ place \in Dirs \cup {"missing"}
    /\ entries \in [Dirs -> Inodes \cup {Absent}]
    /\ \A i \in Inodes : data[i] \in Seq(Pieces)
    /\ importing \in BOOLEAN
    /\ at \in [Savers -> Steps] /\ handle \in [Savers -> Inodes \cup {Absent}]
    /\ disturbed \in [Savers -> BOOLEAN]
    /\ saves \in 0 .. MaxSaves /\ edits \in 0 .. MaxEdits

FileInit ==
    /\ place = "project" /\ entries = [project |-> 1, elsewhere |-> Foreign]
    /\ data = [i \in Inodes |-> IF i <= Foreign THEN Imported ELSE <<>>]
    /\ importing = FALSE
    /\ at = [w \in Savers |-> "idle"] /\ body = [w \in Savers |-> <<>>]
    /\ handle = [w \in Savers |-> Absent] /\ disturbed = [w \in Savers |-> FALSE]
    /\ saves = 0 /\ edits = 0

Linked(i) == \E d \in Dirs : entries[d] = i
FreeInodes      == {i \in Inodes \ {Foreign} : ~ Linked(i) /\ \A w \in Savers : handle[w] # i}
New       == CHOOSE i \in FreeInodes : \A j \in FreeInodes : i <= j

\* The file that the path leads to now.
Found == IF place = "missing" THEN Absent ELSE entries[place]

Goes(w, step)  == at' = [at EXCEPT ![w] = step]
EndsRequest(w, how)   == Goes(w, how) /\ handle' = [handle EXCEPT ![w] = Absent]
Disturbs(whom) == disturbed' = [w \in Savers |-> disturbed[w] \/ w \in whom]
OtherSavers(w)      == Savers \ {w}

----------------------------------------------------------------------------
(* Requests: PUT, with one piece or two, and DELETE.                       *)
MakesRequest(w) ==
    /\ at[w] \in Ended /\ saves < MaxSaves /\ saves' = saves + 1
    /\ \/ /\ Goes(w, "check-ancestor")
          /\ \E size \in 1 .. 2 : body' = [body EXCEPT ![w] = [k \in 1 .. size |-> w]]
       \/ Goes(w, "look") /\ body' = [body EXCEPT ![w] = <<>>]
    /\ disturbed' = [disturbed EXCEPT ![w] = FALSE]
    /\ UNCHANGED <<place, entries, data, importing, handle, edits>>

(* A save looks at the path again after each step that it may have been    *)
(* changed in, and at last at what it has opened.                          *)
ChecksAncestor(w) ==
    /\ at[w] = "check-ancestor"
    /\ Goes(w, IF place = "elsewhere" THEN "refused" ELSE "mkdir")
    /\ UNCHANGED <<place, entries, data, handle, disturbed>>

Mkdirs(w) ==
    /\ at[w] = "mkdir" /\ Goes(w, "check-directory")
    /\ IF place = "missing"
       THEN place' = "project" /\ entries' = [entries EXCEPT !["project"] = Absent]
       ELSE UNCHANGED <<place, entries>>
    /\ UNCHANGED <<data, handle, disturbed>>

ChecksDirectory(w) ==
    /\ at[w] = "check-directory"
    /\ Goes(w, IF place = "project" THEN "open" ELSE "refused")
    /\ UNCHANGED <<place, entries, data, handle, disturbed>>

(* O_CREAT without O_TRUNC: a new file is empty, another is left as it is. *)
OpensAsItIs(i) == data' = IF Linked(i) THEN data ELSE [data EXCEPT ![i] = <<>>]

OpensFile(w) ==
    /\ at[w] = "open"
    /\ IF place = "missing" THEN EndsRequest(w, "failed") /\ UNCHANGED <<entries, data, disturbed>>
       ELSE LET i == IF Found = Absent THEN New ELSE Found IN
            /\ OpensAsItIs(i)
            /\ entries' = [entries EXCEPT ![place] = i]
            /\ handle' = [handle EXCEPT ![w] = i]
            /\ Goes(w, "check-file")
            /\ Disturbs(IF Found = Absent THEN OtherSavers(w) ELSE {})
    /\ UNCHANGED place

ChecksFile(w) ==
    /\ at[w] = "check-file"
    /\ IF entries["project"] = handle[w] THEN Goes(w, "truncate") /\ UNCHANGED handle
       ELSE EndsRequest(w, "refused")
    /\ UNCHANGED <<place, entries, data, disturbed>>

\* mutant: what the file held before is only written over
KeptUnder(i) == UNCHANGED data

Emptied(i) == data' = [data EXCEPT ![i] = <<>>]
Truncates(w) ==
    /\ at[w] = "truncate" /\ Goes(w, "write")
    /\ Emptied(handle[w]) /\ Disturbs(OtherSavers(w))
    /\ UNCHANGED <<place, entries, handle>>

(* A piece, at the offset of this saver; a gap reads as zeros. *)
Over(old, n, piece) ==
    [k \in 1 .. (IF Len(old) > n THEN Len(old) ELSE n) |->
        IF k = n THEN piece ELSE IF k <= Len(old) THEN old[k] ELSE "hole"]
WritesPiece(w) ==
    /\ at[w] \in {"write", "write-on"}
    /\ LET n == IF at[w] = "write" THEN 1 ELSE 2 IN
       /\ data' = [data EXCEPT ![handle[w]] = Over(@, n, body[w][n])]
       /\ IF n < Len(body[w]) THEN Goes(w, "write-on") /\ UNCHANGED handle ELSE EndsRequest(w, "ok")
    /\ Disturbs(OtherSavers(w))
    /\ UNCHANGED <<place, entries>>

(* A removal does the same, but what it removes at last is what the path   *)
(* then leads to: there is no unlink of an open file.                      *)
Looks(w) ==
    /\ at[w] = "look"
    /\ Goes(w, IF place = "elsewhere" THEN "refused"
               ELSE IF Found = Absent THEN "failed" ELSE "open-to-remove")
    /\ UNCHANGED <<place, entries, data, handle, disturbed>>
OpensToRemove(w) ==
    /\ at[w] = "open-to-remove"
    /\ Goes(w, IF Found = Absent THEN "failed" ELSE "check-to-remove")
    /\ handle' = [handle EXCEPT ![w] = Found]
    /\ UNCHANGED <<place, entries, data, disturbed>>
ChecksToRemove(w) ==
    /\ at[w] = "check-to-remove"
    /\ EndsRequest(w, IF entries["project"] = handle[w] THEN "remove" ELSE "refused")
    /\ UNCHANGED <<place, entries, data, disturbed>>
Removes(w) ==
    /\ at[w] = "remove"
    /\ IF Found = Absent THEN Goes(w, "failed") /\ UNCHANGED <<entries, disturbed>>
       ELSE /\ Goes(w, "ok") /\ Disturbs(OtherSavers(w))
            /\ entries' = [entries EXCEPT ![place] = Absent]
    /\ UNCHANGED <<place, data, handle>>

RequestGoesOn(w) ==
    /\ \/ ChecksAncestor(w) \/ Mkdirs(w) \/ ChecksDirectory(w) \/ OpensFile(w) \/ ChecksFile(w)
       \/ Truncates(w) \/ WritesPiece(w)
       \/ Looks(w) \/ OpensToRemove(w) \/ ChecksToRemove(w) \/ Removes(w)
    /\ UNCHANGED <<body, importing, saves, edits>>

----------------------------------------------------------------------------
(* swapProject empties the project, and then copies the new one, which may *)
(* have the file or not.                                                   *)
Edit == edits < MaxEdits /\ edits' = edits + 1
EditOnly == UNCHANGED <<at, body, handle, saves>> /\ Disturbs(Savers)

ImportEmpties ==
    /\ ~ importing /\ Edit /\ importing' = TRUE
    /\ place' = "missing" /\ entries' = [entries EXCEPT !["project"] = Absent]
    /\ UNCHANGED data /\ EditOnly
ImportCopies(has) ==
    /\ importing /\ importing' = FALSE
    /\ place' = "project"
    /\ IF has THEN LET i == IF entries["project"] = Absent THEN New ELSE entries["project"] IN
                   /\ entries' = [entries EXCEPT !["project"] = i]
                   /\ data' = [data EXCEPT ![i] = Imported]
       ELSE UNCHANGED <<entries, data>>
    /\ UNCHANGED edits /\ EditOnly

(* The student moves the directory away and has a link in its place, or    *)
(* undoes that.                                                            *)
StudentLinks ==
    /\ ~ importing /\ Edit
    /\ place' = IF place = "project" THEN "elsewhere" ELSE "project"
    /\ UNCHANGED <<entries, data, importing>> /\ EditOnly

FileNext ==
    \/ \E w \in Savers : MakesRequest(w) \/ RequestGoesOn(w)
    \/ ImportEmpties \/ (\E has \in BOOLEAN : ImportCopies(has)) \/ StudentLinks

FileSpec == FileInit /\ [][FileNext]_fileVars

----------------------------------------------------------------------------
(* A save that was told ok is what the project's file holds, whole and     *)
(* with nothing left of a longer one, unless somebody else has changed the *)
(* file meanwhile; a file outside the project is never written, wherever   *)
(* the path led in between.                                                *)
SavedIsWhole ==
    /\ \A w \in Savers : at[w] = "ok" /\ ~ disturbed[w] =>
        IF body[w] = <<>> THEN Found = Absent
        ELSE Found # Absent /\ place = "project" /\ data[Found] = body[w]
    /\ data[Foreign] = Imported

(* Not so: two saves at once may mix their bodies, and a listing that      *)
(* comes between the truncation and the last write reads a part of one.    *)
ListingsAreWhole ==
    Found # Absent => data[Found] \in {Imported} \cup {<<w>> : w \in Savers}
                                    \cup {<<w, w>> : w \in Savers}
=============================================================================
