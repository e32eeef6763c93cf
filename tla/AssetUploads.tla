---------------------------- MODULE AssetUploads ----------------------------
(***************************************************************************)
(* AdvantageScope assets that students upload (app/assets.ts): an archive  *)
(* of directories, each with a config.json, is unpacked into a directory   *)
(* of its own, and each of its assets replaces what the workspace had.     *)
(* Requests for a file look there first and then among the bundled assets. *)
(*                                                                         *)
(* Paths, sizes and the kinds of bad archives are left out.  Each file is  *)
(* copied in a step of its own; a removal or a copy that meets another may *)
(* fail, and ends its upload with an error.                                *)
(***************************************************************************)
EXTENDS Naturals, FiniteSets

CONSTANTS Uploads,     \* requests
          Assets,      \* names of directories
          Bundled      \* where a file is not the student's

ASSUME UploadsAssumption == Bundled \notin Uploads

Parts == {"config", "model"}

VARIABLES upload,      \* requests: step, archive, assets and files still to do
          stored,      \* whose file each part of an asset is
          overlapped   \* uploads in whose time another changed an asset (no code)

uploadVars == <<upload, stored, overlapped>>

NewUpload == [step |-> "none", zip |-> [a \in Assets |-> {}], dirs |-> {},
             files |-> {}, moved |-> 0, temp |-> FALSE, reply |-> "none"]
Archives == [Assets -> SUBSET Parts]
DirsOf(zip) == {a \in Assets : zip[a] # {}}
Valid(zip)  == {a \in Assets : "config" \in zip[a]}

UploadTypeOK ==
    /\ upload \in [Uploads ->
         [step : {"none", "unzip", "next", "remove", "copy", "clean", "end"},
          zip : Archives, dirs : SUBSET Assets, files : SUBSET (Assets \X Parts),
          moved : 0 .. Cardinality(Assets), temp : BOOLEAN,
          reply : {"none", "ok", "refused", "failed"}]]
    /\ stored \in [Assets \X Parts -> Uploads \cup {Bundled}]
    /\ overlapped \subseteq Uploads

UploadInit ==
    /\ upload = [u \in Uploads |-> NewUpload]
    /\ stored = [x \in Assets \X Parts |-> Bundled]
    /\ overlapped = {}

UploadIs(u, step) == upload[u].step = step
Turns(u, r)       == upload' = [upload EXCEPT ![u] = r]
Replies(r, how)   == [r EXCEPT !.step = "clean", !.reply = how]
Overlaps(u)       == overlapped' = overlapped \cup {v \in Uploads \ {u} : ~ UploadIs(v, "none")}
DirsStay          == UNCHANGED <<stored, overlapped>>

----------------------------------------------------------------------------
(* The request is well formed and its temporary directory made. *)
UploadArrives(u, zip) ==
    /\ UploadIs(u, "none")
    /\ Turns(u, [NewUpload EXCEPT !.step = "unzip", !.zip = zip, !.temp = TRUE])
    /\ DirsStay

(* The archive cannot be read or leads outside, or holds no directory. *)
Unzips(u, good) ==
    /\ UploadIs(u, "unzip")
    /\ LET dirs == DirsOf(upload[u].zip) IN
       Turns(u, IF good /\ dirs # {} THEN [upload[u] EXCEPT !.step = "next", !.dirs = dirs]
                ELSE Replies(upload[u], "refused"))
    /\ DirsStay

(* A directory without config.json is skipped. *)
TakesDirectory(u, a) ==
    /\ UploadIs(u, "next") /\ a \in upload[u].dirs
    /\ Turns(u, [upload[u] EXCEPT !.dirs = @ \ {a},
                    !.step = IF a \in Valid(upload[u].zip) THEN "remove" ELSE "next",
                    !.files = IF a \in Valid(upload[u].zip) THEN {a} \X upload[u].zip[a] ELSE {}])
    /\ DirsStay

\* mutant: the new files are copied over the old asset
CopiedOver(a) == stored
WithoutAsset(a) == [x \in Assets \X Parts |-> IF x[1] = a THEN Bundled ELSE stored[x]]
RemovesAsset(u) ==
    /\ UploadIs(u, "remove")
    /\ \E a \in {x[1] : x \in upload[u].files} : stored' = WithoutAsset(a)
    /\ Turns(u, [upload[u] EXCEPT !.step = "copy"])
    /\ Overlaps(u)

CopiesPart(u, x) ==
    /\ UploadIs(u, "copy") /\ x \in upload[u].files
    /\ stored' = [stored EXCEPT ![x] = u]
    /\ LET left == upload[u].files \ {x} IN
       Turns(u, [upload[u] EXCEPT !.files = left,
                    !.step = IF left = {} THEN "next" ELSE "copy",
                    !.moved = IF left = {} THEN @ + 1 ELSE @])
    /\ Overlaps(u)

(* Two at once in one directory: either may find it changed and fail. *)
DirectoryBusy(u) ==
    /\ upload[u].step \in {"remove", "copy"}
    /\ \E v \in Uploads \ {u} : upload[v].step \in {"remove", "copy"}
    /\ Turns(u, Replies(upload[u], "failed"))
    /\ DirsStay

AllTaken(u) ==
    /\ UploadIs(u, "next") /\ upload[u].dirs = {}
    /\ Turns(u, Replies(upload[u], IF upload[u].moved = 0 THEN "refused" ELSE "ok"))
    /\ DirsStay

(* finally: the temporary directory goes before the answer does. *)
Cleaned(u) ==
    /\ UploadIs(u, "clean")
    /\ Turns(u, [upload[u] EXCEPT !.step = "end", !.temp = FALSE, !.dirs = {}, !.files = {}])
    /\ DirsStay

UploadNext ==
    \E u \in Uploads :
        \/ \E zip \in Archives : UploadArrives(u, zip)
        \/ \E good \in BOOLEAN : Unzips(u, good)
        \/ \E a \in Assets : TakesDirectory(u, a) \/ \E p \in Parts : CopiesPart(u, <<a, p>>)
        \/ RemovesAsset(u) \/ DirectoryBusy(u) \/ AllTaken(u) \/ Cleaned(u)

UploadSpec == UploadInit /\ [][UploadNext]_uploadVars

----------------------------------------------------------------------------
(* What a request for a part of an asset is answered with. *)
ServedFrom(a, p) == stored[<<a, p>>]

(* An upload that was told OK, and that no other overlapped or followed,   *)
(* is served whole and with nothing left of the asset it replaces; one     *)
(* that was refused has changed nothing; no temporary directory stays.     *)
UploadIsWhole ==
    \A u \in Uploads :
        LET r == upload[u] IN
        r.step = "end" =>
            /\ ~ r.temp
            /\ r.reply = "ok" /\ u \notin overlapped =>
                \A a \in Valid(r.zip), p \in Parts :
                    ServedFrom(a, p) = IF p \in r.zip[a] THEN u ELSE Bundled
            /\ r.reply = "refused" => \A x \in Assets \X Parts : stored[x] # u
=============================================================================
