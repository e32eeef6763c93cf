------------------------------- MODULE MCHost -------------------------------
(* Small instances of what runs on the host beside the core: the scripts   *)
(* of a workspace container, accounts, the data directory, deploy files,   *)
(* asset uploads and host ports.  They share no state, so a behaviour is   *)
(* one of them, and the others stand still.  Extension hosts, like the     *)
(* executions of stop-sim.sh, are interchangeable.                         *)
EXTENDS SimContainer, Accounts, DataDirectory, DeployFiles, AssetUploads,
        PortLeases, TLC

VARIABLE scene

Scenes   == {"container", "accounts", "data", "files", "uploads", "ports"}
hostVars == <<scene, vars, accountVars, dataVars, fileVars, uploadVars, portVars>>

HostInit ==
    /\ scene \in Scenes
    /\ Init /\ AccountsInit /\ DataInit /\ FileInit /\ UploadInit /\ PortInit

HostNext ==
    /\ UNCHANGED scene
    /\ \/ /\ scene = "container" /\ Next
          /\ UNCHANGED <<accountVars, dataVars, fileVars, uploadVars, portVars>>
       \/ /\ scene = "accounts" /\ AccountsNext
          /\ UNCHANGED <<vars, dataVars, fileVars, uploadVars, portVars>>
       \/ /\ scene = "data" /\ DataNext
          /\ UNCHANGED <<vars, accountVars, fileVars, uploadVars, portVars>>
       \/ /\ scene = "files" /\ FileNext
          /\ UNCHANGED <<vars, accountVars, dataVars, uploadVars, portVars>>
       \/ /\ scene = "uploads" /\ UploadNext
          /\ UNCHANGED <<vars, accountVars, dataVars, fileVars, portVars>>
       \/ /\ scene = "ports" /\ PortNext
          /\ UNCHANGED <<vars, accountVars, dataVars, fileVars, uploadVars>>

HostSpec == HostInit /\ [][HostNext]_hostVars

Interchangeable == Permutations(Hosts) \cup Permutations(Stops)

----------------------------------------------------------------------------
(* Deploy files that were saved and assets that were uploaded are whole.   *)
FilesAreWhole == SavedIsWhole /\ UploadIsWhole
=============================================================================
