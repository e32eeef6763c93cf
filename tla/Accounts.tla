------------------------------- MODULE Accounts -------------------------------
(***************************************************************************)
(* Who may sign in and who is an admin: the roster in data/allowlist.json  *)
(* and the control plane's copy of it (auth/allowlist.ts), sign-ins through*)
(* GitHub, Google and Auth0 (auth/auth.ts, auth/providers.ts), the admin   *)
(* panel's user and roster routes (app/admin-routes.ts), the administrators*)
(* seeded at boot (storage.ts), and the scripts that edit the file and the *)
(* table beside a running control plane (scripts/allowlist.ts, users.ts).  *)
(*                                                                         *)
(* A person is an address; GitHub and Google, which both vouch for it, are *)
(* one provider.  Entries for whole domains behave like those for an       *)
(* address.  Better Auth is external: it looks a person's row up, links    *)
(* accounts of a verified address, and runs the hooks.                     *)
(***************************************************************************)
EXTENDS Naturals, FiniteSets

CONSTANTS People,       \* addresses
          BootAdmins,   \* CODERUNNER_ADMIN_EMAIL
          Requests,     \* requests under way at once
          MaxRequests,  \* bound: requests of any kind
          MaxOutside,   \* bound: edits by other hands, one of a script under way
          MaxRestarts   \* bound: crashes of the control plane

ASSUME AccountsAssumption ==
    /\ BootAdmins \subseteq People
    /\ MaxRequests \in Nat /\ MaxOutside \in Nat /\ MaxRestarts \in Nat

Malformed == {"malformed"}        \* a file that is not JSON

VARIABLES
    allowlist,  \* the file
    cached,     \* the module's copy
    online,     \* the control plane has booted
    user,       \* rows: role, whether an Auth0 account is linked, and whether
                \* someone who may vouch for the person has done so
    request,    \* requests that await something
    cli,        \* what `allowlist add` or `remove` is about to write
    requested,      \* requests so far
    outside,    \* edits by other hands so far
    restarts,
    unguarded   \* an admin went in a way that the panel does not guard

accountVars == <<allowlist, cached, online, user, request, cli, requested, outside,
                 restarts, unguarded>>

Lists == (SUBSET People) \cup {Malformed}
NoRow == [role |-> "none", auth0 |-> FALSE, vouched |-> FALSE]
Free  == [pc |-> "free", who |-> CHOOSE p \in People : TRUE, list |-> {},
          row |-> FALSE, listed |-> FALSE]

AccountsTypeOK ==
    /\ allowlist \in Lists /\ cached \in SUBSET People /\ cli \in Lists
    /\ online \in BOOLEAN /\ unguarded \in BOOLEAN
    /\ user \in [People -> [role : {"none", "student", "admin"},
                            auth0 : BOOLEAN, vouched : BOOLEAN]]
    /\ request \in [Requests ->
         [pc : {"free", "writing", "written", "reloading", "reloaded", "asking",
                "asked", "in", "deleting"},
          who : People, list : Lists, row : BOOLEAN, listed : BOOLEAN]]
    /\ requested \in 0 .. MaxRequests /\ outside \in 0 .. MaxOutside /\ restarts \in 0 .. MaxRestarts

AccountsInit ==
    /\ allowlist = {} /\ cached = {} /\ cli = Malformed
    /\ online = FALSE /\ unguarded = FALSE
    /\ user = [p \in People |-> NoRow]
    /\ request = [q \in Requests |-> Free]
    /\ requested = 0 /\ outside = 0 /\ restarts = 0

Exists(p) == user[p].role # "none"
Admins    == {p \in People : user[p].role = "admin"}

----------------------------------------------------------------------------
(* The file.  A sign-in under way remembers whether its person was listed  *)
(* at any time since it began to ask.                                      *)
Seen(rs, list) == [q \in Requests |->
    IF rs[q].pc \in {"asking", "asked"} /\ rs[q].who \in list
    THEN [rs[q] EXCEPT !.listed = TRUE] ELSE rs[q]]

Waits(q, from) == online /\ request[q].pc = from
Asks == online /\ requested < MaxRequests /\ requested' = requested + 1
(* requireAdmin: the break-glass token needs no admin. *)
PanelAsks == Asks
AskBegins(asks, q, pc, p, list) ==
    /\ asks /\ request[q].pc = "free"
    /\ request' = [request EXCEPT ![q] = [pc |-> pc, who |-> p, list |-> list,
                                          row |-> Exists(p), listed |-> pc = "asking" /\ p \in allowlist]]

OthersStay == UNCHANGED <<online, cli, outside, restarts>>
RestStays == OthersStay /\ UNCHANGED requested

(* addAllowlistEntry and removeAllowlistEntry start from the copy.  What   *)
(* the panel removes is an address only if the copy holds it; if not, it   *)
(* is taken for a domain and refused.                                      *)
Added(p)     == cached \cup {p}
Kept(p)      == cached \ {p}
AddEntry(q, p) ==
    /\ AskBegins(PanelAsks, q, "writing", p, Added(p))
    /\ UNCHANGED <<allowlist, cached, user, unguarded>> /\ OthersStay
RemoveEntry(q, p) ==
    /\ p \in cached
    /\ AskBegins(PanelAsks, q, "writing", p, Kept(p))
    /\ UNCHANGED <<allowlist, cached, user, unguarded>> /\ OthersStay

(* saveAllowlist: the file is replaced by a rename, and some turns later   *)
(* the copy.                                                               *)
Renamed(q) ==
    /\ Waits(q, "writing")
    /\ allowlist' = request[q].list
    /\ request' = [Seen(request, allowlist') EXCEPT ![q].pc = "written"]
    /\ UNCHANGED <<cached, user, unguarded>> /\ RestStays
Saved(q) ==
    /\ Waits(q, "written")
    /\ cached' = request[q].list
    /\ request' = [request EXCEPT ![q] = Free]
    /\ UNCHANGED <<allowlist, user, unguarded>> /\ RestStays

(* The Reload button. *)
Reload(q) ==
    /\ \E p \in People : AskBegins(PanelAsks, q, "reloading", p, {})
    /\ UNCHANGED <<allowlist, cached, user, unguarded>> /\ OthersStay
FileRead(q) ==
    /\ \/ Waits(q, "reloading") /\ request' = [request EXCEPT ![q].pc = "reloaded",
                                                              ![q].list = allowlist]
       \/ Waits(q, "asking") /\ request' = [request EXCEPT ![q].pc = "asked",
                                                           ![q].list = allowlist]
    /\ UNCHANGED <<allowlist, cached, user, unguarded>> /\ RestStays
Loaded(q) == IF request[q].list = Malformed THEN cached ELSE request[q].list
ReloadEnds(q) ==
    /\ Waits(q, "reloaded")
    /\ cached' = Loaded(q)
    /\ request' = [request EXCEPT ![q] = Free]
    /\ UNCHANGED <<allowlist, user, unguarded>> /\ RestStays

----------------------------------------------------------------------------
\* mutant: the copy is requested, not the file
CopyIsAsked(q, p) ==
    /\ AskBegins(Asks, q, "asked", p, cached)
    /\ UNCHANGED <<allowlist, cached, user, unguarded>> /\ OthersStay

(* Sign-in through GitHub or Google.  One who has a row is checked in the  *)
(* hook after the callback, one who has none before the row is made, too.  *)
SignIn(q, p) ==
    /\ AskBegins(Asks, q, "asking", p, {})
    /\ UNCHANGED <<allowlist, cached, user, unguarded>> /\ OthersStay

NewRow(p) == [role |-> IF p \in BootAdmins THEN "admin" ELSE "student",
              auth0 |-> FALSE, vouched |-> TRUE]

Checked(q) ==
    LET p == request[q].who
    IN  /\ Waits(q, "asked")
        /\ cached' = Loaded(q)
        /\ \/ /\ p \notin cached' \/ (Exists(p) /\ ~ request[q].row)
              /\ request' = [request EXCEPT ![q] = Free] /\ UNCHANGED user
           \/ /\ p \in cached' /\ request[q].row
              /\ request' = [request EXCEPT ![q].pc = "in"]
              /\ user' = [user EXCEPT ![p].vouched = @ \/ Exists(p)]
           \/ /\ p \in cached' /\ ~ request[q].row /\ ~ Exists(p)
              /\ request' = [request EXCEPT ![q].pc = "asking", ![q].list = {},
                                             ![q].row = TRUE,
                                             ![q].listed = p \in allowlist]
              /\ user' = [user EXCEPT ![p] = NewRow(p)]
        /\ UNCHANGED <<allowlist, unguarded>> /\ RestStays

\* The response of a sign-in that was admitted.
Answered(q) ==
    /\ Waits(q, "in")
    /\ request' = [request EXCEPT ![q] = Free]
    /\ UNCHANGED <<allowlist, cached, user, unguarded>> /\ RestStays

(* Sign-in through Auth0, which replaces the roster: the claims give the   *)
(* role, and it is written at every sign-in.  A row of another provider is *)
(* linked only when Auth0 has verified the address.                        *)
ResolveAuth0Role(p, verified, claim) ==
    IF verified /\ p \in BootAdmins THEN "admin" ELSE claim

Auth0SignIn(p, verified, claim) ==
    LET role == ResolveAuth0Role(p, verified, claim)
    IN  /\ Asks
        /\ ~ Exists(p) \/ user[p].auth0 \/ verified
        /\ user' = [user EXCEPT ![p] =
                      [role |-> role, auth0 |-> TRUE,
                       vouched |-> @.vouched \/ verified \/ claim = "admin"]]
        /\ unguarded' = (unguarded \/ (p \in Admins /\ role # "admin"))
        /\ UNCHANGED <<allowlist, cached, request>> /\ OthersStay

----------------------------------------------------------------------------
(* The panel's users. *)
Promote(p) ==
    /\ PanelAsks /\ Exists(p)
    /\ user' = [user EXCEPT ![p].role = "admin", ![p].vouched = TRUE]
    /\ UNCHANGED <<allowlist, cached, request, unguarded>> /\ OthersStay

Demote(p) ==
    /\ PanelAsks /\ Exists(p)
    /\ p \in Admins => Cardinality(Admins) > 1
    /\ user' = [user EXCEPT ![p].role = "student"]
    /\ UNCHANGED <<allowlist, cached, request, unguarded>> /\ OthersStay

(* The last admin is looked for when the deletion is requested, and the    *)
(* row goes when the container has been stopped.                           *)
Delete(q, p) ==
    /\ Exists(p) /\ (p \in Admins => Cardinality(Admins) > 1)
    /\ AskBegins(PanelAsks, q, "deleting", p, {})
    /\ UNCHANGED <<allowlist, cached, user, unguarded>> /\ OthersStay
Deleted(q) ==
    /\ Waits(q, "deleting")
    /\ user' = [user EXCEPT ![request[q].who] = NoRow]
    /\ unguarded' = (unguarded \/ Admins = {request[q].who})
    /\ request' = [request EXCEPT ![q] = Free]
    /\ UNCHANGED <<allowlist, cached>> /\ RestStays

----------------------------------------------------------------------------
(* Other hands: scripts, an editor, a restore. *)
Outside == outside < MaxOutside /\ outside' = outside + 1

CliEdits(p, add) ==
    /\ Outside /\ cli = Malformed /\ allowlist # Malformed
    /\ cli' = IF add THEN allowlist \cup {p} ELSE allowlist \ {p}
    /\ UNCHANGED <<requested, allowlist, cached, online, user, request, restarts, unguarded>>
CliRenames ==
    /\ cli # Malformed
    /\ allowlist' = cli /\ cli' = Malformed
    /\ request' = Seen(request, allowlist')
    /\ UNCHANGED <<requested, cached, online, user, outside, restarts, unguarded>>
FileReplaced(list) ==
    /\ Outside
    /\ allowlist' = list
    /\ request' = Seen(request, allowlist')
    /\ UNCHANGED <<requested, cached, online, user, cli, restarts, unguarded>>
CliSetsRole(p, role) ==
    /\ Outside /\ Exists(p)
    /\ user' = [user EXCEPT ![p].role = role, ![p].vouched = @ \/ role = "admin"]
    /\ unguarded' = (unguarded \/ (p \in Admins /\ role # "admin"))
    /\ UNCHANGED <<requested, allowlist, cached, online, request, cli, restarts>>

----------------------------------------------------------------------------
(* A crash forgets the requests.  Boot reads the file, which must be well  *)
(* formed, adds the administrators to it, and promotes those who have an   *)
(* account already, except where the account is Auth0's.                   *)
Crash ==
    /\ online /\ restarts < MaxRestarts
    /\ restarts' = restarts + 1
    /\ online' = FALSE /\ cached' = {}
    /\ request' = [q \in Requests |-> Free]
    /\ UNCHANGED <<requested, allowlist, user, cli, outside, unguarded>>

Seeded(p) == p \in BootAdmins /\ Exists(p) /\ ~ user[p].auth0
Boot ==
    /\ ~ online /\ allowlist # Malformed
    /\ online' = TRUE
    /\ cached' = allowlist \cup BootAdmins /\ allowlist' = cached'
    /\ user' = [p \in People |-> IF Seeded(p) THEN [user[p] EXCEPT !.role = "admin"]
                                 ELSE user[p]]
    /\ UNCHANGED <<requested, request, cli, outside, restarts, unguarded>>

AccountsNext ==
    \/ \E q \in Requests :
        \/ \E p \in People :
            AddEntry(q, p) \/ RemoveEntry(q, p) \/ SignIn(q, p) \/ Delete(q, p)
        \/ Renamed(q) \/ Saved(q) \/ Reload(q) \/ FileRead(q) \/ ReloadEnds(q)
        \/ Checked(q) \/ Answered(q) \/ Deleted(q)
    \/ \E p \in People :
        \/ Promote(p) \/ Demote(p)
        \/ \E v \in BOOLEAN, c \in {"student", "admin"} : Auth0SignIn(p, v, c)
        \/ \E add \in BOOLEAN : CliEdits(p, add)
        \/ \E r \in {"student", "admin"} : CliSetsRole(p, r)
    \/ CliRenames \/ (\E list \in Lists : FileReplaced(list))
    \/ Crash \/ Boot

AccountsSpec == AccountsInit /\ [][AccountsNext]_accountVars

----------------------------------------------------------------------------
(* Whoever signs in through GitHub or Google was on the roster, as it was  *)
(* on disk, at some time since the check that admitted them began, however *)
(* the control plane's copy is overtaken by edits, reloads and scripts;    *)
(* except while the file cannot be read.                                   *)
AdmittedWasListed ==
    \A q \in Requests : request[q].pc = "in" =>
        request[q].listed \/ request[q].list = Malformed

(* Only those for whom a verified address, an Auth0 role or a person       *)
(* vouches are admins: signing up with the address of an administrator is  *)
(* not enough, neither at sign-in nor at the next boot.                    *)
AdminIsVouchedFor == \A p \in Admins : user[p].vouched

(* Both: the roster decides who comes in, and a person who is an admin.    *)
RosterIsKept == AdmittedWasListed /\ AdminIsVouchedFor

(* The panel leaves an admin, except when the check of a deletion has been *)
(* overtaken.                                                              *)
PanelKeepsAnAdmin ==
    [][Admins # {} /\ Admins' = {} => unguarded']_accountVars

(* "Cannot delete the last admin user."  Broken: two deletions, or a       *)
(* deletion and a demotion, count the admins before either row is gone.    *)
AnAdminRemains ==
    [][\A q \in Requests :
        Waits(q, "deleting") /\ online' /\ request'[q].pc = "free" /\ Admins # {}
            => Admins' # {}]_accountVars

(* Who is admitted has a row.  Broken: the row may go while the hook after *)
(* the callback reads the file, and a workspace is then made for no one.   *)
AdmittedHasRow ==
    [][\A q \in Requests : request[q].pc = "asked" /\ request'[q].pc = "in"
                            => Exists(request[q].who)]_accountVars

(* At rest the copy is the file, unless other hands changed it.  Broken: a *)
(* reload reads the file, an edit replaces file and copy, and then the     *)
(* reload's answer replaces the copy; the next edit starts from it and     *)
(* undoes the one before.                                                  *)
CopyIsTheFile ==
    online /\ outside = 0 /\ (\A q \in Requests : request[q].pc = "free")
        => cached = allowlist
=============================================================================
