----------------------------- MODULE Household -----------------------------
(***************************************************************************)
(* Users, workspaces and who may do what in them: memberships with a role, *)
(* an external manager, archived workspaces, administrators, and the       *)
(* deletion of a user with what it owns.  A request reads in one step      *)
(* (authorisation and every check of the service) and writes in another,   *)
(* the commit; a process may stop between the two.  Workspaces are         *)
(* numbered in the order of their creation.                                *)
(***************************************************************************)
EXTENDS Naturals, FiniteSets

CONSTANTS
    Users, Spaces,
    First,       \* the administrator the set-up page created
    Second,      \* a user who registered, with a personal workspace
    MaxFlight,   \* bound: requests at the same time
    MaxEdits     \* bound: requests in all

Nobody == "nobody"

(* What the constants must be; the modules of the runs assume it.           *)
HouseholdAssumption ==
    /\ Nobody \notin Users
    /\ First \in Users /\ Second \in Users \ {First}
    /\ Spaces \subseteq Nat \ {0} /\ {1, 2} \subseteq Spaces
    /\ MaxFlight \in Nat /\ MaxEdits \in Nat

VARIABLES
    known,      \* user rows
    active,     \* is_active
    admins,     \* is_superuser
    made,       \* workspaces created
    archived,
    personal,   \* creator of a personal workspace, Nobody for another
    manager,    \* managed_by_user_id
    role,       \* workspace_members, NoRole = no row
    rows,       \* transactions: workspace, author, owner of the account
    request,    \* the request each user has in flight
    raced,      \* a request committed on what was no longer so
    edits

vars == <<known, active, admins, made, archived, personal, manager, role, rows,
          request, raced, edits>>

NoRole == "none"
Roles == {"owner", "editor", "viewer"}
RoleRank(r) == CASE r = "viewer" -> 1 [] r = "editor" -> 2 [] r = "owner" -> 3 [] OTHER -> 0

Ops == {"invite", "welcome", "role", "remove", "create", "archive", "book",
        "newuser", "update", "delete"}
Request == [op : Ops, space : Spaces \cup {0}, who : Users, as : Roles \cup {NoRole}]
NoRequest == [op |-> "none", space |-> 0, who |-> First, as |-> NoRole]

Init ==
    /\ known = {First, Second} /\ active = known /\ admins = {First}
    /\ made = {1, 2} /\ archived = {}
    /\ personal = [s \in Spaces |-> IF s = 1 THEN First ELSE IF s = 2 THEN Second ELSE Nobody]
    /\ manager = [s \in Spaces |-> Nobody]
    /\ role = [s \in Spaces |-> [u \in Users |->
                 IF u = personal[s] THEN "owner" ELSE NoRole]]
    /\ rows = {}
    /\ request = [u \in Users |-> NoRequest]
    /\ raced = FALSE
    /\ edits = 0
-----------------------------------------------------------------------------
(* get_membership, is_workspace_manager: the rank a user has, 3 for the     *)
(* manager who is not a member.                                             *)
Rank(s, u) ==
    IF role[s][u] # NoRole THEN RoleRank(role[s][u])
    ELSE IF manager[s] = u THEN 3 ELSE 0

Members(s) == {u \in Users : role[s][u] # NoRole}
Owners(s) == {u \in Users : role[s][u] = "owner"}

(* archive_workspace counts the memberships, then the managed workspaces.   *)
OthersOf(u, s) ==
    {o \in made \ (archived \cup {s}) : role[o][u] # NoRole \/ manager[o] = u}

Oldest(S) == IF S = {} THEN 0 ELSE CHOOSE s \in S : \A o \in S : s <= o

(* get_default_workspace: the oldest membership, else the oldest managed.   *)
Default(u) ==
    LET open == made \ archived
        member == {s \in open : role[s][u] # NoRole}
    IN  IF member # {} THEN Oldest(member) ELSE Oldest({s \in open : manager[s] = u})

SoleOwnerCounted(s, u) == Members(s) = {u}   \* fault: the members are counted

(* "Cannot demote / remove the sole owner".                                 *)
SoleOwner(s, u) == role[s][u] = "owner" /\ Owners(s) = {u}
-----------------------------------------------------------------------------
(* The checks of each endpoint.                                             *)
MayInvite(u, r) ==
    /\ r.space \in made /\ Rank(r.space, u) >= 3
    /\ r.who \in known /\ role[r.space][r.who] = NoRole /\ r.as \in Roles

MayChangeRole(u, r) ==
    /\ r.space \in made /\ Rank(r.space, u) >= 3
    /\ role[r.space][r.who] # NoRole /\ r.as \in Roles
    /\ r.as # "owner" => ~SoleOwner(r.space, r.who)

(* The endpoint compares with "owner": a manager removes nobody.            *)
MayRemove(u, r) ==
    /\ r.space \in made /\ Rank(r.space, u) >= 1
    /\ role[r.space][u] = "owner" \/ r.who = u
    /\ role[r.space][r.who] # NoRole
    /\ ~SoleOwner(r.space, r.who)

MayArchive(u, r) ==
    /\ r.space \in made \ archived /\ Rank(r.space, u) >= 3
    /\ OthersOf(u, r.space) # {}

MayBook(u, r) ==
    /\ r.space \in made \ archived /\ Rank(r.space, u) >= 2
    /\ r.who \in known /\ Rank(r.space, r.who) >= 2

(* is_active or is_superuser taken from another user.                       *)
MayUpdateUser(u, r) == u \in admins /\ r.who \in known \ {u}

(* The count is of the active administrators, whoever is deleted.           *)
MayDeleteUser(u, r) ==
    /\ u \in admins /\ r.who \in known \ {u}
    /\ r.who \in admins => Cardinality(admins \cap active) > 1

May(u, r) ==
    CASE r.op = "invite" -> MayInvite(u, r)
      [] r.op = "role" -> MayChangeRole(u, r)
      [] r.op = "remove" -> MayRemove(u, r)
      [] r.op = "archive" -> MayArchive(u, r)
      [] r.op = "book" -> MayBook(u, r)
      [] r.op = "update" -> MayUpdateUser(u, r)
      [] r.op = "delete" -> MayDeleteUser(u, r)
      [] OTHER -> TRUE
-----------------------------------------------------------------------------
Bounded == edits < MaxEdits /\ edits' = edits + 1
InFlight == {u \in Users : request[u] # NoRequest}

Accept(u, r) ==
    /\ u \in known \cap active /\ request[u] = NoRequest
    /\ Cardinality(InFlight) < MaxFlight
    /\ request' = [request EXCEPT ![u] = r]

(* An endpoint that only checks before it writes.                           *)
Ask(u, r) ==
    /\ Bounded
    /\ May(u, r)
    /\ Accept(u, r)
    /\ UNCHANGED <<known, active, admins, made, archived, personal, manager, role, rows, raced>>

(***************************************************************************)
(* The user row is committed first (user_manager.create); its workspace    *)
(* comes with the commit of the request.  invite_member does it for an     *)
(* unknown address, create_user for an administrator.                      *)
(***************************************************************************)
NewUser(u, r) ==
    /\ Bounded
    /\ r.who \in Users \ known
    /\ \/ r.op = "welcome" /\ r.space \in made /\ Rank(r.space, u) >= 3 /\ r.as \in Roles
       \/ r.op = "newuser" /\ u \in admins /\ r.space = 0
    /\ Accept(u, r)
    /\ known' = known \cup {r.who} /\ active' = active \cup {r.who}
    /\ UNCHANGED <<admins, made, archived, personal, manager, role, rows, raced>>

(* on_after_register: the sign-up page commits the user as well first.      *)
Register(u) ==
    /\ Bounded
    /\ u \in Users \ known /\ request[u] = NoRequest
    /\ Cardinality(InFlight) < MaxFlight
    /\ known' = known \cup {u} /\ active' = active \cup {u}
    /\ request' = [request EXCEPT ![u] = [op |-> "newuser", space |-> 0, who |-> u, as |-> NoRole]]
    /\ UNCHANGED <<admins, made, archived, personal, manager, role, rows, raced>>

Fresh == CHOOSE s \in Spaces \ made : \A o \in Spaces \ made : s <= o

Committing(u, op) ==
    /\ request[u].op = op
    /\ request' = [request EXCEPT ![u] = NoRequest]
    /\ raced' = (raced \/ u \notin known \cap active \/ ~May(u, request[u]))
    /\ UNCHANGED edits

(* add_member: the unique key refuses a second row, the foreign key a user  *)
(* who is gone.                                                             *)
Invite(u) ==
    LET r == request[u] IN
    /\ Committing(u, "invite")
    /\ role' = IF role[r.space][r.who] = NoRole /\ r.who \in known
               THEN [role EXCEPT ![r.space][r.who] = r.as] ELSE role
    /\ UNCHANGED <<known, active, admins, made, archived, personal, manager, rows>>

(* create_personal_workspace_for_user and add_member in one commit; a       *)
(* membership that came meanwhile refuses both.                             *)
PersonalSpace(who) ==
    /\ made' = made \cup {Fresh}
    /\ personal' = [personal EXCEPT ![Fresh] = who]

Welcome(u) ==
    LET r == request[u] IN
    /\ Committing(u, "welcome") /\ Spaces # made
    /\ IF r.who \in known /\ role[r.space][r.who] = NoRole
       THEN /\ PersonalSpace(r.who)
            /\ role' = [role EXCEPT ![Fresh][r.who] = "owner", ![r.space][r.who] = r.as]
       ELSE UNCHANGED <<made, personal, role>>
    /\ UNCHANGED <<known, active, admins, archived, manager, rows>>

Provision(u) ==
    LET r == request[u] IN
    /\ Committing(u, "newuser") /\ Spaces # made
    /\ IF r.who \in known
       THEN /\ PersonalSpace(r.who)
            /\ role' = [role EXCEPT ![Fresh][r.who] = "owner"]
       ELSE UNCHANGED <<made, personal, role>>
    /\ UNCHANGED <<known, active, admins, archived, manager, rows>>

(* update_member_role: an UPDATE of a row that is gone fails.               *)
ChangeRole(u) ==
    LET r == request[u] IN
    /\ Committing(u, "role")
    /\ role' = IF role[r.space][r.who] # NoRole
               THEN [role EXCEPT ![r.space][r.who] = r.as] ELSE role
    /\ UNCHANGED <<known, active, admins, made, archived, personal, manager, rows>>

Remove(u) ==
    LET r == request[u] IN
    /\ Committing(u, "remove")
    /\ role' = [role EXCEPT ![r.space][r.who] = NoRole]
    /\ UNCHANGED <<known, active, admins, made, archived, personal, manager, rows>>

(* create_workspace: the creator is its manager, and its owner with         *)
(* self_membership.                                                         *)
Create(u) ==
    LET r == request[u] IN
    /\ Committing(u, "create") /\ Spaces # made
    /\ IF u \in known
       THEN /\ made' = made \cup {Fresh}
            /\ manager' = [manager EXCEPT ![Fresh] = u]
            /\ role' = IF r.as = "owner" THEN [role EXCEPT ![Fresh][u] = "owner"] ELSE role
       ELSE UNCHANGED <<made, manager, role>>
    /\ UNCHANGED <<known, active, admins, archived, personal, rows>>

Archive(u) ==
    /\ Committing(u, "archive")
    /\ archived' = archived \cup {request[u].space}
    /\ UNCHANGED <<known, active, admins, made, personal, manager, role, rows>>

(* A row in a workspace, on the account of one of its users.                *)
Book(u) ==
    LET r == request[u] IN
    /\ Committing(u, "book")
    /\ rows' = IF {u, r.who} \subseteq known
               THEN rows \cup {[space |-> r.space, by |-> u, on |-> r.who]} ELSE rows
    /\ UNCHANGED <<known, active, admins, made, archived, personal, manager, role>>

(* update_user: deactivates (as = viewer), promotes (owner) or demotes.     *)
UpdateUser(u) ==
    LET r == request[u] IN
    /\ Committing(u, "update")
    /\ active' = IF r.as = "viewer" THEN active \ {r.who} ELSE active
    /\ admins' = CASE r.as = "editor" -> admins \ {r.who}
                   [] r.as = "owner" -> (admins \cup {r.who}) \cap known
                   [] OTHER -> admins
    /\ UNCHANGED <<known, made, archived, personal, manager, role, rows>>

(* The foreign keys: memberships go with the user, the manager is cleared,  *)
(* the user's rows are deleted first; a row of another user on an account   *)
(* of this one refuses the account, and the whole deletion with it.         *)
Gone(who) ==
    /\ known' = known \ {who} /\ active' = active \ {who} /\ admins' = admins \ {who}
    /\ role' = [s \in Spaces |-> [role[s] EXCEPT ![who] = NoRole]]
    /\ manager' = [s \in Spaces |-> IF manager[s] = who THEN Nobody ELSE manager[s]]
    /\ personal' = [s \in Spaces |-> IF personal[s] = who THEN Nobody ELSE personal[s]]

DeleteUser(u) ==
    LET r == request[u] IN
    /\ Committing(u, "delete")
    /\ IF \E x \in rows : x.on = r.who /\ x.by # r.who
       THEN UNCHANGED <<known, active, admins, role, manager, personal, rows>>
       ELSE Gone(r.who) /\ rows' = {x \in rows : x.by # r.who}
    /\ UNCHANGED <<made, archived>>

(* The process stops, or the client goes: what was not committed is lost.   *)
Lose(u) ==
    /\ request[u] # NoRequest
    /\ request' = [request EXCEPT ![u] = NoRequest]
    /\ UNCHANGED <<known, active, admins, made, archived, personal, manager, role, rows,
                   raced, edits>>

Asked(op, S, as) == [op : {op}, space : S, who : Users, as : as]

Next ==
    \E u \in Users :
        \/ \E r \in Asked("invite", Spaces, Roles) \cup Asked("role", Spaces, Roles)
                    \cup Asked("remove", Spaces, {NoRole}) \cup Asked("book", Spaces, {NoRole})
                    \cup Asked("update", {0}, Roles) \cup Asked("delete", {0}, {NoRole}) :
              Ask(u, r)
        \/ \E s \in Spaces : Ask(u, [op |-> "archive", space |-> s, who |-> u, as |-> NoRole])
        \/ \E a \in {"owner", NoRole} : Ask(u, [op |-> "create", space |-> 0, who |-> u, as |-> a])
        \/ \E r \in Asked("welcome", Spaces, Roles) \cup Asked("newuser", {0}, {NoRole}) :
              NewUser(u, r)
        \/ Register(u) \/ Invite(u) \/ Welcome(u) \/ Provision(u) \/ ChangeRole(u) \/ Remove(u)
        \/ Create(u) \/ Archive(u) \/ Book(u) \/ UpdateUser(u) \/ DeleteUser(u)
        \/ Lose(u)

Spec == Init /\ [][Next]_vars
-----------------------------------------------------------------------------
TypeOK ==
    /\ active \subseteq known /\ known \subseteq Users /\ admins \subseteq known
    /\ archived \subseteq made /\ made \subseteq Spaces
    /\ personal \in [Spaces -> Users \cup {Nobody}]
    /\ manager \in [Spaces -> known \cup {Nobody}]
    /\ role \in [Spaces -> [Users -> Roles \cup {NoRole}]]
    /\ \A s \in Spaces : Members(s) \subseteq known
    /\ rows \subseteq [space : made, by : known, on : known]
    /\ request \in [Users -> Request \cup {NoRequest}]
    /\ raced \in BOOLEAN /\ edits \in 0..MaxEdits

(* A workspace keeps somebody who can govern it, an owner or its manager,   *)
(* through every order of invitations, promotions, demotions and removals   *)
(* (workspace_service.py:326-336, 416-424), unless two requests crossed or  *)
(* the user itself was deleted.                                             *)
Governed(s) == Owners(s) # {} \/ manager[s] # Nobody

GovernedStep ==
    \A s \in made : Governed(s) /\ ~raced' /\ known \subseteq known' => Governed(s)'

StaysGoverned == [][GovernedStep]_vars

(* Somebody can always administer the installation: update_user protects    *)
(* only oneself and delete_user only the last of the active, yet no order   *)
(* of the two, with deactivations between, leaves no active administrator.  *)
AdminRemains == raced \/ admins \cap active # {}

(* Archiving leaves the one who archives a workspace to work in             *)
(* (workspace_service.py:371-400), whatever it is in the others.            *)
ArchiveStep ==
    \A u \in known : archived' # archived /\ request[u].op = "archive"
                     /\ request'[u] = NoRequest /\ ~raced' => Default(u)' # 0

ArchiverKeepsSpace == [][ArchiveStep]_vars

(* The deletion of a user takes away no row another user wrote.             *)
RowsStep == \A x \in rows \ rows' : x.by \notin known'

DeletionKeepsOthers == [][RowsStep]_vars

(* "A user always belongs to at least one workspace"                        *)
(* (workspace_service.py:3).                                                *)
AlwaysBelongs == \A u \in known : raced \/ InFlight # {} \/ Default(u) # 0
=============================================================================
