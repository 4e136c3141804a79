----------------------------- MODULE Membership -----------------------------
(***************************************************************************)
(* Who belongs to an organisation: the rows of user_organisation_roles of  *)
(* one organisation, and the requests that create the organisation,        *)
(* register and add users, assign roles and remove members                 *)
(* (organisation_repository_pg.rs, role_repository_pg.rs and the tenants   *)
(* services), with the service accounts of the organisation.               *)
(*                                                                         *)
(* remove_member_checked is a READ COMMITTED transaction of four           *)
(* statements.  PostgreSQL is modelled by what they rely on: a statement   *)
(* sees the rows committed when it starts; FOR UPDATE and DELETE visit     *)
(* those rows one by one in an unspecified order, wait for a row another   *)
(* transaction has locked and pass over one deleted meanwhile; locks last  *)
(* to the end of the transaction; a cycle of waiting transactions is       *)
(* broken by aborting one.                                                 *)
(*                                                                         *)
(* The FOR UPDATE has no OF clause, so it locks the joined row of `roles`, *)
(* too: RoleRow.  An insert of an owner row needs that row for its foreign *)
(* key and waits for it.  Inserts commit on their own, so they are atomic. *)
(***************************************************************************)
EXTENDS FiniteSets

CONSTANTS Users,
          Registered,       \* users that exist when the organisation is created
          Requests,         \* slots, each serving one remove or assign at a time
          SeedChoices,      \* values of seed_creator_as_owner
          RoleRow, NoRow, NoUser

Owner == "org_owner"
Roles == {Owner, "org_member"}
Rows == Users \X Roles

ASSUME MembershipAssumption ==
    /\ Registered \subseteq Users
    /\ SeedChoices \subseteq BOOLEAN
    /\ RoleRow \notin Rows /\ NoRow \notin Rows /\ RoleRow # NoRow
    /\ NoUser \notin Users

VARIABLES
    exists,   \* the organisation has been created
    account,  \* the users table: the kind of a user; a service account is of this
              \* organisation
    rows,     \* committed rows of the organisation
    phase,    \* where a request is
    target,   \* the user it is about
    todo,     \* rows its current statement has still to visit
    want,     \* the row that statement is locking
    locked,   \* row locks of its transaction
    deleted,  \* rows its transaction has deleted, unseen by others so far
    added     \* history: rows its target got since the owner check

tableVars == <<exists, account, rows>>
requestVars == <<phase, target, todo, want, locked, deleted, added>>
vars == <<tableVars, requestVars>>

Removing == {"check", "count", "lock", "is_owner", "begin_delete", "delete", "commit"}
Checked == {"begin_delete", "delete", "commit"}
Phase == {"idle", "is_member", "assign"} \cup Removing
Account == {"none", "human", "service_account", "deleted"}

TypeOK ==
    /\ exists \in BOOLEAN
    /\ account \in [Users -> Account]
    /\ rows \subseteq Rows
    /\ phase \in [Requests -> Phase]
    /\ target \in [Requests -> Users \cup {NoUser}]
    /\ todo \in [Requests -> SUBSET Rows]
    /\ want \in [Requests -> Rows \cup {RoleRow, NoRow}]
    /\ locked \in [Requests -> SUBSET (Rows \cup {RoleRow})]
    /\ deleted \in [Requests -> SUBSET Rows]
    /\ added \in [Requests -> SUBSET Rows]

Init ==
    /\ exists = FALSE
    /\ account = [u \in Users |-> IF u \in Registered THEN "human" ELSE "none"]
    /\ rows = {}
    /\ phase = [r \in Requests |-> "idle"]
    /\ target = [r \in Requests |-> NoUser]
    /\ todo = [r \in Requests |-> {}]
    /\ want = [r \in Requests |-> NoRow]
    /\ locked = [r \in Requests |-> {}]
    /\ deleted = [r \in Requests |-> {}]
    /\ added = [r \in Requests |-> {}]

-----------------------------------------------------------------------------
Live(u) == account[u] \in {"human", "service_account"}
RowsOf(u) == {k \in rows : k[1] = u}
OwnerRows == {k \in rows : k[2] = Owner}

\* No transaction but that of r has locked row k.
Free(r, k) == \A q \in Requests \ {r} : k \notin locked[q]

\* The transaction of r is over, by commit, rollback or abort; its locks go.
End(r) ==
    /\ phase' = [phase EXCEPT ![r] = "idle"]
    /\ target' = [target EXCEPT ![r] = NoUser]
    /\ todo' = [todo EXCEPT ![r] = {}]
    /\ want' = [want EXCEPT ![r] = NoRow]
    /\ locked' = [locked EXCEPT ![r] = {}]
    /\ deleted' = [deleted EXCEPT ![r] = {}]
    /\ added' = [added EXCEPT ![r] = {}]

Begin(r, u, p) ==
    /\ exists
    /\ phase[r] = "idle"
    /\ phase' = [phase EXCEPT ![r] = p]
    /\ target' = [target EXCEPT ![r] = u]
    /\ UNCHANGED <<tableVars, todo, want, locked, deleted, added>>

\* INSERT ... ON CONFLICT DO NOTHING of row k.  It waits for a transaction that is
\* deleting the same row and, if there is a row to insert, for the key of its role.
InsertCanRun(k) ==
    /\ \A r \in Requests : k \notin deleted[r]
    /\ k \notin rows /\ k[2] = Owner => \A r \in Requests : RoleRow \notin locked[r]

NoteAdded(k) ==
    added' = [r \in Requests |->
                IF k \notin rows /\ target[r] = k[1] /\ phase[r] \in Checked
                THEN added[r] \cup {k} ELSE added[r]]

-----------------------------------------------------------------------------
(* Organisations and users *)

\* One statement, or one transaction with the creator's row.
create == rows' = {}

create_with_initial_owner(u) == rows' = {<<u, Owner>>}

create_organisation(u, seed) ==
    /\ ~exists
    /\ Live(u)
    /\ exists' = TRUE
    /\ IF seed THEN create_with_initial_owner(u) ELSE create
    /\ UNCHANGED <<account, requestVars>>

\* The user and its first row commit together.
create_and_add_to_org(u, role) ==
    /\ InsertCanRun(<<u, role>>)
    /\ account' = [account EXCEPT ![u] = "human"]
    /\ rows' = rows \cup {<<u, role>>}
    /\ NoteAdded(<<u, role>>)

\* Fails for a user name or e-mail address that is taken, and without organisation.
register_user(u, role) ==
    /\ exists
    /\ account[u] = "none"
    /\ create_and_add_to_org(u, role)
    /\ UNCHANGED <<exists, phase, target, todo, want, locked, deleted>>

\* add_user_to_organisation: a missing user violates the foreign key.
add_member(u, role) ==
    /\ exists
    /\ Live(u)
    /\ InsertCanRun(<<u, role>>)
    /\ rows' = rows \cup {<<u, role>>}
    /\ NoteAdded(<<u, role>>)
    /\ UNCHANGED <<exists, account, phase, target, todo, want, locked, deleted>>

\* Mutant of create_service_account: a kind that the CHECK of the table refuses.
create_service_account_ShortKind(u) ==
    /\ exists
    /\ account[u] = "none"
    /\ account' = [account EXCEPT ![u] = "service"]
    /\ UNCHANGED <<exists, rows, requestVars>>

create_service_account(u) ==
    /\ exists
    /\ account[u] = "none"
    /\ account' = [account EXCEPT ![u] = "service_account"]
    /\ UNCHANGED <<exists, rows, requestVars>>

\* The delete of the user cascades to its rows; there is no owner check.
delete_service_account(u) ==
    /\ account[u] = "service_account"
    /\ \A k \in RowsOf(u), r \in Requests : k \notin locked[r]
    /\ account' = [account EXCEPT ![u] = "deleted"]
    /\ rows' = rows \ RowsOf(u)
    /\ UNCHANGED <<exists, requestVars>>

-----------------------------------------------------------------------------
(* assign_role: the membership check and the insert are separate statements. *)

assign_role(r, u) == Begin(r, u, "is_member")

is_member(r) ==
    /\ phase[r] = "is_member"
    /\ \/ /\ RowsOf(target[r]) = {}
          /\ End(r)
       \/ /\ RowsOf(target[r]) # {}
          /\ phase' = [phase EXCEPT ![r] = "assign"]
          /\ UNCHANGED <<target, todo, want, locked, deleted, added>>
    /\ UNCHANGED tableVars

\* The insert; if the user is gone by now it fails on the foreign key.
assign(r, role) ==
    LET k == <<target[r], role>>
    IN  /\ phase[r] = "assign"
        /\ InsertCanRun(k)
        /\ \/ /\ Live(target[r])
              /\ rows' = rows \cup {k}
              /\ NoteAdded(k)
           \/ /\ ~Live(target[r])
              /\ UNCHANGED <<rows, added>>
        /\ phase' = [phase EXCEPT ![r] = "idle"]
        /\ target' = [target EXCEPT ![r] = NoUser]
        /\ UNCHANGED <<exists, account, todo, want, locked, deleted>>

-----------------------------------------------------------------------------
(* remove_member_checked *)

remove_user_from_organisation(r, u) == Begin(r, u, "check")

\* The first statement takes no lock.  NotMember ends the transaction.
CheckMember(r) ==
    /\ phase[r] = "check"
    /\ \/ /\ RowsOf(target[r]) = {}
          /\ End(r)
       \/ /\ RowsOf(target[r]) # {}
          /\ phase' = [phase EXCEPT ![r] = "count"]
          /\ UNCHANGED <<target, todo, want, locked, deleted, added>>
    /\ UNCHANGED tableVars

\* SELECT COUNT(*) ... FOR UPDATE starts: the owner rows of the other users.
CountOwners(r) ==
    /\ phase[r] = "count"
    /\ todo' = [todo EXCEPT ![r] = OwnerRows \ RowsOf(target[r])]
    /\ phase' = [phase EXCEPT ![r] = "lock"]
    /\ UNCHANGED <<tableVars, target, want, locked, deleted, added>>

\* FOR UPDATE and DELETE turn to the next row of their snapshot.
Visit(r) ==
    /\ phase[r] \in {"lock", "delete"}
    /\ want[r] = NoRow
    /\ \E k \in todo[r] : want' = [want EXCEPT ![r] = k]
    /\ UNCHANGED <<tableVars, phase, target, todo, locked, deleted, added>>

\* The row is deleted by now: it does not count.
SkipRow(r) ==
    /\ want[r] \in Rows
    /\ Free(r, want[r])
    /\ want[r] \notin rows
    /\ todo' = [todo EXCEPT ![r] = @ \ {want[r]}]
    /\ want' = [want EXCEPT ![r] = NoRow]
    /\ UNCHANGED <<tableVars, phase, target, locked, deleted, added>>

\* FOR UPDATE locks the row and then the row of `roles` it is joined with.
LockOwner(r) ==
    /\ phase[r] = "lock"
    /\ want[r] \in rows
    /\ Free(r, want[r])
    /\ locked' = [locked EXCEPT ![r] = @ \cup {want[r]}]
    /\ todo' = [todo EXCEPT ![r] = @ \ {want[r]}]
    /\ want' = [want EXCEPT ![r] = IF RoleRow \in locked[r] THEN NoRow ELSE RoleRow]
    /\ UNCHANGED <<tableVars, phase, target, deleted, added>>

LockRole(r) ==
    /\ want[r] = RoleRow
    /\ Free(r, RoleRow)
    /\ locked' = [locked EXCEPT ![r] = @ \cup {RoleRow}]
    /\ want' = [want EXCEPT ![r] = NoRow]
    /\ UNCHANGED <<tableVars, phase, target, todo, deleted, added>>

Counted(r) ==
    /\ phase[r] = "lock" /\ todo[r] = {} /\ want[r] = NoRow
    /\ phase' = [phase EXCEPT ![r] = "is_owner"]
    /\ UNCHANGED <<tableVars, target, todo, want, locked, deleted, added>>

\* Mutant of CheckOwner: the target counts as an owner that remains.
CheckOwner_CountsTarget(r) ==
    /\ phase[r] = "is_owner"
    /\ \/ OwnerRows = {} /\ End(r)
       \/ /\ OwnerRows # {}
          /\ phase' = [phase EXCEPT ![r] = "begin_delete"]
          /\ UNCHANGED <<target, todo, want, locked, deleted, added>>
    /\ UNCHANGED tableVars

\* The locked rows are the other owners.  LastOwner ends the transaction.
CheckOwner(r) ==
    /\ phase[r] = "is_owner"
    /\ \/ /\ <<target[r], Owner>> \in rows /\ locked[r] = {}
          /\ End(r)
       \/ /\ ~(<<target[r], Owner>> \in rows /\ locked[r] = {})
          /\ phase' = [phase EXCEPT ![r] = "begin_delete"]
          /\ UNCHANGED <<target, todo, want, locked, deleted, added>>
    /\ UNCHANGED tableVars

\* Mutant of BeginDelete: only the owner role is taken away.
BeginDelete_OwnerOnly(r) ==
    /\ phase[r] = "begin_delete"
    /\ todo' = [todo EXCEPT ![r] = RowsOf(target[r]) \cap OwnerRows]
    /\ phase' = [phase EXCEPT ![r] = "delete"]
    /\ UNCHANGED <<tableVars, target, want, locked, deleted, added>>

\* DELETE starts: all rows of the target.
BeginDelete(r) ==
    /\ phase[r] = "begin_delete"
    /\ todo' = [todo EXCEPT ![r] = RowsOf(target[r])]
    /\ phase' = [phase EXCEPT ![r] = "delete"]
    /\ UNCHANGED <<tableVars, target, want, locked, deleted, added>>

DeleteRow(r) ==
    /\ phase[r] = "delete"
    /\ want[r] \in rows
    /\ Free(r, want[r])
    /\ locked' = [locked EXCEPT ![r] = @ \cup {want[r]}]
    /\ deleted' = [deleted EXCEPT ![r] = @ \cup {want[r]}]
    /\ todo' = [todo EXCEPT ![r] = @ \ {want[r]}]
    /\ want' = [want EXCEPT ![r] = NoRow]
    /\ UNCHANGED <<tableVars, phase, target, added>>

Deleted(r) ==
    /\ phase[r] = "delete" /\ todo[r] = {} /\ want[r] = NoRow
    /\ phase' = [phase EXCEPT ![r] = "commit"]
    /\ UNCHANGED <<tableVars, target, todo, want, locked, deleted, added>>

\* Mutant of commit: the locks stay with the session.
commit_KeepsLocks(r) ==
    /\ phase[r] = "commit"
    /\ rows' = rows \ deleted[r]
    /\ phase' = [phase EXCEPT ![r] = "idle"]
    /\ target' = [target EXCEPT ![r] = NoUser]
    /\ UNCHANGED <<exists, account, todo, want, locked, deleted, added>>

\* Ok, however many rows were deleted.
commit(r) ==
    /\ phase[r] = "commit"
    /\ rows' = rows \ deleted[r]
    /\ End(r)
    /\ UNCHANGED <<exists, account>>

\* A statement fails, or the client leaves and the handler is dropped.
Rollback(r) ==
    /\ phase[r] # "idle"
    /\ End(r)
    /\ UNCHANGED tableVars

\* r waits for a lock of q.
Waits(r, q) == q # r /\ want[r] \in locked[q]

\* PostgreSQL aborts one of the transactions of a cycle.
DeadlockAbort(r) ==
    /\ \/ \E q \in Requests : Waits(r, q) /\ Waits(q, r)
       \/ \E p, q \in Requests : Waits(r, p) /\ Waits(p, q) /\ Waits(q, r)
    /\ End(r)
    /\ UNCHANGED tableVars

Next ==
    \/ \E u \in Users, seed \in SeedChoices : create_organisation(u, seed)
    \/ \E u \in Users, role \in Roles : register_user(u, role)
    \/ \E u \in Users, role \in Roles : add_member(u, role)
    \/ \E u \in Users : create_service_account(u)
    \/ \E u \in Users : delete_service_account(u)
    \/ \E r \in Requests, u \in Users : assign_role(r, u)
    \/ \E r \in Requests : is_member(r)
    \/ \E r \in Requests, role \in Roles : assign(r, role)
    \/ \E r \in Requests, u \in Users : remove_user_from_organisation(r, u)
    \/ \E r \in Requests : CheckMember(r)
    \/ \E r \in Requests : CountOwners(r)
    \/ \E r \in Requests : Visit(r)
    \/ \E r \in Requests : SkipRow(r)
    \/ \E r \in Requests : LockOwner(r)
    \/ \E r \in Requests : LockRole(r)
    \/ \E r \in Requests : Counted(r)
    \/ \E r \in Requests : CheckOwner(r)
    \/ \E r \in Requests : BeginDelete(r)
    \/ \E r \in Requests : DeleteRow(r)
    \/ \E r \in Requests : Deleted(r)
    \/ \E r \in Requests : commit(r)
    \/ \E r \in Requests : Rollback(r)
    \/ \E r \in Requests : DeadlockAbort(r)

Spec == Init /\ [][Next]_vars

\* What a removal does by itself, unless it waits.
RemoveStep(r) ==
    \/ CheckMember(r) \/ CountOwners(r) \/ Visit(r) \/ SkipRow(r) \/ LockOwner(r)
    \/ LockRole(r) \/ Counted(r) \/ CheckOwner(r) \/ BeginDelete(r) \/ DeleteRow(r)
    \/ Deleted(r) \/ commit(r)

\* Statements run unless they wait, and cycles of waiting transactions are broken.
FairSpec ==
    /\ Spec
    /\ \A r \in Requests : SF_vars(RemoveStep(r)) /\ WF_vars(DeadlockAbort(r))

-----------------------------------------------------------------------------
(* What membership guarantees *)

Commits(r) == phase[r] = "commit" /\ phase'[r] = "idle" /\ rows' # rows

\* Removals never take the last owner: an organisation that has an owner keeps one,
\* however many removals, assignments and registrations run at once, unless the
\* removed user was made an owner between the owner check and the commit of the
\* removal, or the owner was a service account that was deleted.
OwnerKept ==
    [][OwnerRows # {} =>
         \/ OwnerRows' # {}
         \/ \E r \in Requests : Commits(r) /\ <<target[r], Owner>> \in added[r]
         \/ \E u \in Users : account[u] = "service_account" /\ account'[u] = "deleted"]_vars

\* A removal that commits leaves the user no role, except roles given to it while
\* the removal was under way.
RemovalIsComplete ==
    [][\A r \in Requests :
         Commits(r) => {k \in rows' : k[1] = target[r]} \subseteq added[r]]_vars

\* Every removal ends, although removals wait for each other's locks.
RemovalsEnd ==
    \A r \in Requests : phase[r] \in Removing ~> phase[r] = "idle"

\* The documented contract of the removal: at least one owner remains.
OwnerRemains ==
    [][(\E r \in Requests : Commits(r)) /\ OwnerRows # {} => OwnerRows' # {}]_vars
=============================================================================
