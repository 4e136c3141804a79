-------------------------- MODULE MembershipProofs --------------------------
(***************************************************************************)
(* Proofs, for any number of users and concurrent requests, that removals  *)
(* keep an owner and are complete (up to the exceptions the properties     *)
(* name).  The inductive invariant says what the locks of a removal mean   *)
(* at each of its statements.                                              *)
(***************************************************************************)
EXTENDS Membership, TLAPS

OtherOwners(r) == (Users \ {target[r]}) \X {Owner}

\* The removal of r has locked the owner row of somebody else.
Guarded(r) == \E k \in OtherOwners(r) : k \in locked[r]

\* What holds of one request: its locks are on live rows; while it counts they are
\* owner rows of others; past the owner check one of them is held, or the target is
\* no owner, or became one since; past the delete no row of the target is missed.
RequestOK(r) ==
    /\ phase[r] # "idle" => target[r] \in Users
    /\ locked[r] \subseteq rows \cup {RoleRow}
    /\ deleted[r] \subseteq locked[r] /\ deleted[r] \subseteq {target[r]} \X Roles
    /\ phase[r] \notin {"lock", "delete"} => want[r] = NoRow
    /\ phase[r] \in {"idle", "is_member", "assign", "check", "count"} => locked[r] = {}
    /\ phase[r] = "lock" => /\ todo[r] \subseteq OtherOwners(r)
                            /\ want[r] \in todo[r] \cup {RoleRow, NoRow}
                            /\ want[r] = RoleRow => Guarded(r)
    /\ phase[r] \in {"lock", "is_owner"} /\ locked[r] # {} => Guarded(r)
    /\ phase[r] \in Checked =>
         Guarded(r) \/ <<target[r], Owner>> \notin rows \/ <<target[r], Owner>> \in added[r]
    /\ phase[r] = "delete" => /\ want[r] \in todo[r] \cup {NoRow}
                              /\ todo[r] \subseteq {target[r]} \X Roles
                              /\ RowsOf(target[r]) \subseteq deleted[r] \cup todo[r] \cup added[r]
    /\ phase[r] = "commit" => RowsOf(target[r]) \subseteq deleted[r] \cup added[r]

\* No row is locked twice.
Exclusive == \A q, r \in Requests : q # r => locked[q] \cap locked[r] = {}

LockInv ==
    /\ TypeOK
    /\ Exclusive
    /\ \A r \in Requests : RequestOK(r)

\* Before the organisation exists nothing refers to it.
Fresh == ~exists => rows = {} /\ \A r \in Requests : phase[r] = "idle"

IInv == LockInv /\ Fresh

USE MembershipAssumption

LEMMA InitLockInv == Init => LockInv
  <1> SUFFICES ASSUME Init PROVE LockInv
    OBVIOUS
  <1>1. TypeOK
    BY DEF Init, TypeOK, Phase, Account
  <1>2. Exclusive
    BY DEF Init, Exclusive
  <1>3. \A r \in Requests : RequestOK(r)
    BY DEF Init, RequestOK, Checked
  <1> QED BY <1>1, <1>2, <1>3 DEF LockInv

\* A request that does not move keeps its knowledge when rows it has not locked
\* disappear.
LEMMA RowsDisappear ==
    ASSUME NEW q \in Requests, RequestOK(q), rows' \subseteq rows,
           locked[q] \subseteq rows' \cup {RoleRow},
           phase'[q] = phase[q], target'[q] = target[q], todo'[q] = todo[q],
           want'[q] = want[q], locked'[q] = locked[q], deleted'[q] = deleted[q],
           added'[q] = added[q]
    PROVE  RequestOK(q)'
  <1>1. Guarded(q)' <=> Guarded(q)
    BY DEF Guarded, OtherOwners
  <1>2. OtherOwners(q)' = OtherOwners(q)
    BY DEF OtherOwners
  <1>3. RowsOf(target[q])' \subseteq RowsOf(target[q])
    BY DEF RowsOf
  <1> QED BY <1>1, <1>2, <1>3 DEF RequestOK

\* When a row is inserted, NoteAdded tells those it matters to.
LEMMA RowAppears ==
    ASSUME NEW q \in Requests, RequestOK(q), NEW k \in Rows,
           rows' = rows \cup {k}, NoteAdded(k),
           phase'[q] = phase[q], target'[q] = target[q], todo'[q] = todo[q],
           want'[q] = want[q], locked'[q] = locked[q], deleted'[q] = deleted[q]
    PROVE  RequestOK(q)'
  <1>1. (Guarded(q)' <=> Guarded(q)) /\ OtherOwners(q)' = OtherOwners(q)
    BY DEF Guarded, OtherOwners
  <1>2. /\ added[q] \subseteq added'[q]
        /\ phase[q] \in Checked /\ k \notin rows /\ k[1] = target[q] => k \in added'[q]
    BY DEF NoteAdded
  <1>3. RowsOf(target[q])' \subseteq
          RowsOf(target[q]) \cup (IF k \notin rows /\ k[1] = target[q] THEN {k} ELSE {})
    BY DEF RowsOf
  <1>4. phase[q] \in Checked =>
          \/ Guarded(q) \/ <<target[q], Owner>> \notin rows'
          \/ <<target[q], Owner>> \in added'[q]
    BY <1>2 DEF RequestOK
  <1>5. phase[q] = "delete" =>
          RowsOf(target[q])' \subseteq deleted[q] \cup todo[q] \cup added'[q]
    BY <1>2, <1>3 DEF RequestOK, Checked
  <1>6. phase[q] = "commit" => RowsOf(target[q])' \subseteq deleted[q] \cup added'[q]
    BY <1>2, <1>3 DEF RequestOK, Checked
  <1> QED BY <1>1, <1>4, <1>5, <1>6 DEF RequestOK

\* A request that has ended knows nothing.
LEMMA Ended ==
    ASSUME TypeOK, Exclusive, NEW r \in Requests, End(r)
    PROVE  /\ RequestOK(r)' /\ Exclusive'
           /\ phase' \in [Requests -> Phase] /\ target' \in [Requests -> Users \cup {NoUser}]
           /\ todo' \in [Requests -> SUBSET Rows]
           /\ want' \in [Requests -> Rows \cup {RoleRow, NoRow}]
           /\ locked' \in [Requests -> SUBSET (Rows \cup {RoleRow})]
           /\ deleted' \in [Requests -> SUBSET Rows] /\ added' \in [Requests -> SUBSET Rows]
  <1>1. /\ phase'[r] = "idle" /\ want'[r] = NoRow /\ locked'[r] = {} /\ deleted'[r] = {}
    BY DEF End, TypeOK
  <1>2. RequestOK(r)'
    BY <1>1 DEF RequestOK, Checked
  <1>3. Exclusive'
    BY DEF End, TypeOK, Exclusive
  <1>4. /\ phase' \in [Requests -> Phase] /\ target' \in [Requests -> Users \cup {NoUser}]
        /\ todo' \in [Requests -> SUBSET Rows]
        /\ want' \in [Requests -> Rows \cup {RoleRow, NoRow}]
        /\ locked' \in [Requests -> SUBSET (Rows \cup {RoleRow})]
        /\ deleted' \in [Requests -> SUBSET Rows] /\ added' \in [Requests -> SUBSET Rows]
    BY DEF End, TypeOK, Phase
  <1> QED BY <1>2, <1>3, <1>4

\* The rest stands still while r ends.
LEMMA OthersUnmoved ==
    ASSUME TypeOK, NEW r \in Requests, End(r), NEW q \in Requests \ {r}
    PROVE  /\ phase'[q] = phase[q] /\ target'[q] = target[q] /\ todo'[q] = todo[q]
           /\ want'[q] = want[q] /\ locked'[q] = locked[q] /\ deleted'[q] = deleted[q]
           /\ added'[q] = added[q]
  BY DEF TypeOK, End

\* Rollback, an abort and every early return.
LEMMA EndLockInv ==
    ASSUME LockInv, NEW r \in Requests, End(r), UNCHANGED tableVars
    PROVE  LockInv'
  <1>1. TypeOK'
    BY Ended DEF LockInv, TypeOK, tableVars
  <1>2. ASSUME NEW q \in Requests \ {r} PROVE RequestOK(q)'
    <2>1. RequestOK(q) /\ TypeOK /\ locked[q] \subseteq rows \cup {RoleRow} /\ rows' = rows
      BY DEF LockInv, RequestOK, tableVars
    <2> QED BY <2>1, OthersUnmoved, RowsDisappear
  <1> QED BY <1>1, <1>2, Ended DEF LockInv

Unmoved(q) ==
    /\ phase'[q] = phase[q] /\ target'[q] = target[q] /\ todo'[q] = todo[q]
    /\ want'[q] = want[q] /\ locked'[q] = locked[q] /\ deleted'[q] = deleted[q]
    /\ added'[q] = added[q]

\* A step of r alone: it is enough to look at r.
LEMMA OwnStep ==
    ASSUME LockInv, NEW r \in Requests, UNCHANGED tableVars, TypeOK', Exclusive',
           RequestOK(r)', \A q \in Requests \ {r} : Unmoved(q)
    PROVE  LockInv'
  <1>1. ASSUME NEW q \in Requests \ {r} PROVE RequestOK(q)'
    <2>1. RequestOK(q) /\ locked[q] \subseteq rows \cup {RoleRow} /\ rows' = rows
      BY DEF LockInv, RequestOK, tableVars
    <2> QED BY <2>1, RowsDisappear DEF Unmoved
  <1> QED BY <1>1 DEF LockInv

LEMMA BeginLockInv ==
    ASSUME LockInv, NEW r \in Requests, NEW u \in Users, NEW p \in {"is_member", "check"},
           Begin(r, u, p)
    PROVE  LockInv'
  <1>1. TypeOK' /\ Exclusive'
    BY DEF LockInv, TypeOK, Begin, Phase, Removing, Exclusive, tableVars
  <1>2. \A q \in Requests \ {r} : Unmoved(q)
    BY DEF LockInv, TypeOK, Begin, Unmoved
  <1>3. /\ phase'[r] = p /\ target'[r] = u /\ locked'[r] = {} /\ want'[r] = NoRow
        /\ deleted'[r] = {}
    BY DEF LockInv, TypeOK, Begin, RequestOK
  <1>4. RequestOK(r)'
    BY <1>3 DEF RequestOK, Checked
  <1>5. UNCHANGED tableVars
    BY DEF Begin
  <1> QED BY <1>1, <1>2, <1>4, <1>5, OwnStep

\* The steps up to the owner check.
LEMMA CountingLockInv ==
    ASSUME LockInv, NEW r \in Requests,
           CheckMember(r) \/ CountOwners(r) \/ LockOwner(r) \/ LockRole(r)
             \/ Counted(r) \/ CheckOwner(r) \/ is_member(r)
    PROVE  LockInv'
  <1>0. RequestOK(r) /\ TypeOK /\ Exclusive
    BY DEF LockInv
  <1>1. CASE End(r) /\ UNCHANGED tableVars
    BY <1>1, EndLockInv
  <1>2. CASE (CheckMember(r) \/ is_member(r)) /\ ~End(r)
    <2>1. /\ phase[r] \in {"check", "is_member"} /\ RowsOf(target[r]) # {}
          /\ phase' = [phase EXCEPT ![r] = IF phase[r] = "check" THEN "count" ELSE "assign"]
          /\ UNCHANGED <<tableVars, target, todo, want, locked, deleted, added>>
      BY <1>2 DEF CheckMember, is_member
    <2>2. TypeOK' /\ Exclusive' /\ \A q \in Requests \ {r} : Unmoved(q)
      BY <1>0, <2>1 DEF TypeOK, Phase, Removing, Exclusive, Unmoved, tableVars
    <2>3. /\ phase'[r] \in {"count", "assign"} /\ rows' = rows
          /\ phase'[r] = "count" => phase[r] = "check"
      BY <1>0, <2>1 DEF TypeOK, tableVars
    <2>4. RequestOK(r)'
      BY <1>0, <2>1, <2>3 DEF RequestOK, Checked
    <2> QED BY <2>1, <2>2, <2>4, OwnStep
  <1>3. CASE CountOwners(r)
    <2>1. TypeOK' /\ Exclusive' /\ UNCHANGED tableVars /\ \A q \in Requests \ {r} : Unmoved(q)
      BY <1>0, <1>3 DEF CountOwners, TypeOK, Phase, Removing, Exclusive, Unmoved,
                        tableVars, OwnerRows
    <2>2. /\ phase[r] = "count" /\ phase'[r] = "lock" /\ target'[r] = target[r]
          /\ todo'[r] = OwnerRows \ RowsOf(target[r]) /\ want'[r] = NoRow /\ locked'[r] = {}
          /\ deleted'[r] = {}
      BY <1>0, <1>3 DEF CountOwners, TypeOK, RequestOK
    <2>3. OwnerRows \ RowsOf(target[r]) \subseteq OtherOwners(r)'
      BY <1>0, <2>2 DEF OwnerRows, RowsOf, OtherOwners, TypeOK, Rows
    <2>4. RequestOK(r)'
      BY <1>0, <2>2, <2>3 DEF RequestOK, Checked
    <2> QED BY <2>1, <2>4, OwnStep
  <1>4. CASE LockOwner(r)
    <2>1. /\ phase[r] = "lock" /\ want[r] \in rows /\ Free(r, want[r])
          /\ UNCHANGED <<tableVars, phase, target, deleted, added>>
          /\ locked'[r] = locked[r] \cup {want[r]} /\ todo'[r] \subseteq todo[r]
          /\ want'[r] \in {RoleRow, NoRow}
      BY <1>0, <1>4 DEF LockOwner, TypeOK
    <2>2. TypeOK' /\ \A q \in Requests \ {r} : Unmoved(q)
      BY <1>0, <1>4 DEF LockOwner, TypeOK, Unmoved, tableVars
    <2>3. Exclusive'
      BY <1>0, <2>1, <2>2 DEF Exclusive, Free, Unmoved
    <2>4. want[r] \in OtherOwners(r)
      BY <1>0, <2>1 DEF RequestOK, TypeOK
    <2>5. Guarded(r)' /\ OtherOwners(r)' = OtherOwners(r)
      BY <2>1, <2>4 DEF Guarded, OtherOwners
    <2>6. RequestOK(r)'
      BY <1>0, <2>1, <2>5 DEF RequestOK, Checked, tableVars
    <2> QED BY <2>1, <2>2, <2>3, <2>6, OwnStep
  <1>5. CASE LockRole(r)
    <2>1. /\ want[r] = RoleRow /\ Free(r, RoleRow)
          /\ UNCHANGED <<tableVars, phase, target, todo, deleted, added>>
          /\ locked'[r] = locked[r] \cup {RoleRow} /\ want'[r] = NoRow
      BY <1>0, <1>5 DEF LockRole, TypeOK
    <2>2. TypeOK' /\ \A q \in Requests \ {r} : Unmoved(q)
      BY <1>0, <1>5 DEF LockRole, TypeOK, Unmoved, tableVars
    <2>3. Exclusive'
      BY <1>0, <2>1, <2>2 DEF Exclusive, Free, Unmoved
    <2>4. phase[r] = "lock"
      BY <1>0, <2>1 DEF RequestOK, TypeOK
    <2>5. Guarded(r)' /\ OtherOwners(r)' = OtherOwners(r)
      BY <1>0, <2>1, <2>4 DEF Guarded, OtherOwners, RequestOK
    <2>6. RequestOK(r)'
      BY <1>0, <2>1, <2>4, <2>5 DEF RequestOK, Checked, tableVars
    <2> QED BY <2>1, <2>2, <2>3, <2>6, OwnStep
  <1>6. CASE Counted(r)
    <2>1. /\ phase[r] = "lock" /\ phase'[r] = "is_owner" /\ want[r] = NoRow
          /\ UNCHANGED <<tableVars, target, todo, want, locked, deleted, added>>
      BY <1>0, <1>6 DEF Counted, TypeOK
    <2>2. TypeOK' /\ Exclusive' /\ \A q \in Requests \ {r} : Unmoved(q)
      BY <1>0, <1>6 DEF Counted, TypeOK, Phase, Removing, Exclusive, Unmoved, tableVars
    <2>3. RequestOK(r)'
      BY <1>0, <2>1 DEF RequestOK, Checked, Guarded, OtherOwners, tableVars
    <2> QED BY <2>1, <2>2, <2>3, OwnStep
  <1>7. CASE CheckOwner(r) /\ ~End(r)
    <2>1. /\ phase[r] = "is_owner" /\ phase' = [phase EXCEPT ![r] = "begin_delete"]
          /\ <<target[r], Owner>> \notin rows \/ locked[r] # {}
          /\ UNCHANGED <<tableVars, target, todo, want, locked, deleted, added>>
      BY <1>7 DEF CheckOwner
    <2>2. TypeOK' /\ Exclusive' /\ \A q \in Requests \ {r} : Unmoved(q)
      BY <1>0, <2>1 DEF TypeOK, Phase, Removing, Exclusive, Unmoved, tableVars
    <2>3. phase'[r] = "begin_delete"
      BY <1>0, <2>1 DEF TypeOK
    <2>4. RequestOK(r)'
      BY <1>0, <2>1, <2>3 DEF RequestOK, Checked, Guarded, OtherOwners, tableVars
    <2> QED BY <2>1, <2>2, <2>4, OwnStep
  <1> QED BY <1>1, <1>2, <1>3, <1>4, <1>5, <1>6, <1>7 DEF CheckMember, is_member, CheckOwner

\* Visiting rows, and the steps of the delete.
LEMMA DeletingLockInv ==
    ASSUME LockInv, NEW r \in Requests,
           Visit(r) \/ SkipRow(r) \/ BeginDelete(r) \/ DeleteRow(r) \/ Deleted(r)
    PROVE  LockInv'
  <1>0. RequestOK(r) /\ TypeOK /\ Exclusive
    BY DEF LockInv
  <1>1. CASE Visit(r)
    <2>1. /\ phase[r] \in {"lock", "delete"} /\ want'[r] \in todo[r]
          /\ UNCHANGED <<tableVars, phase, target, todo, locked, deleted, added>>
      BY <1>0, <1>1 DEF Visit, TypeOK
    <2>2. TypeOK' /\ Exclusive' /\ \A q \in Requests \ {r} : Unmoved(q)
      BY <1>0, <1>1 DEF Visit, TypeOK, Exclusive, Unmoved, tableVars
    <2>3. want'[r] # RoleRow
      BY <1>0, <2>1 DEF TypeOK
    <2>4. RequestOK(r)'
      BY <1>0, <2>1, <2>3 DEF RequestOK, Checked, Guarded, OtherOwners, RowsOf, tableVars
    <2> QED BY <2>1, <2>2, <2>4, OwnStep
  <1>2. CASE SkipRow(r)
    <2>1. /\ want[r] \in Rows /\ want[r] \notin rows /\ want'[r] = NoRow
          /\ todo'[r] = todo[r] \ {want[r]}
          /\ UNCHANGED <<tableVars, phase, target, locked, deleted, added>>
      BY <1>0, <1>2 DEF SkipRow, TypeOK
    <2>2. TypeOK' /\ Exclusive' /\ \A q \in Requests \ {r} : Unmoved(q)
      BY <1>0, <1>2 DEF SkipRow, TypeOK, Exclusive, Unmoved, tableVars
    <2>3. phase[r] \in {"lock", "delete"}
      BY <1>0, <2>1 DEF RequestOK
    <2>4. RequestOK(r)'
      BY <1>0, <2>1, <2>3 DEF RequestOK, Checked, Guarded, OtherOwners, RowsOf, tableVars
    <2> QED BY <2>1, <2>2, <2>4, OwnStep
  <1>3. CASE BeginDelete(r)
    <2>1. /\ phase[r] = "begin_delete" /\ phase'[r] = "delete"
          /\ todo'[r] = RowsOf(target[r])
          /\ UNCHANGED <<tableVars, target, want, locked, deleted, added>>
      BY <1>0, <1>3 DEF BeginDelete, TypeOK
    <2>2. TypeOK' /\ Exclusive' /\ \A q \in Requests \ {r} : Unmoved(q)
      BY <1>0, <1>3 DEF BeginDelete, TypeOK, Phase, Removing, Exclusive, Unmoved,
                        tableVars, RowsOf
    <2>3. RowsOf(target[r]) \subseteq {target[r]} \X Roles
      BY <1>0 DEF TypeOK, RowsOf, Rows
    <2>4. RequestOK(r)'
      BY <1>0, <2>1, <2>3 DEF RequestOK, Checked, Guarded, OtherOwners, RowsOf, tableVars
    <2> QED BY <2>1, <2>2, <2>4, OwnStep
  <1>4. CASE DeleteRow(r)
    <2>1. /\ phase[r] = "delete" /\ want[r] \in rows /\ Free(r, want[r])
          /\ UNCHANGED <<tableVars, phase, target, added>>
          /\ locked'[r] = locked[r] \cup {want[r]} /\ want'[r] = NoRow
          /\ deleted'[r] = deleted[r] \cup {want[r]} /\ todo'[r] = todo[r] \ {want[r]}
      BY <1>0, <1>4 DEF DeleteRow, TypeOK
    <2>2. TypeOK' /\ \A q \in Requests \ {r} : Unmoved(q)
      BY <1>0, <1>4 DEF DeleteRow, TypeOK, Unmoved, tableVars
    <2>3. Exclusive'
      BY <1>0, <2>1, <2>2 DEF Exclusive, Free, Unmoved
    <2>4. want[r] \in {target[r]} \X Roles
      BY <1>0, <2>1 DEF RequestOK, TypeOK
    <2>5. RequestOK(r)'
      BY <1>0, <2>1, <2>4 DEF RequestOK, Checked, Guarded, OtherOwners, RowsOf, tableVars
    <2> QED BY <2>1, <2>2, <2>3, <2>5, OwnStep
  <1>5. CASE Deleted(r)
    <2>1. /\ phase[r] = "delete" /\ phase'[r] = "commit" /\ want[r] = NoRow /\ todo[r] = {}
          /\ UNCHANGED <<tableVars, target, todo, want, locked, deleted, added>>
      BY <1>0, <1>5 DEF Deleted, TypeOK
    <2>2. TypeOK' /\ Exclusive' /\ \A q \in Requests \ {r} : Unmoved(q)
      BY <1>0, <1>5 DEF Deleted, TypeOK, Phase, Removing, Exclusive, Unmoved, tableVars
    <2>3. RequestOK(r)'
      BY <1>0, <2>1 DEF RequestOK, Checked, Guarded, OtherOwners, RowsOf, tableVars
    <2> QED BY <2>1, <2>2, <2>3, OwnStep
  <1> QED BY <1>1, <1>2, <1>3, <1>4, <1>5

\* A commit takes away only rows that nobody else has locked.
LEMMA CommitLockInv == ASSUME LockInv, NEW r \in Requests, commit(r) PROVE LockInv'
  <1>1. /\ TypeOK /\ Exclusive /\ RequestOK(r) /\ End(r)
        /\ rows' = rows \ deleted[r] /\ UNCHANGED <<exists, account>>
    BY DEF LockInv, commit
  <1>2. TypeOK'
    BY <1>1, Ended DEF TypeOK
  <1>3. ASSUME NEW q \in Requests \ {r} PROVE RequestOK(q)'
    <2>1. RequestOK(q) /\ locked[q] \subseteq rows' \cup {RoleRow} /\ rows' \subseteq rows
      BY <1>1 DEF LockInv, RequestOK, Exclusive
    <2> QED BY <1>1, <2>1, OthersUnmoved, RowsDisappear
  <1> QED BY <1>1, <1>2, <1>3, Ended DEF LockInv

LEMMA InsertLockInv ==
    ASSUME LockInv, NEW k \in Rows, rows' = rows \cup {k}, NoteAdded(k), exists' \in BOOLEAN,
           account' \in [Users -> Account],
           UNCHANGED <<phase, target, todo, want, locked, deleted>>
    PROVE  LockInv'
  <1>1. TypeOK'
    BY DEF LockInv, TypeOK, NoteAdded
  <1>2. \A q \in Requests : RequestOK(q)'
    BY RowAppears DEF LockInv
  <1> QED BY <1>1, <1>2 DEF LockInv, Exclusive

LEMMA AssignLockInv ==
    ASSUME LockInv, NEW r \in Requests, NEW role \in Roles, assign(r, role)
    PROVE  LockInv'
  <1> DEFINE k == <<target[r], role>>
  <1>1. /\ phase[r] = "assign" /\ RequestOK(r) /\ TypeOK /\ Exclusive
        /\ phase' = [phase EXCEPT ![r] = "idle"]
        /\ target' = [target EXCEPT ![r] = NoUser]
        /\ UNCHANGED <<exists, account, todo, want, locked, deleted>>
    BY DEF assign, LockInv
  <1>2. (rows' = rows \cup {k} /\ NoteAdded(k)) \/ UNCHANGED <<rows, added>>
    BY DEF assign
  <1>3. k \in Rows
    BY <1>1 DEF RequestOK, Rows
  <1> HIDE DEF k
  <1>4. TypeOK'
    BY <1>1, <1>2, <1>3 DEF TypeOK, NoteAdded, Phase
  <1>5. RequestOK(r)'
    <2>1. phase'[r] = "idle" /\ want'[r] = NoRow /\ locked'[r] = {} /\ deleted'[r] = {}
      BY <1>1 DEF RequestOK, TypeOK
    <2> QED BY <2>1 DEF RequestOK, Checked
  <1>6. ASSUME NEW q \in Requests \ {r} PROVE RequestOK(q)'
    <2>1. /\ RequestOK(q) /\ phase'[q] = phase[q] /\ target'[q] = target[q]
          /\ todo'[q] = todo[q] /\ want'[q] = want[q] /\ locked'[q] = locked[q]
          /\ deleted'[q] = deleted[q]
      BY <1>1 DEF LockInv, TypeOK
    <2>2. CASE rows' = rows \cup {k} /\ NoteAdded(k)
      BY <1>3, <2>1, <2>2, RowAppears
    <2>3. CASE UNCHANGED <<rows, added>>
      <3>1. locked[q] \subseteq rows' \cup {RoleRow}
        BY <2>1, <2>3 DEF RequestOK
      <3> QED BY <2>1, <2>3, <3>1, RowsDisappear
    <2> QED BY <1>2, <2>2, <2>3
  <1> QED BY <1>1, <1>4, <1>5, <1>6 DEF LockInv, Exclusive

\* The organisation and its users.
LEMMA CreateLockInv ==
    ASSUME LockInv, Fresh, NEW u \in Users, NEW seed \in SeedChoices,
           create_organisation(u, seed)
    PROVE  LockInv'
  <1>1. /\ TypeOK /\ rows' \subseteq Rows /\ exists' = TRUE
        /\ UNCHANGED <<account, requestVars>>
    BY DEF LockInv, create_organisation, create, create_with_initial_owner, Rows, Roles
  <1>2. TypeOK'
    BY <1>1 DEF TypeOK, requestVars
  <1>3. ASSUME NEW q \in Requests PROVE RequestOK(q)'
    <2>1. phase'[q] = "idle" /\ want'[q] = NoRow /\ locked'[q] = {} /\ deleted'[q] = {}
      BY <1>1 DEF LockInv, RequestOK, Fresh, create_organisation, requestVars
    <2> QED BY <2>1 DEF RequestOK, Checked
  <1> QED BY <1>1, <1>2, <1>3 DEF LockInv, Exclusive, requestVars

LEMMA AddLockInv ==
    ASSUME LockInv, NEW u \in Users, NEW role \in Roles,
           register_user(u, role) \/ add_member(u, role)
    PROVE  LockInv'
  <1>1. /\ <<u, role>> \in Rows /\ rows' = rows \cup {<<u, role>>}
        /\ NoteAdded(<<u, role>>) /\ exists' \in BOOLEAN
        /\ account' \in [Users -> Account]
        /\ UNCHANGED <<phase, target, todo, want, locked, deleted>>
    BY DEF LockInv, TypeOK, register_user, create_and_add_to_org, add_member, Rows, Account
  <1> QED BY <1>1, InsertLockInv

LEMMA ServiceAccountLockInv ==
    ASSUME LockInv, NEW u \in Users,
           create_service_account(u) \/ delete_service_account(u)
    PROVE  LockInv'
  <1>1. /\ TypeOK' /\ UNCHANGED requestVars /\ rows' \subseteq rows
    BY DEF LockInv, TypeOK, create_service_account, delete_service_account, requestVars,
           Account
  <1>2. ASSUME NEW q \in Requests PROVE RequestOK(q)'
    <2>1. RequestOK(q) /\ locked[q] \subseteq rows' \cup {RoleRow}
      BY DEF LockInv, RequestOK, create_service_account, delete_service_account
    <2> QED BY <1>1, <2>1, RowsDisappear DEF requestVars
  <1> QED BY <1>1, <1>2 DEF LockInv, Exclusive, requestVars

LEMMA FreshInductive == Fresh /\ TypeOK /\ [Next]_vars => Fresh'
  <1> SUFFICES ASSUME Fresh, TypeOK, [Next]_vars PROVE Fresh'
    OBVIOUS
  <1>1. CASE ~exists
    <2> SUFFICES ASSUME ~exists'
                 PROVE  rows' = {} /\ \A r \in Requests : phase'[r] = "idle"
      BY DEF Fresh
    <2>1. rows = {} /\ \A r \in Requests : phase[r] = "idle"
      BY <1>1 DEF Fresh
    <2>2. CASE UNCHANGED <<rows, phase>>
      BY <2>1, <2>2
    <2>3. CASE \E r \in Requests : End(r) /\ UNCHANGED tableVars
      BY <2>1, <2>3 DEF End, TypeOK, tableVars
    <2>4. CASE \E u \in Users : delete_service_account(u)
      BY <2>1, <2>4 DEF delete_service_account, requestVars
    <2>5. \/ UNCHANGED <<rows, phase>>
          \/ \E r \in Requests : End(r) /\ UNCHANGED tableVars
          \/ \E u \in Users : delete_service_account(u)
      <3>1. ASSUME NEW u \in Users, NEW seed \in SeedChoices PROVE ~create_organisation(u, seed)
        BY DEF create_organisation
      <3>2. ASSUME NEW u \in Users, NEW role \in Roles
            PROVE  ~register_user(u, role) /\ ~add_member(u, role)
        BY <1>1 DEF register_user, create_and_add_to_org, add_member
      <3>3. ASSUME NEW u \in Users PROVE ~create_service_account(u)
        BY <1>1 DEF create_service_account
      <3>4. ASSUME NEW r \in Requests, NEW u \in Users
            PROVE  ~assign_role(r, u) /\ ~remove_user_from_organisation(r, u)
        BY <1>1 DEF assign_role, remove_user_from_organisation, Begin
      <3>5. ASSUME NEW r \in Requests
            PROVE  /\ ~is_member(r) /\ ~CheckMember(r) /\ ~CountOwners(r) /\ ~Visit(r)
                   /\ ~LockOwner(r) /\ ~Counted(r) /\ ~CheckOwner(r) /\ ~BeginDelete(r)
                   /\ ~DeleteRow(r) /\ ~Deleted(r) /\ ~commit(r) /\ ~Rollback(r)
                   /\ \A role \in Roles : ~assign(r, role)
        BY <2>1 DEF is_member, assign, CheckMember, CountOwners, Visit, LockOwner, Counted,
                    CheckOwner, BeginDelete, DeleteRow, Deleted, commit, Rollback
      <3>6. ASSUME NEW r \in Requests, SkipRow(r) \/ LockRole(r)
            PROVE  UNCHANGED <<rows, phase>>
        BY <3>6 DEF SkipRow, LockRole, tableVars
      <3>7. ASSUME NEW r \in Requests, DeadlockAbort(r)
            PROVE  End(r) /\ UNCHANGED tableVars
        BY <3>7 DEF DeadlockAbort
      <3>8. CASE UNCHANGED vars
        BY <3>8 DEF vars, tableVars, requestVars
      <3> QED BY <3>1, <3>2, <3>3, <3>4, <3>5, <3>6, <3>7, <3>8 DEF Next
    <2> QED BY <2>2, <2>3, <2>4, <2>5
  <1>2. CASE exists
    <2>1. exists'
      BY <1>2 DEF Next, vars, tableVars, requestVars, create_organisation, create,
            create_with_initial_owner,
            register_user, create_and_add_to_org,
            add_member, create_service_account, delete_service_account, assign_role, Begin,
            is_member, assign, remove_user_from_organisation, CheckMember, CountOwners,
            Visit, SkipRow, LockOwner, LockRole, Counted, CheckOwner, BeginDelete,
            DeleteRow, Deleted, commit, Rollback, DeadlockAbort
    <2> QED BY <2>1 DEF Fresh
  <1> QED BY <1>1, <1>2

LEMMA NextIInv == IInv /\ [Next]_vars => IInv'
  <1> SUFFICES ASSUME LockInv, Fresh, [Next]_vars PROVE LockInv' /\ Fresh'
    BY DEF IInv
  <1>1. Fresh'
    BY FreshInductive DEF LockInv
  <1>2. ASSUME NEW u \in Users, NEW seed \in SeedChoices, create_organisation(u, seed)
        PROVE  LockInv'
    BY <1>2, CreateLockInv
  <1>3. ASSUME NEW u \in Users, NEW role \in Roles,
               register_user(u, role) \/ add_member(u, role)
        PROVE  LockInv'
    BY <1>3, AddLockInv
  <1>4. ASSUME NEW u \in Users, create_service_account(u) \/ delete_service_account(u)
        PROVE  LockInv'
    BY <1>4, ServiceAccountLockInv
  <1>5. ASSUME NEW r \in Requests, NEW u \in Users,
               assign_role(r, u) \/ remove_user_from_organisation(r, u)
        PROVE  LockInv'
    BY <1>5, BeginLockInv DEF assign_role, remove_user_from_organisation
  <1>6. ASSUME NEW r \in Requests, NEW role \in Roles, assign(r, role) PROVE LockInv'
    BY <1>6, AssignLockInv
  <1>7. ASSUME NEW r \in Requests,
               CheckMember(r) \/ CountOwners(r) \/ LockOwner(r) \/ LockRole(r)
                 \/ Counted(r) \/ CheckOwner(r) \/ is_member(r)
        PROVE  LockInv'
    BY <1>7, CountingLockInv
  <1>8. ASSUME NEW r \in Requests,
               Visit(r) \/ SkipRow(r) \/ BeginDelete(r) \/ DeleteRow(r) \/ Deleted(r)
        PROVE  LockInv'
    BY <1>8, DeletingLockInv
  <1>9. ASSUME NEW r \in Requests, commit(r) PROVE LockInv'
    BY <1>9, CommitLockInv
  <1>10. ASSUME NEW r \in Requests, Rollback(r) \/ DeadlockAbort(r) PROVE LockInv'
    BY <1>10, EndLockInv DEF Rollback, DeadlockAbort
  <1>11. CASE UNCHANGED vars
    <2>1. TypeOK' /\ Exclusive'
      BY <1>11 DEF LockInv, TypeOK, Exclusive, vars, tableVars, requestVars
    <2>2. ASSUME NEW q \in Requests PROVE RequestOK(q)'
      <3>1. RequestOK(q) /\ locked[q] \subseteq rows' \cup {RoleRow}
        BY <1>11 DEF LockInv, RequestOK, vars, tableVars
      <3> QED BY <1>11, <3>1, RowsDisappear DEF vars, tableVars, requestVars
    <2> QED BY <1>1, <2>1, <2>2 DEF LockInv
  <1> QED BY <1>1, <1>2, <1>3, <1>4, <1>5, <1>6, <1>7, <1>8, <1>9, <1>10, <1>11 DEF Next

\* The inductive invariant holds throughout.
THEOREM MembershipSafety == Spec => []IInv
  <1>1. Init => IInv
    BY InitLockInv DEF IInv, Init, Fresh
  <1> QED BY <1>1, NextIInv, PTL DEF Spec

\* Every variable keeps its type: a request is at a statement of its service, and holds
\* and waits for rows of user_organisation_roles and of roles.
THEOREM TypeOKHolds == Spec => []TypeOK
  <1>1. IInv => TypeOK
    BY DEF IInv, LockInv
  <1> QED BY <1>1, MembershipSafety, PTL

\* The rows that disappear: those of a commit or of a deleted service account.
LEMMA OnlyDeletionsRemove ==
    ASSUME TypeOK, Fresh, [Next]_vars, ~(rows \subseteq rows')
    PROVE  \/ \E r \in Requests : commit(r)
           \/ \E u \in Users : delete_service_account(u)
  <1>1. ASSUME NEW u \in Users, NEW seed \in SeedChoices, create_organisation(u, seed)
        PROVE  rows \subseteq rows'
    BY <1>1 DEF create_organisation, create, create_with_initial_owner, Fresh
  <1>2. ASSUME NEW u \in Users, NEW role \in Roles,
               register_user(u, role) \/ add_member(u, role)
        PROVE  rows \subseteq rows'
    BY <1>2 DEF register_user, create_and_add_to_org, add_member
  <1>3. ASSUME NEW u \in Users, create_service_account(u) PROVE rows \subseteq rows'
    BY <1>3 DEF create_service_account
  <1>4. ASSUME NEW r \in Requests, NEW u \in Users,
               assign_role(r, u) \/ remove_user_from_organisation(r, u)
        PROVE  rows \subseteq rows'
    BY <1>4 DEF assign_role, remove_user_from_organisation, Begin, tableVars
  <1>5. ASSUME NEW r \in Requests, NEW role \in Roles, assign(r, role)
        PROVE  rows \subseteq rows'
    BY <1>5 DEF assign
  <1>6. ASSUME NEW r \in Requests,
               is_member(r) \/ CheckMember(r) \/ CountOwners(r) \/ Visit(r) \/ SkipRow(r)
                 \/ LockOwner(r) \/ LockRole(r) \/ Counted(r) \/ CheckOwner(r)
                 \/ BeginDelete(r) \/ DeleteRow(r) \/ Deleted(r) \/ Rollback(r)
                 \/ DeadlockAbort(r)
        PROVE  rows \subseteq rows'
    BY <1>6 DEF is_member, CheckMember, CountOwners, Visit, SkipRow, LockOwner, LockRole,
                Counted, CheckOwner, BeginDelete, DeleteRow, Deleted, Rollback,
                DeadlockAbort, tableVars
  <1>7. CASE UNCHANGED vars
    BY <1>7 DEF vars, tableVars
  <1> QED BY <1>1, <1>2, <1>3, <1>4, <1>5, <1>6, <1>7 DEF Next

\* Removals keep an owner (remove_member_checked): the locked row of another owner
\* outlives the transaction, and without one the target is no owner.
THEOREM OwnerKeptHolds == Spec => OwnerKept
  <1> DEFINE Kept ==
        OwnerRows # {} =>
          \/ OwnerRows' # {}
          \/ \E r \in Requests : Commits(r) /\ <<target[r], Owner>> \in added[r]
          \/ \E u \in Users : account[u] = "service_account" /\ account'[u] = "deleted"
  <1>1. ASSUME IInv, [Next]_vars PROVE Kept
    <2>1. CASE rows \subseteq rows'
      BY <2>1 DEF OwnerRows
    <2>2. ASSUME NEW r \in Requests, commit(r) PROVE Kept
      <3>1. /\ RequestOK(r) /\ TypeOK /\ phase[r] = "commit" /\ phase'[r] = "idle"
            /\ rows' = rows \ deleted[r]
        BY <1>1, <2>2 DEF IInv, LockInv, commit, End, TypeOK
      <3>2. CASE Guarded(r)
        <4>1. PICK k \in OtherOwners(r) : k \in locked[r]
          BY <3>2 DEF Guarded
        <4>2. k \in rows /\ k \notin deleted[r] /\ k[2] = Owner
          BY <1>1, <3>1, <4>1 DEF RequestOK, OtherOwners, Rows, Roles
        <4> QED BY <3>1, <4>2 DEF OwnerRows
      <3>3. CASE <<target[r], Owner>> \notin rows
        <4>1. ASSUME NEW k \in OwnerRows PROVE k \in rows'
          BY <3>1, <3>3 DEF OwnerRows, RequestOK, TypeOK, Rows
        <4> QED BY <4>1 DEF OwnerRows
      <3>4. CASE <<target[r], Owner>> \in added[r] /\ rows' # rows
        BY <3>1, <3>4 DEF Commits
      <3>5. CASE rows' = rows
        BY <3>5 DEF OwnerRows
      <3> QED BY <3>1, <3>2, <3>3, <3>4, <3>5 DEF RequestOK, Checked
    <2>3. ASSUME NEW u \in Users, delete_service_account(u) PROVE Kept
      <3>1. account[u] = "service_account" /\ account'[u] = "deleted"
        BY <1>1, <2>3 DEF delete_service_account, IInv, LockInv, TypeOK
      <3> QED BY <3>1
    <2> QED BY <1>1, <2>1, <2>2, <2>3, OnlyDeletionsRemove DEF IInv, LockInv
  <1> QED BY <1>1, MembershipSafety, PTL DEF Spec, OwnerKept

\* A committed removal leaves no role but those granted meanwhile.
THEOREM RemovalIsCompleteHolds == Spec => RemovalIsComplete
  <1> DEFINE Complete ==
        \A r \in Requests :
          Commits(r) => {k \in rows' : k[1] = target[r]} \subseteq added[r]
  <1>1. ASSUME IInv, [Next]_vars PROVE Complete
    <2> SUFFICES ASSUME NEW r \in Requests, Commits(r)
                 PROVE  {k \in rows' : k[1] = target[r]} \subseteq added[r]
      OBVIOUS
    <2>1. RequestOK(r) /\ TypeOK /\ phase[r] = "commit" /\ phase'[r] = "idle" /\ rows' # rows
      BY <1>1 DEF Commits, IInv, LockInv
    <2>2. commit(r)
      \* Whatever else changes rows leaves the phase of r alone.
      <3>1. phase' # phase /\ phase'[r] # phase[r]
        BY <2>1
      <3>2. ASSUME NEW u \in Users,
                   \/ \E seed \in SeedChoices : create_organisation(u, seed)
                   \/ \E role \in Roles : register_user(u, role) \/ add_member(u, role)
                   \/ create_service_account(u) \/ delete_service_account(u)
            PROVE  FALSE
        BY <3>1, <3>2 DEF create_organisation, create, create_with_initial_owner, register_user, create_and_add_to_org, add_member,
                          create_service_account, delete_service_account, requestVars
      <3>3. ASSUME NEW q \in Requests, NEW role \in Roles, assign(q, role) PROVE FALSE
        BY <2>1, <3>3 DEF assign, TypeOK
      <3>4. ASSUME NEW q \in Requests, commit(q) PROVE q = r
        BY <2>1, <3>4 DEF commit, End, TypeOK
      <3>5. ASSUME NEW q \in Requests, NEW u \in Users,
                   assign_role(q, u) \/ remove_user_from_organisation(q, u)
            PROVE  FALSE
        BY <2>1, <3>5 DEF assign_role, remove_user_from_organisation, Begin, tableVars
      <3>6. ASSUME NEW q \in Requests,
                   is_member(q) \/ CheckMember(q) \/ CountOwners(q) \/ Visit(q) \/ SkipRow(q)
                     \/ LockOwner(q) \/ LockRole(q) \/ Counted(q) \/ CheckOwner(q)
                     \/ BeginDelete(q) \/ DeleteRow(q) \/ Deleted(q) \/ Rollback(q)
                     \/ DeadlockAbort(q)
            PROVE  FALSE
        BY <2>1, <3>6 DEF is_member, CheckMember, CountOwners, Visit, SkipRow, LockOwner,
                    LockRole, Counted, CheckOwner, BeginDelete, DeleteRow, Deleted,
                    Rollback, DeadlockAbort, tableVars
      <3>7. CASE UNCHANGED vars
        BY <2>1, <3>7 DEF vars, tableVars
      <3> QED BY <1>1, <3>2, <3>3, <3>4, <3>5, <3>6, <3>7 DEF Next
    <2>3. rows' = rows \ deleted[r]
      BY <2>2 DEF commit
    <2> QED BY <2>1, <2>3 DEF RequestOK, RowsOf
  <1> QED BY <1>1, MembershipSafety, PTL DEF Spec, RemovalIsComplete

-----------------------------------------------------------------------------
(* Waiting *)

\* The next statement of r waits for nothing: the guards of RemoveStep, of the
\* membership check and, for either role, of the insert of an assignment.
CanGo(r) ==
    /\ phase[r] # "idle"
    /\ want[r] # NoRow => Free(r, want[r])
    /\ phase[r] = "assign" => \A role \in Roles : InsertCanRun(<<target[r], role>>)

\* The guard of DeadlockAbort: r is in a cycle of two or three transactions.
InCycle(r) ==
    \/ \E q \in Requests : Waits(r, q) /\ Waits(q, r)
    \/ \E p, q \in Requests : Waits(r, p) /\ Waits(p, q) /\ Waits(q, r)

\* While there are requests, one of them can go on, or PostgreSQL finds a cycle it
\* breaks.
NeverAllWait ==
    (\E r \in Requests : phase[r] # "idle") =>
        \E r \in Requests : CanGo(r) \/ InCycle(r)

\* The row of `roles` is taken with the first owner row.  So a removal that has locks
\* but not that one waits for it, or has only begun to delete rows of its target.
WaitOK(r) ==
    RoleRow \notin locked[r] =>
        IF phase[r] = "lock"
        THEN locked[r] # {} => want[r] = RoleRow
        ELSE locked[r] \subseteq {target[r]} \X Roles

WaitInv == \A r \in Requests : WaitOK(r)

LEMMA WaitUnmoved ==
    ASSUME NEW q \in Requests, WaitOK(q), phase'[q] = phase[q], target'[q] = target[q],
           want'[q] = want[q], locked'[q] = locked[q]
    PROVE  WaitOK(q)'
  BY DEF WaitOK

\* A step of r alone, as in OwnStep.
LEMMA OwnWait ==
    ASSUME WaitInv, NEW r \in Requests, WaitOK(r)',
           \A q \in Requests \ {r} : /\ phase'[q] = phase[q] /\ target'[q] = target[q]
                                     /\ want'[q] = want[q] /\ locked'[q] = locked[q]
    PROVE  WaitInv'
  BY WaitUnmoved DEF WaitInv

LEMMA EndWait ==
    ASSUME LockInv, WaitInv, NEW r \in Requests, End(r)
    PROVE  WaitInv'
  <1>1. WaitOK(r)'
    BY DEF End, LockInv, TypeOK, WaitOK
  <1> QED BY <1>1, OwnWait, OthersUnmoved DEF LockInv

\* A request without locks moves on.
LEMMA LocklessWait ==
    ASSUME LockInv, WaitInv, NEW r \in Requests,
           \/ \E u \in Users : assign_role(r, u) \/ remove_user_from_organisation(r, u)
           \/ \E role \in Roles : assign(r, role)
           \/ is_member(r) \/ CheckMember(r) \/ CountOwners(r)
    PROVE  WaitInv'
  <1>1. CASE End(r)
    BY <1>1, EndWait
  <1>2. CASE ~End(r)
    <2>1. locked[r] = {}
      BY <1>2 DEF assign_role, remove_user_from_organisation, Begin, assign, is_member,
                  CheckMember, CountOwners, LockInv, RequestOK
    <2>2. /\ locked' = locked /\ want' = want
          /\ \A q \in Requests \ {r} : phase'[q] = phase[q] /\ target'[q] = target[q]
      BY <1>2 DEF assign_role, remove_user_from_organisation, Begin, assign, is_member,
                  CheckMember, CountOwners, LockInv, TypeOK
    <2>3. WaitOK(r)'
      BY <2>1, <2>2 DEF WaitOK
    <2> QED BY <2>2, <2>3, OwnWait
  <1> QED BY <1>1, <1>2

\* A removal between its locks and its commit.
LEMMA RemovalWait ==
    ASSUME LockInv, WaitInv, NEW r \in Requests,
           \/ Visit(r) \/ SkipRow(r) \/ LockOwner(r) \/ LockRole(r) \/ Counted(r)
           \/ CheckOwner(r) \/ BeginDelete(r) \/ DeleteRow(r) \/ Deleted(r)
    PROVE  WaitInv'
  <1>1. CASE End(r)
    BY <1>1, EndWait
  <1>2. CASE ~End(r)
    <2>1. \A q \in Requests \ {r} : /\ phase'[q] = phase[q] /\ target'[q] = target[q]
                                    /\ want'[q] = want[q] /\ locked'[q] = locked[q]
      BY <1>2 DEF Visit, SkipRow, LockOwner, LockRole, Counted, CheckOwner, BeginDelete,
                  DeleteRow, Deleted, LockInv, TypeOK
    <2> SUFFICES WaitOK(r)'
      BY <2>1, OwnWait
    <2>2. WaitOK(r) /\ RequestOK(r)
      BY DEF WaitInv, LockInv
    <2>3. CASE Visit(r) \/ SkipRow(r)
      BY <2>2, <2>3 DEF Visit, SkipRow, WaitOK, LockInv, TypeOK
    <2>4. CASE LockOwner(r) \/ LockRole(r)
      BY <2>2, <2>4 DEF LockOwner, LockRole, WaitOK, LockInv, TypeOK
    <2>5. CASE Counted(r) \/ CheckOwner(r) \/ BeginDelete(r) \/ Deleted(r)
      BY <1>2, <2>2, <2>5 DEF Counted, CheckOwner, BeginDelete, Deleted, WaitOK, LockInv, TypeOK
    <2>6. CASE DeleteRow(r)
      <3>1. want[r] \in {target[r]} \X Roles
        BY <2>2, <2>6 DEF DeleteRow, RequestOK, LockInv, TypeOK
      <3> QED BY <2>2, <2>6, <3>1 DEF DeleteRow, WaitOK, LockInv, TypeOK
    <2> QED BY <2>3, <2>4, <2>5, <2>6
  <1> QED BY <1>1, <1>2

LEMMA NextWait == IInv /\ WaitInv /\ [Next]_vars => WaitInv'
  <1> SUFFICES ASSUME LockInv, WaitInv, [Next]_vars PROVE WaitInv'
    BY DEF IInv
  <1>1. CASE UNCHANGED <<phase, target, want, locked>>
    BY <1>1 DEF WaitInv, WaitOK
  <1>2. ASSUME NEW u \in Users,
               \/ \E seed \in SeedChoices : create_organisation(u, seed)
               \/ \E role \in Roles : register_user(u, role) \/ add_member(u, role)
               \/ create_service_account(u) \/ delete_service_account(u)
        PROVE  WaitInv'
    BY <1>1, <1>2 DEF create_organisation, register_user, add_member,
                      create_service_account, delete_service_account, requestVars
  <1>3. ASSUME NEW r \in Requests,
               \/ \E u \in Users : assign_role(r, u) \/ remove_user_from_organisation(r, u)
               \/ \E role \in Roles : assign(r, role)
               \/ is_member(r) \/ CheckMember(r) \/ CountOwners(r)
        PROVE  WaitInv'
    BY <1>3, LocklessWait
  <1>4. ASSUME NEW r \in Requests,
               \/ Visit(r) \/ SkipRow(r) \/ LockOwner(r) \/ LockRole(r) \/ Counted(r)
               \/ CheckOwner(r) \/ BeginDelete(r) \/ DeleteRow(r) \/ Deleted(r)
        PROVE  WaitInv'
    BY <1>4, RemovalWait
  <1>5. ASSUME NEW r \in Requests, commit(r) \/ Rollback(r) \/ DeadlockAbort(r)
        PROVE  WaitInv'
    BY <1>5, EndWait DEF commit, Rollback, DeadlockAbort
  <1>6. CASE UNCHANGED vars
    BY <1>1, <1>6 DEF vars, requestVars
  <1> QED BY <1>2, <1>3, <1>4, <1>5, <1>6 DEF Next

\* Whoever has locks is a removal; it can go on or waits for another one.
LEMMA HolderWaits ==
    ASSUME LockInv, NEW y \in Requests, locked[y] # {}, ~CanGo(y)
    PROVE  /\ phase[y] \in {"lock", "delete"}
           /\ \E z \in Requests : Waits(y, z)
  <1>1. RequestOK(y) /\ TypeOK
    BY DEF LockInv
  <1>2. phase[y] \notin {"idle", "is_member", "assign", "check", "count"}
    BY <1>1 DEF RequestOK
  <1>3. want[y] # NoRow /\ ~Free(y, want[y])
    BY <1>2 DEF CanGo
  <1> QED BY <1>1, <1>3 DEF RequestOK, Free, Waits

\* Without the row of `roles`, a removal that has locks and waits is waiting for that
\* row, or has one of the two rows of its target and waits for the other.
LEMMA HolderShape ==
    ASSUME LockInv, WaitInv, NEW y \in Requests, NEW z \in Requests, Waits(y, z),
           NEW k \in locked[y], RoleRow \notin locked[y]
    PROVE  \/ want[y] = RoleRow
           \/ \E u \in Users : k \in {u} \X Roles /\ want[y] \in {u} \X Roles
  <1>1. RequestOK(y) /\ WaitOK(y) /\ TypeOK
    BY DEF LockInv, WaitInv
  <1>2. want[y] # NoRow
    BY <1>1 DEF Waits, TypeOK
  <1>3. phase[y] \in {"lock", "delete"}
    BY <1>1, <1>2 DEF RequestOK
  <1>4. CASE phase[y] = "lock"
    BY <1>1, <1>4 DEF WaitOK
  <1>5. CASE phase[y] = "delete"
    <2>1. target[y] \in Users /\ want[y] \in {target[y]} \X Roles
      BY <1>1, <1>2, <1>5 DEF RequestOK
    <2>2. k \in {target[y]} \X Roles
      BY <1>1, <1>5 DEF WaitOK
    <2> QED BY <2>1, <2>2
  <1> QED BY <1>3, <1>4, <1>5

\* Two rows of a user are all there are.
LEMMA TwoRows ==
    ASSUME NEW u, NEW v, NEW i \in {u} \X Roles, NEW j \in {u} \X Roles, i # j,
           j \in {v} \X Roles, NEW k \in {v} \X Roles, k # j
    PROVE  k = i
  <1>1. u = v
    OBVIOUS
  <1>2. PICK a \in Roles, b \in Roles, c \in Roles : i = <<u, a>> /\ j = <<u, b>> /\ k = <<u, c>>
    BY <1>1
  <1> QED BY <1>2 DEF Roles, Owner

\* Who has locks, but not the row of `roles`: if all wait, there is a cycle of two, or
\* a way of at most two steps to the request that has that row.
LEMMA WayToRole ==
    ASSUME LockInv, WaitInv, \A r \in Requests : ~CanGo(r),
           NEW y \in Requests, locked[y] # {}, RoleRow \notin locked[y]
    PROVE  \/ \E r \in Requests : InCycle(r)
           \/ \E c \in Requests : RoleRow \in locked[c] /\ Waits(y, c)
           \/ \E c, z \in Requests : RoleRow \in locked[c] /\ Waits(y, z) /\ Waits(z, c)
  <1> SUFFICES ASSUME \A r \in Requests : ~InCycle(r)
               PROVE  \/ \E c \in Requests : RoleRow \in locked[c] /\ Waits(y, c)
                      \/ \E c, z \in Requests : /\ RoleRow \in locked[c]
                                                /\ Waits(y, z) /\ Waits(z, c)
    OBVIOUS
  <1>0. \A p, q \in Requests : p # q => locked[p] \cap locked[q] = {}
    BY DEF LockInv, Exclusive
  <1>1. PICK k \in locked[y] : TRUE
    OBVIOUS
  <1>2. PICK z \in Requests : Waits(y, z)
    BY HolderWaits
  <1>3. CASE RoleRow \in locked[z]
    BY <1>2, <1>3
  <1>4. CASE RoleRow \notin locked[z]
    <2>1. PICK u \in Users : k \in {u} \X Roles /\ want[y] \in {u} \X Roles
      BY <1>2, <1>4, HolderShape DEF Waits
    <2>2. want[y] \in locked[z] /\ z # y /\ k # want[y]
      BY <1>0, <1>2 DEF Waits
    <2>3. PICK x \in Requests : Waits(z, x)
      BY <2>2, HolderWaits
    <2>4. CASE want[z] = RoleRow
      BY <1>2, <2>3, <2>4 DEF Waits
    <2>5. CASE want[z] # RoleRow
      <3>1. PICK v \in Users : want[y] \in {v} \X Roles /\ want[z] \in {v} \X Roles
        BY <1>4, <2>2, <2>3, <2>5, HolderShape
      <3>2. want[z] # want[y]
        BY <1>0, <2>2, <2>3 DEF Waits
      <3>3. want[z] = k
        BY <2>1, <2>2, <3>1, <3>2, TwoRows
      <3>4. Waits(z, y)
        BY <2>2, <3>3 DEF Waits
      <3> QED BY <1>2, <3>4 DEF InCycle
    <2> QED BY <2>4, <2>5
  <1> QED BY <1>3, <1>4

LEMMA WaitingHasCycle == LockInv /\ WaitInv => NeverAllWait
  <1> SUFFICES ASSUME LockInv, WaitInv, \A r \in Requests : ~CanGo(r),
                      NEW r \in Requests, phase[r] # "idle"
               PROVE  \E q \in Requests : InCycle(q)
    BY DEF NeverAllWait
  <1>1. RequestOK(r) /\ TypeOK
    BY DEF LockInv
  <1>2. \E y \in Requests : locked[y] # {}
    <2>1. CASE want[r] # NoRow /\ ~Free(r, want[r])
      BY <2>1 DEF Free
    <2>2. CASE phase[r] = "assign" /\ \E role \in Roles : ~InsertCanRun(<<target[r], role>>)
      <3>1. \E q \in Requests : deleted[q] # {} \/ RoleRow \in locked[q]
        BY <2>2 DEF InsertCanRun
      <3>2. \A q \in Requests : deleted[q] \subseteq locked[q]
        BY DEF LockInv, RequestOK
      <3> QED BY <3>1, <3>2
    <2> QED BY <2>1, <2>2 DEF CanGo
  <1>3. PICK y \in Requests : locked[y] # {}
    BY <1>2
  <1>4. ASSUME NEW c \in Requests, RoleRow \in locked[c]
        PROVE  \E q \in Requests : InCycle(q)
    <2>1. PICK x \in Requests : Waits(c, x)
      BY <1>4, HolderWaits
    <2>2. locked[x] # {} /\ \A d \in Requests : RoleRow \in locked[d] => d = c
      BY <1>4, <2>1 DEF Waits, LockInv, Exclusive
    <2>3. RoleRow \notin locked[x]
      BY <2>1, <2>2 DEF Waits
    <2> QED BY <2>1, <2>2, <2>3, WayToRole DEF InCycle
  <1> QED BY <1>3, <1>4, WayToRole

\* Requests never all wait for one another, however many run at once: the locks that
\* remove_member_checked takes on owner rows, on the row of `roles` (its FOR UPDATE has
\* no OF clause) and by its DELETE can form cycles, but then there is one of two or
\* three transactions, of which PostgreSQL aborts one.
THEOREM NeverAllWaitHolds == Spec => []NeverAllWait
  <1>1. Init => IInv /\ WaitInv
    BY InitLockInv DEF IInv, Init, Fresh, WaitInv, WaitOK
  <1>2. IInv /\ WaitInv /\ [Next]_vars => (IInv /\ WaitInv)'
    BY NextIInv, NextWait
  <1>3. IInv /\ WaitInv => NeverAllWait
    BY WaitingHasCycle DEF IInv
  <1> QED BY <1>1, <1>2, <1>3, PTL DEF Spec
=============================================================================
