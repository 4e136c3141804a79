----------------------------- MODULE Pagination -----------------------------
(***************************************************************************)
(* Cursor pagination: a client walks a listing page by page while rows     *)
(* appear and disappear.  Six listings share the scheme (keyset filter,    *)
(* ORDER BY time and id, LIMIT n + 1) and differ in direction, in what     *)
(* they do with the requested limit and in the row the cursor is taken     *)
(* from.                                                                   *)
(*                                                                         *)
(* A row is its key <<time, id>>; rows a filter of the walk leaves out are *)
(* not there.  A page is one SELECT, hence atomic; the checks before it    *)
(* (permission, membership, form of the cursor) change nothing.  encode    *)
(* and decode carry the key unchanged, so a cursor is a key.               *)
(***************************************************************************)
EXTENDS Integers, FiniteSets

CONSTANTS Ids,      \* ids, ordered as PostgreSQL orders UUIDs
          Times,    \* values of created_at, occurred_at or joined_at
          Limits,   \* limits a client asks for
          MaxLimit, \* upper bound of a page: 100 or 200
          NoKey     \* no cursor

Keys == Times \X Ids
Listings == {"organisations", "members", "channels", "users", "audit",
             "service_accounts"}

ASSUME PaginationAssumption ==
    /\ Ids \subseteq Nat /\ IsFiniteSet(Ids)
    /\ Times \subseteq Nat /\ 0 \in Times
    /\ Limits \subseteq Nat
    /\ MaxLimit \in Nat \ {0}
    /\ NoKey \notin Keys

VARIABLES
    listing,  \* which of the listings is walked
    rows,     \* ids of the rows a SELECT sees
    key,      \* time of each row
    used,     \* ids that ever were rows
    status,   \* of the walk: idle, first page next, more pages, end
    cursor,   \* next_cursor of the last page
    page,     \* items of the last page
    listed,   \* history: items of the pages before
    stable,   \* history: rows that have been there since the walk began, key unchanged
    popped,   \* history: rows that became a cursor without being an item
    zero      \* history: a page of no items was asked for and granted

rowVars == <<rows, key, used>>
walkVars == <<status, cursor, page, listed, popped, zero>>
pagingVars == <<listing, rowVars, walkVars, stable>>

KeyOf(i) == <<key[i], i>>
Visible == {KeyOf(i) : i \in rows}

WalkTypeOK ==
    /\ listing \in Listings
    /\ rows \subseteq Ids
    /\ key \in [Ids -> Times]
    /\ used \subseteq Ids
    /\ status \in {"idle", "first", "more", "end"}
    /\ cursor \in Keys \cup {NoKey}
    /\ page \subseteq Keys
    /\ listed \subseteq Keys
    /\ stable \subseteq Ids
    /\ popped \subseteq Keys
    /\ zero \in BOOLEAN

WalkInit ==
    /\ listing \in Listings
    /\ rows = {}
    /\ key = [i \in Ids |-> 0]
    /\ used = {}
    /\ status = "idle"
    /\ cursor = NoKey
    /\ page = {} /\ listed = {} /\ stable = {} /\ popped = {}
    /\ zero = FALSE

-----------------------------------------------------------------------------
(* The queries *)

\* Row order of (time, id).
Less(a, b) == a[1] < b[1] \/ (a[1] = b[1] /\ a[2] < b[2])

\* a comes before b in a listing, newest first if desc.
Before(desc, a, b) == IF desc THEN Less(b, a) ELSE Less(a, b)

\* Mutant of After: the keyset filter keeps the row of the cursor.
After_Inclusive(desc, c) ==
    {k \in Visible : c = NoKey \/ ~Before(desc, k, c)}

\* The keyset filter.
After(desc, c) == {k \in Visible : c = NoKey \/ Before(desc, c, k)}

\* ORDER BY ... LIMIT n of the rows S.
First(desc, S, n) ==
    {k \in S : Cardinality({j \in S : Before(desc, j, k)}) < n}

organisations_list_for_user(c, n) == First(TRUE, After(TRUE, c), n)
organisations_list_members(c, n) == First(TRUE, After(TRUE, c), n)
inbound_channels_list(c, n) == First(TRUE, After(TRUE, c), n)
audit_list_events(c, n) == First(TRUE, After(TRUE, c), n)
users_list_users(c, n) == First(FALSE, After(FALSE, c), n)
service_accounts_list(c, n) == First(FALSE, After(FALSE, c), n)

-----------------------------------------------------------------------------
(* The services: rows are the n + 1 rows fetched for a page of n. *)

Walking == status \in {"first", "more"}
Clamp(n) == IF n < 1 THEN 1 ELSE IF n > MaxLimit THEN MaxLimit ELSE n

\* Mutant of Respond: the last page has an empty cursor instead of none.
Respond_EmptyCursor(items, next) ==
    /\ listed' = listed \cup page
    /\ page' = items
    /\ cursor' = IF next = NoKey THEN <<>> ELSE next
    /\ status' = IF next = NoKey THEN "end" ELSE "more"
    /\ UNCHANGED <<listing, rowVars, stable>>

\* The page holds items; next is its next_cursor.
Respond(items, next) ==
    /\ listed' = listed \cup page
    /\ page' = items
    /\ cursor' = next
    /\ status' = IF next = NoKey THEN "end" ELSE "more"
    /\ UNCHANGED <<listing, rowVars, stable>>

\* Mutant of TruncateAndEncode: the last row fetched is the cursor.
TruncateAndEncode_EncodesExtra(desc, fetched, n) ==
    LET items == First(desc, fetched, n)
    IN  /\ UNCHANGED <<popped, zero>>
        /\ \/ Cardinality(fetched) =< n /\ Respond(items, NoKey)
           \/ /\ Cardinality(fetched) > n
              /\ \E extra \in fetched \ items : Respond(items, extra)

\* More rows than n: keep n and take the cursor from the last of them.
TruncateAndEncode(desc, fetched, n) ==
    LET items == First(desc, fetched, n)
    IN  /\ UNCHANGED <<popped, zero>>
        /\ \/ Cardinality(fetched) =< n /\ Respond(items, NoKey)
           \/ /\ Cardinality(fetched) > n
              /\ \E last \in items :
                    /\ \A k \in items : k = last \/ Before(desc, k, last)
                    /\ Respond(items, last)

list_my_organisations(n) ==
    /\ Walking /\ listing = "organisations"
    /\ TruncateAndEncode(TRUE, organisations_list_for_user(cursor, Clamp(n) + 1),
                         Clamp(n))

list_organisation_members(n) ==
    /\ Walking /\ listing = "members"
    /\ TruncateAndEncode(TRUE, organisations_list_members(cursor, Clamp(n) + 1),
                         Clamp(n))

list_audit_events(n) ==
    /\ Walking /\ listing = "audit"
    /\ TruncateAndEncode(TRUE, audit_list_events(cursor, Clamp(n) + 1), Clamp(n))

\* The membership lists that go with the page are read by a second statement.
list_users(limit) ==
    /\ Walking /\ listing = "users"
    /\ TruncateAndEncode(FALSE, users_list_users(cursor, limit + 1), limit)

\* A limit out of range is refused, which changes nothing.
get_list_users(n) == n \in 1..MaxLimit /\ list_users(n)

\* A page of no items has no last item and therefore no cursor, whatever rows
\* there are.
list_inbound_channels(limit) ==
    /\ Walking /\ listing = "channels"
    /\ \/ /\ limit = 0
          /\ zero' = TRUE
          /\ Respond({}, NoKey)
          /\ UNCHANGED popped
       \/ /\ limit > 0
          /\ TruncateAndEncode(TRUE, inbound_channels_list(cursor, limit + 1), limit)

\* The limit is bounded from above only.
get_list_channels(n) == list_inbound_channels(IF n > MaxLimit THEN MaxLimit ELSE n)

\* The extra row is popped and becomes the cursor.
list_service_accounts(n) ==
    LET fetched == service_accounts_list(cursor, Clamp(n) + 1)
        items == First(FALSE, fetched, Clamp(n))
    IN  /\ Walking /\ listing = "service_accounts"
        /\ UNCHANGED zero
        /\ \/ /\ Cardinality(fetched) =< Clamp(n)
              /\ Respond(items, NoKey)
              /\ UNCHANGED popped
           \/ /\ Cardinality(fetched) > Clamp(n)
              /\ \E extra \in fetched \ items :
                    /\ Respond(items, extra)
                    /\ popped' = popped \cup {extra}

-----------------------------------------------------------------------------
(* The table and the client *)

\* A row appears, with a fresh id.  Its time is that of its transaction, of the
\* event it records or of the organisation or user it joins: not the time it appears.
Insert(i, t) ==
    /\ i \notin used
    /\ rows' = rows \cup {i}
    /\ used' = used \cup {i}
    /\ key' = [key EXCEPT ![i] = t]
    /\ UNCHANGED <<listing, walkVars, stable>>

create_inbound_channel(i, t) == listing = "channels" /\ Insert(i, t)
create_service_account(i, t) == listing = "service_accounts" /\ Insert(i, t)
insert(i, t) == listing = "audit" /\ Insert(i, t)
add_member(i, t) == listing \in {"organisations", "members", "users"} /\ Insert(i, t)

\* A row disappears.
Delete(i) ==
    /\ i \in rows
    /\ rows' = rows \ {i}
    /\ stable' = stable \ {i}
    /\ UNCHANGED <<listing, key, used, walkVars>>

delete_inbound_channel(i) == listing = "channels" /\ Delete(i)
delete_service_account(i) == listing = "service_accounts" /\ Delete(i)
remove_member(i) == listing \in {"organisations", "members", "users"} /\ Delete(i)

\* A membership begins again.  The key of the user or organisation is what it was;
\* joined_at is the start of an INSERT, which may be one that has waited long.
add_member_again(i, t) ==
    /\ i \in used \ rows
    /\ \/ listing = "members"
       \/ listing \in {"organisations", "users"} /\ t = key[i]
    /\ rows' = rows \cup {i}
    /\ key' = [key EXCEPT ![i] = t]
    /\ UNCHANGED <<listing, used, walkVars, stable>>

\* joined_at is the earliest created_at of the roles of a member: it changes to t while
\* the member is there.
ChangeJoinedAt(i, t) ==
    /\ listing = "members"
    /\ i \in rows
    /\ key' = [key EXCEPT ![i] = t]
    /\ stable' = stable \ {i}
    /\ UNCHANGED <<listing, rows, used, walkVars>>

\* A member gets another role.  created_at is the start of the INSERT, which may have
\* waited for the row of `roles` while younger rows were committed and listed.
assign(i, t) == t < key[i] /\ ChangeJoinedAt(i, t)

\* A removal spares the roles that were committed after its DELETE began.
remove_member_spares(i, t) == t > key[i] /\ ChangeJoinedAt(i, t)

\* A client begins a walk, anew after the end or in the middle of one.
Start ==
    /\ status' = "first"
    /\ cursor' = NoKey
    /\ page' = {} /\ listed' = {} /\ popped' = {}
    /\ zero' = FALSE
    /\ stable' = rows
    /\ UNCHANGED <<listing, rowVars>>

WalkNext ==
    \/ \E n \in Limits : list_my_organisations(n)
    \/ \E n \in Limits : list_organisation_members(n)
    \/ \E n \in Limits : list_audit_events(n)
    \/ \E n \in Limits : get_list_users(n)
    \/ \E n \in Limits : get_list_channels(n)
    \/ \E n \in Limits : list_service_accounts(n)
    \/ \E i \in Ids, t \in Times : create_inbound_channel(i, t)
    \/ \E i \in Ids, t \in Times : create_service_account(i, t)
    \/ \E i \in Ids, t \in Times : insert(i, t)
    \/ \E i \in Ids, t \in Times : add_member(i, t)
    \/ \E i \in Ids, t \in Times : add_member_again(i, t)
    \/ \E i \in Ids, t \in Times : assign(i, t)
    \/ \E i \in Ids, t \in Times : remove_member_spares(i, t)
    \/ \E i \in Ids : delete_inbound_channel(i)
    \/ \E i \in Ids : delete_service_account(i)
    \/ \E i \in Ids : remove_member(i)
    \/ Start

WalkSpec == WalkInit /\ [][WalkNext]_pagingVars

-----------------------------------------------------------------------------
(* What a walk guarantees *)

Descending == listing \in {"organisations", "members", "channels", "audit"}

\* The pages of a walk follow each other in the order of the listing, whatever is
\* inserted, deleted or readmitted between two pages.  Nothing is listed twice, except a
\* member, and then with an earlier joined_at than before: list_members orders by
\* MIN(created_at), which a role that commits late moves back past the cursor.
PagesInOrder ==
    \A a \in listed, b \in page :
        Before(Descending, a, b) /\ (listing # "members" => a[2] # b[2])

\* When next_cursor is null, every row that was there, with the same key, during the
\* whole walk has been listed, except rows the listing of service accounts popped for a
\* cursor, and unless a page of no channels was asked for: its next_cursor is null while
\* there are more results, which the wiki rules out.
StableRowsListed ==
    status = "end" /\ ~zero =>
        {KeyOf(i) : i \in stable} \subseteq listed \cup page \cup popped

\* The documented contract of the listing: walking the pages lists every row that
\* was there all the time, with the same key.
EveryRowListed ==
    status = "end" /\ ~zero => {KeyOf(i) : i \in stable} \subseteq listed \cup page
=============================================================================
