-------------------------- MODULE PaginationProofs --------------------------
(***************************************************************************)
(* Walks of a listing keep the order, list nothing twice (but members) and *)
(* list every row that stays, for any ids, times and limits.               *)
(***************************************************************************)
EXTENDS Pagination, FiniteSetTheorems, WellFoundedInduction, TLAPS

USE DEF Keys

-----------------------------------------------------------------------------
(* The order of a listing *)

LEMMA KeyShape ==
    ASSUME NEW a \in Keys
    PROVE  a = <<a[1], a[2]>> /\ a[1] \in Nat /\ a[2] \in Nat
  <1>1. PICK t \in Times, i \in Ids : a = <<t, i>>
    OBVIOUS
  <1> QED BY <1>1, PaginationAssumption

\* The order of a listing is strict and total.
LEMMA Transitive ==
    ASSUME NEW d \in BOOLEAN, NEW a \in Keys, NEW b \in Keys, NEW c \in Keys,
           Before(d, a, b), Before(d, b, c)
    PROVE  Before(d, a, c)
  BY KeyShape DEF Before, Less

LEMMA Irreflexive ==
    ASSUME NEW d \in BOOLEAN, NEW a \in Keys
    PROVE  ~Before(d, a, a)
  BY KeyShape DEF Before, Less

LEMMA Total ==
    ASSUME NEW d \in BOOLEAN, NEW a \in Keys, NEW b \in Keys, a # b
    PROVE  Before(d, a, b) \/ Before(d, b, a)
  BY KeyShape DEF Before, Less

-----------------------------------------------------------------------------
(* ORDER BY ... LIMIT n *)

LEMMA NatMin ==
    ASSUME NEW T \in SUBSET Nat, T # {}
    PROVE  \E x \in T : \A y \in T : x =< y
  <1>1. \E x \in T : \A y \in T : ~(<<y, x>> \in OpToRel(<, Nat))
    BY NatLessThanWellFounded, WFMin
  <1>2. PICK x \in T : \A y \in T : ~(<<y, x>> \in OpToRel(<, Nat))
    BY <1>1
  <1>3. ASSUME NEW y \in T, y < x PROVE <<y, x>> \in OpToRel(<, Nat)
    <2>1. y \in Nat /\ x \in Nat
      OBVIOUS
    <2> QED BY <1>3, <2>1 DEF OpToRel
  <1>4. ASSUME NEW y \in T PROVE x =< y
    <2>1. ~(y < x)
      BY <1>2, <1>3
    <2> QED BY <2>1
  <1> QED BY <1>4

\* The number of rows before a given one.
Rank(d, S, k) == Cardinality({j \in S : Before(d, j, k)})

LEMMA RankNat ==
    ASSUME NEW d, NEW S, IsFiniteSet(S), NEW k
    PROVE  Rank(d, S, k) \in Nat
  <1>1. {j \in S : Before(d, j, k)} \in SUBSET S
    OBVIOUS
  <1> QED BY <1>1, FS_Subset, FS_CardinalityType DEF Rank

\* An earlier row has a smaller rank.
LEMMA RankGrows ==
    ASSUME NEW d \in BOOLEAN, NEW S \in SUBSET Keys, IsFiniteSet(S),
           NEW j \in S, NEW k \in Keys, Before(d, j, k)
    PROVE  Rank(d, S, j) + 1 =< Rank(d, S, k)
  <1> DEFINE P(x) == {i \in S : Before(d, i, x)}
  <1>1. IsFiniteSet(P(j)) /\ IsFiniteSet(P(k))
    BY FS_Subset
  <1>2. j \notin P(j)
    BY Irreflexive
  <1>3. P(j) \cup {j} \in SUBSET P(k)
    BY Transitive
  <1>4. Cardinality(P(j) \cup {j}) = Cardinality(P(j)) + 1
    BY <1>1, <1>2, FS_AddElement
  <1>5. Cardinality(P(j) \cup {j}) =< Cardinality(P(k))
    BY <1>1, <1>3, FS_Subset
  <1> QED BY <1>4, <1>5 DEF Rank

\* A page holds, with a row, every row before it.
LEMMA FirstClosed ==
    ASSUME NEW d \in BOOLEAN, NEW S \in SUBSET Keys, IsFiniteSet(S), NEW n \in Nat,
           NEW k \in First(d, S, n), NEW j \in S, j \notin First(d, S, n)
    PROVE  Before(d, k, j)
  <1>1. k \in S /\ Rank(d, S, k) < n /\ ~(Rank(d, S, j) < n)
    BY DEF First, Rank
  <1>2. Rank(d, S, k) \in Nat /\ Rank(d, S, j) \in Nat
    BY RankNat
  <1>3. ~Before(d, j, k)
    BY <1>1, <1>2, RankGrows
  <1> QED BY <1>1, <1>3, Total

\* A LIMIT that is not reached leaves nothing out.
LEMMA FirstAll ==
    ASSUME NEW d \in BOOLEAN, NEW S \in SUBSET Keys, IsFiniteSet(S), NEW n \in Nat,
           Cardinality(S) =< n
    PROVE  First(d, S, n) = S
  <1>1. ASSUME NEW k \in S PROVE Cardinality({j \in S : Before(d, j, k)}) < n
    <2> DEFINE P == {j \in S : Before(d, j, k)}
    <2>1. P \in SUBSET (S \ {k})
      BY Irreflexive
    <2>2. IsFiniteSet(S \ {k}) /\ Cardinality(S \ {k}) = Cardinality(S) - 1
      BY FS_RemoveElement
    <2>3. IsFiniteSet(P) /\ Cardinality(P) =< Cardinality(S \ {k})
      BY <2>1, <2>2, FS_Subset
    <2>4. Cardinality(S) \in Nat /\ Cardinality(P) \in Nat
      BY <2>3, FS_CardinalityType
    <2> QED BY <2>2, <2>3, <2>4
  <1> QED BY <1>1 DEF First

\* The "n + 1" trick: if it returns at most n rows, they are all there are.
LEMMA FetchedAll ==
    ASSUME NEW d \in BOOLEAN, NEW S \in SUBSET Keys, IsFiniteSet(S), NEW n \in Nat,
           Cardinality(First(d, S, n + 1)) =< n
    PROVE  First(d, S, n + 1) = S
  <1> DEFINE F == First(d, S, n + 1)
             T == {Rank(d, S, k) : k \in S \ F}
  <1>1. F \in SUBSET S /\ IsFiniteSet(F)
    BY FS_Subset DEF First
  <1>2. SUFFICES ASSUME S \ F # {} PROVE FALSE
    BY <1>1
  <1>3. T \in SUBSET Nat /\ T # {}
    BY <1>2, RankNat
  <1>4. PICK x \in T : \A y \in T : x =< y
    <2> HIDE DEF T
    <2> QED BY <1>3, NatMin
  <1>5. PICK k \in S \ F : \A j \in S \ F : Rank(d, S, k) =< Rank(d, S, j)
    BY <1>4
  <1>6. {j \in S : Before(d, j, k)} \in SUBSET F
    <2>1. ASSUME NEW j \in S, Before(d, j, k), j \notin F PROVE FALSE
      <3>1. Rank(d, S, k) =< Rank(d, S, j)
        BY <1>5, <2>1
      <3>2. Rank(d, S, j) + 1 =< Rank(d, S, k)
        BY <2>1, RankGrows
      <3>3. Rank(d, S, k) \in Nat /\ Rank(d, S, j) \in Nat
        BY RankNat
      <3> QED BY <3>1, <3>2, <3>3
    <2> QED BY <2>1
  <1>7. Rank(d, S, k) =< Cardinality(F)
    BY <1>1, <1>6, FS_Subset DEF Rank
  <1>8. ~(Rank(d, S, k) < n + 1)
    BY <1>5 DEF First, Rank
  <1>9. Rank(d, S, k) \in Nat /\ Cardinality(F) \in Nat
    BY <1>1, RankNat, FS_CardinalityType
  <1> QED BY <1>7, <1>8, <1>9

-----------------------------------------------------------------------------
(* The inductive invariant *)

Listed == listed \cup page

\* The cursor is at or behind everything that has been listed.
CursorInv ==
    /\ status \in {"idle", "first"} => listed = {} /\ page = {} /\ cursor = NoKey
    /\ status = "more" =>
         /\ cursor \in Keys
         /\ \A a \in Listed : a = cursor \/ Before(Descending, a, cursor)

\* What has been listed is a row with its key, or was; only joined_at of a member
\* changes.
KeysInv ==
    /\ rows \subseteq used
    /\ \A a \in Listed :
         a[2] \in used /\ (listing # "members" => key[a[2]] = a[1])

\* A row that stays is listed, popped, or still ahead of the cursor.
AheadInv ==
    /\ stable \subseteq rows
    /\ status = "more" =>
         \A i \in stable : \/ KeyOf(i) \in Listed \cup popped
                           \/ Before(Descending, cursor, KeyOf(i))

IInv ==
    /\ WalkTypeOK
    /\ CursorInv
    /\ KeysInv
    /\ AheadInv
    /\ PagesInOrder
    /\ StableRowsListed

LEMMA InitIInv == WalkInit => IInv
  BY PaginationAssumption
     DEF WalkInit, IInv, WalkTypeOK, CursorInv, KeysInv, AheadInv, PagesInOrder,
         StableRowsListed, Listed

LEMMA AfterFinite ==
    ASSUME WalkTypeOK, NEW d \in BOOLEAN
    PROVE  After(d, cursor) \in SUBSET Keys /\ IsFiniteSet(After(d, cursor))
  <1> DEFINE f == [i \in rows |-> KeyOf(i)]
  <1>1. IsFiniteSet(rows)
    BY PaginationAssumption, FS_Subset DEF WalkTypeOK
  <1>2. f \in Surjection(rows, Visible)
    BY DEF Surjection, Visible
  <1>3. IsFiniteSet(Visible)
    <2> HIDE DEF f
    <2> QED BY <1>1, <1>2, FS_Surjection
  <1>4. Visible \in SUBSET Keys
    BY DEF Visible, KeyOf, WalkTypeOK
  <1>5. After(d, cursor) \in SUBSET Visible
    BY DEF After
  <1> QED BY <1>3, <1>4, <1>5, FS_Subset

\* A page preserves the invariant if it takes rows ahead of the cursor, its own
\* cursor is at or behind its items, and what it leaves out is behind its cursor.
LEMMA RespondIInv ==
    ASSUME IInv, Walking,
           NEW items \in SUBSET After(Descending, cursor), NEW next,
           Respond(items, next),
           zero' \in BOOLEAN, popped' \in SUBSET Keys, popped \subseteq popped',
           next # NoKey => /\ next \in After(Descending, cursor)
                           /\ \A a \in items : a = next \/ Before(Descending, a, next)
                           /\ \A k \in After(Descending, cursor) \ items :
                                 k \in popped' \/ Before(Descending, next, k),
           next = NoKey => zero' \/ items = After(Descending, cursor)
    PROVE  IInv'
  <1> DEFINE d == Descending
  <1>1. /\ d \in BOOLEAN /\ Descending' = d
        /\ UNCHANGED <<listing, rows, key, used, stable>>
        /\ Listed' = Listed \cup items /\ listed' = Listed /\ page' = items
        /\ cursor' = next /\ status' = IF next = NoKey THEN "end" ELSE "more"
    BY DEF Respond, rowVars, Listed, Descending
  <1>2. After(d, cursor) \in SUBSET Keys /\ Listed \in SUBSET Keys
    BY <1>1, AfterFinite DEF IInv, WalkTypeOK, Listed
  <1> HIDE DEF d
  <1>3. WalkTypeOK'
    BY <1>1, <1>2 DEF IInv, WalkTypeOK, d
  <1>4. ASSUME NEW a \in Listed, NEW b \in After(d, cursor)
        PROVE  Before(d, a, b) /\ (listing # "members" => a[2] # b[2])
    <2>1. status = "more" /\ cursor \in Keys /\ cursor # NoKey
      BY <1>4, PaginationAssumption DEF IInv, CursorInv, Walking, Listed
    <2>2. Before(d, cursor, b)
      BY <1>4, <2>1 DEF After
    <2>3. a = cursor \/ Before(d, a, cursor)
      BY <1>4, <2>1 DEF IInv, CursorInv, d
    <2>4. Before(d, a, b)
      BY <1>1, <1>2, <1>4, <2>1, <2>2, <2>3, Transitive
    <2>5. b \in Keys /\ a \in Keys
      BY <1>2, <1>4
    <2>6. PICK i \in rows : b = <<key[i], i>>
      BY <1>4 DEF After, Visible, KeyOf
    <2>7. ASSUME listing # "members", a[2] = b[2] PROVE FALSE
      <3>1. a[2] = i /\ b[1] = key[i] /\ key[i] = a[1]
        BY <1>4, <2>6, <2>7 DEF IInv, KeysInv
      <3>2. a = b
        BY <2>5, <2>7, <3>1, KeyShape
      <3> QED BY <1>1, <2>4, <2>5, <3>2, Irreflexive
    <2> QED BY <2>4, <2>7
  <1>5. CursorInv'
    <2>1. ASSUME status' = "more"
          PROVE  cursor' \in Keys /\ \A a \in Listed' : a = next \/ Before(d, a, next)
      <3>1. next # NoKey /\ next \in After(d, cursor)
        BY <1>1, <2>1 DEF d
      <3> QED BY <1>1, <1>2, <1>4, <3>1 DEF d
    <2> QED BY <1>1, <2>1 DEF CursorInv
  <1>6. KeysInv'
    <2>1. ASSUME NEW b \in items PROVE b[2] \in used /\ key[b[2]] = b[1]
      BY <2>1 DEF After, Visible, KeyOf, IInv, KeysInv
    <2> QED BY <1>1, <2>1 DEF IInv, KeysInv
  <1>7. \A i \in stable : KeyOf(i) \in Listed \cup popped \/ KeyOf(i) \in After(d, cursor)
    <2>1. ASSUME NEW i \in stable PROVE KeyOf(i) \in Visible
      BY DEF IInv, AheadInv, Visible
    <2> QED BY <2>1 DEF After, IInv, AheadInv, CursorInv, Walking, d
  <1>8. \A i \in stable : KeyOf(i)' = KeyOf(i)
    BY <1>1 DEF KeyOf
  <1>9. AheadInv'
    <2>1. stable' \subseteq rows'
      BY <1>1 DEF IInv, AheadInv
    <2>2. ASSUME status' = "more", NEW i \in stable
          PROVE  KeyOf(i) \in Listed' \cup popped' \/ Before(d, next, KeyOf(i))
      <3>1. next # NoKey
        BY <1>1, <2>2
      <3> QED BY <1>1, <1>7, <2>2, <3>1 DEF d
    <2> QED BY <1>1, <1>8, <2>1, <2>2 DEF AheadInv
  <1>10. PagesInOrder'
    BY <1>1, <1>4 DEF PagesInOrder, d
  <1>11. StableRowsListed'
    <2>1. ASSUME status' = "end", ~zero', NEW i \in stable
          PROVE  KeyOf(i) \in listed' \cup page' \cup popped'
      <3>1. items = After(d, cursor)
        BY <1>1, <2>1 DEF d
      <3> QED BY <1>1, <1>7, <2>1, <3>1
    <2> QED BY <1>1, <1>8, <2>1 DEF StableRowsListed
  <1> QED BY <1>3, <1>5, <1>6, <1>9, <1>10, <1>11 DEF IInv

\* What the n + 1 rows tell: the items are rows ahead of the cursor; they are all of
\* them if there is no extra row; rows left out are behind every item.
LEMMA PageOfFetched ==
    ASSUME NEW d \in BOOLEAN, NEW S \in SUBSET Keys, IsFiniteSet(S), NEW n \in Nat
    PROVE  LET fetched == First(d, S, n + 1)
               items == First(d, fetched, n)
           IN  /\ items \in SUBSET S
               /\ Cardinality(fetched) =< n => items = S
               /\ \A k \in S \ items, a \in items : Before(d, a, k)
  <1> DEFINE fetched == First(d, S, n + 1)
             items == First(d, fetched, n)
  <1>1. fetched \in SUBSET S /\ items \in SUBSET fetched
    BY DEF First
  <1>2. fetched \in SUBSET Keys /\ IsFiniteSet(fetched)
    BY <1>1, FS_Subset
  <1>3. ASSUME Cardinality(fetched) =< n PROVE items = S
    BY <1>2, <1>3, FetchedAll, FirstAll
  <1>4. ASSUME NEW k \in S \ items, NEW a \in items PROVE Before(d, a, k)
    <2>1. CASE k \in fetched
      BY <1>2, <1>4, <2>1, FirstClosed
    <2>2. CASE k \notin fetched
      <3>1. a \in fetched /\ n + 1 \in Nat
        BY <1>1, <1>4
      <3> QED BY <1>4, <2>2, <3>1, FirstClosed
    <2> QED BY <2>1, <2>2
  <1> QED BY <1>1, <1>3, <1>4

\* An extra row is behind every item, and everything else left out is behind it.
LEMMA ExtraOfFetched ==
    ASSUME NEW d \in BOOLEAN, NEW S \in SUBSET Keys, IsFiniteSet(S), NEW n \in Nat,
           NEW extra \in First(d, S, n + 1) \ First(d, First(d, S, n + 1), n),
           NEW k \in S \ First(d, First(d, S, n + 1), n), k # extra
    PROVE  Before(d, extra, k)
  <1> DEFINE fetched == First(d, S, n + 1)
  <1>1. fetched \in SUBSET S /\ fetched \in SUBSET Keys /\ IsFiniteSet(fetched)
    BY FS_Subset DEF First
  <1>2. CASE k \notin fetched
    <2>1. n + 1 \in Nat /\ extra \in fetched
      OBVIOUS
    <2> QED BY <1>2, <2>1, FirstClosed
  <1>3. CASE k \in fetched
    <2>1. SUFFICES ASSUME Before(d, k, extra) PROVE FALSE
      BY <1>1, Total
    <2>2. Rank(d, fetched, k) + 1 =< Rank(d, fetched, extra)
      BY <1>1, <1>3, <2>1, RankGrows
    <2>3. ~(Rank(d, fetched, k) < n)
      BY <1>3 DEF First, Rank
    <2>4. Rank(d, S, extra) < n + 1
      BY DEF First, Rank
    <2>5. Rank(d, fetched, extra) =< Rank(d, S, extra)
      <3>1. {j \in fetched : Before(d, j, extra)} \in SUBSET {j \in S : Before(d, j, extra)}
        BY <1>1
      <3>2. IsFiniteSet({j \in S : Before(d, j, extra)})
        BY FS_Subset
      <3> QED BY <3>1, <3>2, FS_Subset DEF Rank
    <2>6. /\ Rank(d, fetched, k) \in Nat /\ Rank(d, fetched, extra) \in Nat
          /\ Rank(d, S, extra) \in Nat
      BY <1>1, RankNat
    <2> QED BY <2>2, <2>3, <2>4, <2>5, <2>6
  <1> QED BY <1>2, <1>3

-----------------------------------------------------------------------------
(* The pages *)

LEMMA TruncateIInv ==
    ASSUME IInv, Walking, NEW d \in BOOLEAN, d = Descending, NEW n \in Nat,
           TruncateAndEncode(d, First(d, After(d, cursor), n + 1), n)
    PROVE  IInv'
  <1> DEFINE S == After(d, cursor)
             fetched == First(d, S, n + 1)
             items == First(d, fetched, n)
  <1>1. S \in SUBSET Keys /\ IsFiniteSet(S)
    BY AfterFinite DEF IInv
  <1>2. popped' = popped /\ zero' = zero /\ popped \in SUBSET Keys /\ zero \in BOOLEAN
    BY DEF TruncateAndEncode, IInv, WalkTypeOK
  <1>3. /\ items \in SUBSET S
        /\ Cardinality(fetched) =< n => items = S
        /\ \A k \in S \ items, a \in items : Before(d, a, k)
    <2> HIDE DEF S
    <2> QED BY <1>1, PageOfFetched
  <1>4. CASE Cardinality(fetched) =< n /\ Respond(items, NoKey)
    <2> HIDE DEF items, fetched
    <2> QED BY <1>2, <1>3, <1>4, RespondIInv
  <1>5. ASSUME NEW last \in items, \A k \in items : k = last \/ Before(d, k, last),
               Respond(items, last)
        PROVE  IInv'
    <2> HIDE DEF items, fetched
    <2>1. last \in S /\ \A k \in S \ items : Before(d, last, k)
      BY <1>3, <1>5
    <2>2. last # NoKey
      BY <1>1, <2>1, PaginationAssumption
    <2> QED BY <1>2, <1>3, <1>5, <2>1, <2>2, RespondIInv
  <1> QED BY <1>4, <1>5 DEF TruncateAndEncode

LEMMA ServiceAccountsIInv ==
    ASSUME IInv, NEW n \in Limits, list_service_accounts(n)
    PROVE  IInv'
  <1> DEFINE m == Clamp(n)
             S == After(FALSE, cursor)
             fetched == First(FALSE, S, m + 1)
             items == First(FALSE, fetched, m)
  <1>1. S \in SUBSET Keys /\ IsFiniteSet(S)
    BY AfterFinite DEF IInv
  <1>2. m \in Nat
    BY PaginationAssumption DEF Clamp
  <1>3. /\ Walking /\ Descending = FALSE /\ zero' = zero /\ zero \in BOOLEAN
        /\ popped \in SUBSET Keys
    BY DEF list_service_accounts, IInv, WalkTypeOK, Descending
  <1>4. /\ items \in SUBSET S
        /\ Cardinality(fetched) =< m => items = S
        /\ \A k \in S \ items, a \in items : Before(FALSE, a, k)
    <2> HIDE DEF S, m
    <2> QED BY <1>1, <1>2, PageOfFetched
  <1>5. CASE Cardinality(fetched) =< m /\ Respond(items, NoKey) /\ popped' = popped
    <2> HIDE DEF items, fetched, m
    <2> QED BY <1>3, <1>4, <1>5, RespondIInv
  <1>6. ASSUME NEW extra \in fetched \ items, Respond(items, extra),
               popped' = popped \cup {extra}
        PROVE  IInv'
    <2>1. \A k \in S \ items : k = extra \/ Before(FALSE, extra, k)
      <3> HIDE DEF S, m
      <3> QED BY <1>1, <1>2, <1>6, ExtraOfFetched
    <2>2. extra \in S
      BY <1>6 DEF First
    <2> HIDE DEF items, fetched, m
    <2>3. extra # NoKey /\ popped' \in SUBSET Keys
      BY <1>1, <1>3, <1>6, <2>2, PaginationAssumption
    <2> QED BY <1>3, <1>4, <1>6, <2>1, <2>2, <2>3, RespondIInv
  <1>7. \/ Cardinality(fetched) =< m /\ Respond(items, NoKey) /\ popped' = popped
        \/ \E extra \in fetched \ items :
              Respond(items, extra) /\ popped' = popped \cup {extra}
    BY DEF list_service_accounts, service_accounts_list
  <1> QED BY <1>5, <1>6, <1>7

LEMMA ListIInv ==
    ASSUME IInv, NEW n \in Limits,
           \/ list_my_organisations(n) \/ list_organisation_members(n)
           \/ list_audit_events(n) \/ get_list_users(n) \/ get_list_channels(n)
    PROVE  IInv'
  <1>1. Clamp(n) \in Nat /\ n \in Nat /\ MaxLimit \in Nat
    BY PaginationAssumption DEF Clamp
  <1>2. CASE list_my_organisations(n)
    <2>1. Descending = TRUE
      BY <1>2 DEF list_my_organisations, Descending
    <2> QED BY <1>1, <1>2, <2>1, TruncateIInv
            DEF list_my_organisations, organisations_list_for_user
  <1>3. CASE list_organisation_members(n)
    <2>1. Descending = TRUE
      BY <1>3 DEF list_organisation_members, Descending
    <2> QED BY <1>1, <1>3, <2>1, TruncateIInv
            DEF list_organisation_members, organisations_list_members
  <1>4. CASE list_audit_events(n)
    <2>1. Descending = TRUE
      BY <1>4 DEF list_audit_events, Descending
    <2> QED BY <1>1, <1>4, <2>1, TruncateIInv DEF list_audit_events, audit_list_events
  <1>5. CASE get_list_users(n)
    <2>1. Descending = FALSE
      BY <1>5 DEF get_list_users, list_users, Descending
    <2> QED BY <1>1, <1>5, <2>1, TruncateIInv
            DEF get_list_users, list_users, users_list_users
  <1>6. CASE get_list_channels(n)
    <2> DEFINE limit == IF n > MaxLimit THEN MaxLimit ELSE n
    <2>1. Descending = TRUE /\ Walking /\ limit \in Nat
      BY <1>1, <1>6 DEF get_list_channels, list_inbound_channels, Descending
    <2>2. CASE zero' = TRUE /\ Respond({}, NoKey) /\ popped' = popped
      <3>1. popped' \in SUBSET Keys
        BY <2>2 DEF IInv, WalkTypeOK
      <3> QED BY <2>1, <2>2, <3>1, RespondIInv
    <2>3. CASE TruncateAndEncode(TRUE, inbound_channels_list(cursor, limit + 1), limit)
      <3> HIDE DEF limit
      <3> QED BY <2>1, <2>3, TruncateIInv DEF inbound_channels_list
    <2> QED BY <1>6, <2>2, <2>3 DEF get_list_channels, list_inbound_channels
  <1> QED BY <1>2, <1>3, <1>4, <1>5, <1>6

-----------------------------------------------------------------------------
(* The table and the client *)

\* Rows that come or go between two pages: neither the keys of rows that stay nor
\* what has been listed is touched.
LEMMA TableIInv ==
    ASSUME IInv, UNCHANGED <<listing, walkVars>>,
           rows' \in SUBSET Ids, used' \in SUBSET Ids, key' \in [Ids -> Times],
           rows' \subseteq used', used \subseteq used', stable' \subseteq stable,
           stable' \subseteq rows', \A i \in stable' : key'[i] = key[i],
           listing # "members" => \A i \in used : key'[i] = key[i]
    PROVE  IInv'
  <1>1. /\ Listed' = Listed /\ Descending' = Descending
        /\ UNCHANGED <<status, cursor, page, listed, popped, zero, listing>>
    BY DEF walkVars, Listed, Descending
  <1>2. WalkTypeOK'
    BY <1>1 DEF IInv, WalkTypeOK
  <1>3. CursorInv' /\ PagesInOrder'
    BY <1>1 DEF IInv, CursorInv, PagesInOrder
  <1>4. KeysInv'
    <2>1. ASSUME NEW a \in Listed
          PROVE  a[2] \in used' /\ (listing # "members" => key'[a[2]] = a[1])
      BY <2>1 DEF IInv, KeysInv
    <2> QED BY <1>1, <2>1 DEF KeysInv
  <1>5. \A i \in stable' : KeyOf(i)' = KeyOf(i)
    BY DEF KeyOf
  <1>6. AheadInv' /\ StableRowsListed'
    BY <1>1, <1>5 DEF IInv, AheadInv, StableRowsListed
  <1> QED BY <1>2, <1>3, <1>4, <1>6 DEF IInv

LEMMA InsertIInv ==
    ASSUME IInv, NEW i \in Ids, NEW t \in Times, Insert(i, t)
    PROVE  IInv'
  <1>1. /\ rows' \in SUBSET Ids /\ used' \in SUBSET Ids /\ key' \in [Ids -> Times]
        /\ rows' \subseteq used' /\ used \subseteq used'
        /\ stable' = stable /\ stable \subseteq rows'
        /\ \A j \in used : key'[j] = key[j]
        /\ stable \subseteq used
        /\ UNCHANGED <<listing, walkVars>>
    BY DEF Insert, IInv, WalkTypeOK, KeysInv, AheadInv
  <1> QED BY <1>1, TableIInv

LEMMA DeleteIInv ==
    ASSUME IInv, NEW i \in Ids, Delete(i)
    PROVE  IInv'
  <1>1. /\ rows' \in SUBSET Ids /\ used' \in SUBSET Ids /\ key' \in [Ids -> Times]
        /\ rows' \subseteq used' /\ used \subseteq used' /\ key' = key
        /\ stable' \subseteq stable /\ stable' \subseteq rows'
        /\ UNCHANGED <<listing, walkVars>>
    BY DEF Delete, IInv, WalkTypeOK, KeysInv, AheadInv
  <1> QED BY <1>1, TableIInv

LEMMA RejoinIInv ==
    ASSUME IInv, NEW i \in Ids, NEW t \in Times, add_member_again(i, t)
    PROVE  IInv'
  <1>1. /\ rows' \in SUBSET Ids /\ used' \in SUBSET Ids /\ key' \in [Ids -> Times]
        /\ rows' \subseteq used' /\ used \subseteq used'
        /\ stable' = stable /\ stable \subseteq rows'
        /\ \A j \in stable : key'[j] = key[j]
        /\ listing # "members" => \A j \in used : key'[j] = key[j]
        /\ UNCHANGED <<listing, walkVars>>
    BY DEF add_member_again, IInv, WalkTypeOK, KeysInv, AheadInv
  <1> QED BY <1>1, TableIInv

LEMMA JoinedAtIInv ==
    ASSUME IInv, NEW i \in Ids, NEW t \in Times, ChangeJoinedAt(i, t)
    PROVE  IInv'
  <1>1. /\ rows' \in SUBSET Ids /\ used' \in SUBSET Ids /\ key' \in [Ids -> Times]
        /\ rows' \subseteq used' /\ used \subseteq used'
        /\ stable' \subseteq stable /\ stable' \subseteq rows'
        /\ \A j \in stable' : key'[j] = key[j]
        /\ listing = "members"
        /\ UNCHANGED <<listing, walkVars>>
    BY DEF ChangeJoinedAt, IInv, WalkTypeOK, KeysInv, AheadInv
  <1> QED BY <1>1, TableIInv

LEMMA StartIInv ==
    ASSUME IInv, Start
    PROVE  IInv'
  <1>1. /\ UNCHANGED <<listing, rows, key, used>> /\ status' = "first"
        /\ cursor' = NoKey /\ page' = {} /\ listed' = {} /\ popped' = {}
        /\ zero' = FALSE /\ stable' = rows /\ Listed' = {}
    BY DEF Start, rowVars, Listed
  <1> QED BY <1>1 DEF IInv, WalkTypeOK, CursorInv, KeysInv, AheadInv, PagesInOrder,
                      StableRowsListed

LEMMA StutterIInv ==
    ASSUME IInv, UNCHANGED pagingVars
    PROVE  IInv'
  <1>1. UNCHANGED <<listing, walkVars>> /\ UNCHANGED <<rows, key, used, stable>>
    BY DEF pagingVars, rowVars
  <1> QED BY <1>1, TableIInv DEF IInv, WalkTypeOK, KeysInv, AheadInv

-----------------------------------------------------------------------------
\* The inductive invariant of a walk holds in every state.
THEOREM PaginationSafety == WalkSpec => []IInv
  <1>1. ASSUME IInv, [WalkNext]_pagingVars PROVE IInv'
    <2>1. ASSUME NEW n \in Limits,
                 \/ list_my_organisations(n) \/ list_organisation_members(n)
                 \/ list_audit_events(n) \/ get_list_users(n) \/ get_list_channels(n)
          PROVE  IInv'
      BY <1>1, <2>1, ListIInv
    <2>2. ASSUME NEW n \in Limits, list_service_accounts(n) PROVE IInv'
      BY <1>1, <2>2, ServiceAccountsIInv
    <2>3. ASSUME NEW i \in Ids, NEW t \in Times,
                 \/ create_inbound_channel(i, t) \/ create_service_account(i, t)
                 \/ insert(i, t) \/ add_member(i, t)
          PROVE  IInv'
      BY <1>1, <2>3, InsertIInv
         DEF create_inbound_channel, create_service_account, insert, add_member
    <2>4. ASSUME NEW i \in Ids,
                 \/ delete_inbound_channel(i) \/ delete_service_account(i)
                 \/ remove_member(i)
          PROVE  IInv'
      BY <1>1, <2>4, DeleteIInv
         DEF delete_inbound_channel, delete_service_account, remove_member
    <2>5. ASSUME NEW i \in Ids, NEW t \in Times, add_member_again(i, t) PROVE IInv'
      BY <1>1, <2>5, RejoinIInv
    <2>6. ASSUME NEW i \in Ids, NEW t \in Times, assign(i, t) \/ remove_member_spares(i, t)
          PROVE  IInv'
      BY <1>1, <2>6, JoinedAtIInv DEF assign, remove_member_spares
    <2>7. CASE Start
      BY <1>1, <2>7, StartIInv
    <2>8. CASE UNCHANGED pagingVars
      BY <1>1, <2>8, StutterIInv
    <2> QED BY <1>1, <2>1, <2>2, <2>3, <2>4, <2>5, <2>6, <2>7, <2>8 DEF WalkNext
  <1> QED BY <1>1, InitIInv, PTL DEF WalkSpec

\* Every variable keeps its type: a cursor is null or the key of a row.
THEOREM TypeOKHolds == WalkSpec => []WalkTypeOK
  <1>1. IInv => WalkTypeOK
    BY DEF IInv
  <1> QED BY <1>1, PaginationSafety, PTL

\* A walk lists its pages in order, in all six listings and whatever happens to the
\* table between two pages, and nothing twice in the five listings whose keys are
\* constant (all but list_organisation_members).
THEOREM PagesInOrderHolds == WalkSpec => []PagesInOrder
  <1>1. IInv => PagesInOrder
    BY DEF IInv
  <1> QED BY <1>1, PaginationSafety, PTL

\* If list_organisation_members lists a member again, it does so with an earlier
\* joined_at: no other change of the table has that effect.
THEOREM TwiceOnlyIfJoinedEarlier ==
    WalkSpec => [](\A a \in listed, b \in page :
                      a[2] = b[2] => listing = "members" /\ b[1] < a[1])
  <1>1. ASSUME IInv, NEW a \in listed, NEW b \in page, a[2] = b[2]
        PROVE  listing = "members" /\ b[1] < a[1]
    <2>1. Before(Descending, a, b) /\ listing = "members"
      BY <1>1 DEF IInv, PagesInOrder
    <2>2. a \in Keys /\ b \in Keys
      BY <1>1 DEF IInv, WalkTypeOK
    <2>3. Before(TRUE, a, b)
      BY <2>1 DEF Descending
    <2> QED BY <1>1, <2>1, <2>2, <2>3, KeyShape DEF Before, Less
  <1>2. IInv => \A a \in listed, b \in page :
                    a[2] = b[2] => listing = "members" /\ b[1] < a[1]
    BY <1>1
  <1> QED BY <1>2, PaginationSafety, PTL

\* A walk that has ended has listed every row that was there throughout with one key,
\* apart from the rows list_service_accounts popped and from pages of no channels.
THEOREM StableRowsListedHolds == WalkSpec => []StableRowsListed
  <1>1. IInv => StableRowsListed
    BY DEF IInv
  <1> QED BY <1>1, PaginationSafety, PTL

\* popped belongs to the listing of service accounts alone.
LEMMA OnlyServiceAccountsPop ==
    WalkSpec => [](listing # "service_accounts" => popped = {})
  <1> DEFINE P == listing # "service_accounts" => popped = {}
  <1>1. WalkInit => P
    BY DEF WalkInit
  <1>2. ASSUME P, [WalkNext]_pagingVars PROVE P'
    BY <1>2 DEF WalkNext, pagingVars, rowVars, walkVars, list_my_organisations,
         list_organisation_members, list_audit_events, get_list_users, list_users,
         get_list_channels, list_inbound_channels, list_service_accounts,
         TruncateAndEncode, Respond, create_inbound_channel, create_service_account,
         insert, add_member, Insert, delete_inbound_channel, delete_service_account,
         remove_member, Delete, add_member_again, assign, remove_member_spares,
         ChangeJoinedAt, Start
  <1> QED BY <1>1, <1>2, PTL DEF WalkSpec

\* The five other listings list every row that was there throughout with one key, if no
\* page of no channels was asked for.
THEOREM EveryRowListedElsewhere ==
    WalkSpec => [](listing # "service_accounts" => EveryRowListed)
  <1>1. IInv /\ (listing # "service_accounts" => popped = {})
          => (listing # "service_accounts" => EveryRowListed)
    BY DEF IInv, StableRowsListed, EveryRowListed
  <1> QED BY <1>1, PaginationSafety, OnlyServiceAccountsPop, PTL

-----------------------------------------------------------------------------
(* The length of a page and of a walk *)

\* A page is served.
ListStep ==
    \E n \in Limits :
        \/ list_my_organisations(n) \/ list_organisation_members(n)
        \/ list_audit_events(n) \/ get_list_users(n) \/ get_list_channels(n)
        \/ list_service_accounts(n)

\* The rows ahead of the cursor.
Ahead == After(Descending, cursor)

\* No page is longer than the upper bound of the services.
PageWithinLimit == Cardinality(page) =< MaxLimit

\* A page with a next_cursor leaves fewer rows ahead of the cursor than there were.
PagesAdvance ==
    [][ListStep /\ cursor' # NoKey => Cardinality(Ahead') < Cardinality(Ahead)]_pagingVars

\* LIMIT n returns at most n rows.
LEMMA FirstBounded ==
    ASSUME NEW d \in BOOLEAN, NEW S \in SUBSET Keys, IsFiniteSet(S), NEW n \in Nat
    PROVE  /\ First(d, S, n) \in SUBSET S
           /\ IsFiniteSet(First(d, S, n)) /\ Cardinality(First(d, S, n)) =< n
  <1> DEFINE F == First(d, S, n)
             T == {n - Rank(d, S, k) : k \in F}
  <1>1. F \in SUBSET S /\ IsFiniteSet(F)
    BY FS_Subset DEF First
  <1>2. \A k \in F : Rank(d, S, k) \in Nat /\ Rank(d, S, k) < n
    BY <1>1, RankNat DEF First, Rank
  <1>3. CASE F = {}
    BY <1>1, <1>3, FS_EmptySet
  <1>4. CASE F # {}
    <2> HIDE DEF F
    <2>1. T \in SUBSET Nat /\ T # {}
      BY <1>2, <1>4
    <2>2. \E x \in T : \A y \in T : x =< y
      <3> HIDE DEF T
      <3> QED BY <2>1, NatMin
    <2>3. PICK m \in F : \A k \in F : n - Rank(d, S, m) =< n - Rank(d, S, k)
      BY <2>2
    <2>4. ASSUME NEW k \in F \ {m} PROVE Before(d, k, m)
      <3>1. ~Before(d, m, k)
        <4>1. Rank(d, S, k) =< Rank(d, S, m)
          BY <1>2, <2>3
        <4> QED BY <1>1, <1>2, <4>1, RankGrows
      <3> QED BY <1>1, <3>1, Total
    <2>5. F \ {m} \in SUBSET {j \in S : Before(d, j, m)}
      BY <1>1, <2>4
    <2>6. IsFiniteSet({j \in S : Before(d, j, m)})
      BY FS_Subset
    <2>7. Cardinality(F \ {m}) =< Rank(d, S, m)
      BY <2>5, <2>6, FS_Subset DEF Rank
    <2>8. Cardinality(F \ {m}) = Cardinality(F) - 1
      BY <1>1, FS_RemoveElement
    <2>9. Cardinality(F) \in Nat
      BY <1>1, FS_CardinalityType
    <2>10. Rank(d, S, m) \in Nat /\ Rank(d, S, m) < n
      BY <1>2
    <2>11. Cardinality(F) =< n
      BY <2>7, <2>8, <2>9, <2>10
    <2> QED BY <1>1, <2>11 DEF F
  <1> QED BY <1>3, <1>4

\* What a page of at most n rows does, whichever way its cursor is found.
PageEffect(n) ==
    /\ UNCHANGED <<listing, rows, key>>
    /\ IsFiniteSet(page') /\ Cardinality(page') =< n
    /\ cursor' # NoKey => cursor' \in Ahead

LEMMA RespondEffect ==
    ASSUME IInv, NEW n \in Nat, NEW next,
           next = NoKey \/ next \in First(Descending, Ahead, n + 1),
           Respond(First(Descending, First(Descending, Ahead, n + 1), n), next)
    PROVE  PageEffect(n)
  <1> DEFINE fetched == First(Descending, Ahead, n + 1)
  <1>1. Descending \in BOOLEAN /\ Ahead \in SUBSET Keys /\ IsFiniteSet(Ahead)
    <2>1. Descending \in BOOLEAN
      BY DEF Descending
    <2> QED BY <2>1, AfterFinite DEF IInv, Ahead
  <1>2. fetched \in SUBSET Ahead /\ IsFiniteSet(fetched) /\ fetched \in SUBSET Keys
    <2>1. n + 1 \in Nat
      OBVIOUS
    <2> QED BY <1>1, <2>1, FirstBounded
  <1>3. /\ IsFiniteSet(First(Descending, fetched, n))
        /\ Cardinality(First(Descending, fetched, n)) =< n
    BY <1>1, <1>2, FirstBounded
  <1> QED BY <1>2, <1>3 DEF Respond, rowVars, PageEffect

LEMMA TruncateEffect ==
    ASSUME IInv, NEW d, d = Descending, NEW n \in Nat,
           TruncateAndEncode(d, First(d, After(d, cursor), n + 1), n)
    PROVE  PageEffect(n)
  <1> DEFINE fetched == First(Descending, Ahead, n + 1)
             items == First(Descending, fetched, n)
  <1>1. items \in SUBSET fetched
    BY DEF First
  <1>2. PICK next \in items \cup {NoKey} : Respond(items, next)
    BY DEF TruncateAndEncode, Ahead
  <1> QED BY <1>1, <1>2, RespondEffect

LEMMA ListEffect ==
    ASSUME IInv, ListStep
    PROVE  \E m \in 0..MaxLimit : PageEffect(m)
  <1>1. PICK n \in Limits :
            \/ list_my_organisations(n) \/ list_organisation_members(n)
            \/ list_audit_events(n) \/ get_list_users(n) \/ get_list_channels(n)
            \/ list_service_accounts(n)
    BY DEF ListStep
  <1>2. n \in Nat /\ Clamp(n) \in 0..MaxLimit /\ MaxLimit \in Nat
    BY PaginationAssumption DEF Clamp
  <1>3. CASE list_my_organisations(n) \/ list_organisation_members(n) \/ list_audit_events(n)
    <2>1. Descending = TRUE
      BY <1>3 DEF list_my_organisations, list_organisation_members, list_audit_events,
                  Descending
    <2>2. TruncateAndEncode(TRUE, First(TRUE, After(TRUE, cursor), Clamp(n) + 1), Clamp(n))
      BY <1>3 DEF list_my_organisations, list_organisation_members, list_audit_events,
                  organisations_list_for_user, organisations_list_members,
                  audit_list_events
    <2>3. Clamp(n) \in Nat
      BY <1>2
    <2>4. PageEffect(Clamp(n))
      BY <2>1, <2>2, <2>3, TruncateEffect
    <2> QED BY <1>2, <2>4
  <1>4. CASE get_list_users(n)
    <2>1. Descending = FALSE /\ n \in 0..MaxLimit
      BY <1>2, <1>4 DEF get_list_users, list_users, Descending
    <2> QED BY <1>2, <1>4, <2>1, TruncateEffect
            DEF get_list_users, list_users, users_list_users
  <1>5. CASE get_list_channels(n)
    <2> DEFINE limit == IF n > MaxLimit THEN MaxLimit ELSE n
    <2>1. Descending = TRUE /\ limit \in 0..MaxLimit
      BY <1>2, <1>5 DEF get_list_channels, list_inbound_channels, Descending
    <2>2. CASE Respond({}, NoKey)
      <3>1. PageEffect(0)
        BY <2>2, FS_EmptySet DEF PageEffect, Respond, rowVars
      <3> QED BY <1>2, <3>1
    <2>3. CASE TruncateAndEncode(TRUE, inbound_channels_list(cursor, limit + 1), limit)
      <3>1. limit \in Nat
        BY <1>2, <2>1
      <3> HIDE DEF limit
      <3>2. TruncateAndEncode(TRUE, First(TRUE, After(TRUE, cursor), limit + 1), limit)
        BY <2>3 DEF inbound_channels_list
      <3>3. PageEffect(limit)
        BY <2>1, <3>1, <3>2, TruncateEffect
      <3> QED BY <2>1, <3>3
    <2> QED BY <1>5, <2>2, <2>3 DEF get_list_channels, list_inbound_channels
  <1>6. CASE list_service_accounts(n)
    <2> DEFINE fetched == First(Descending, Ahead, Clamp(n) + 1)
               items == First(Descending, fetched, Clamp(n))
    <2>1. Descending = FALSE
      BY <1>6 DEF list_service_accounts, Descending
    <2>2. PICK next \in fetched \cup {NoKey} : Respond(items, next)
      BY <1>6, <2>1 DEF list_service_accounts, service_accounts_list, Ahead
    <2> QED BY <1>2, <2>2, RespondEffect
  <1> QED BY <1>1, <1>3, <1>4, <1>5, <1>6

\* list_my_organisations, list_organisation_members, list_audit_events, list_users,
\* list_inbound_channels and list_service_accounts never answer with more rows than
\* their upper bound, whatever limit is asked for.
THEOREM PageWithinLimitHolds == WalkSpec => []PageWithinLimit
  <1>1. WalkInit => PageWithinLimit
    BY PaginationAssumption, FS_EmptySet DEF WalkInit, PageWithinLimit
  <1>2. ASSUME IInv, PageWithinLimit, [WalkNext]_pagingVars PROVE PageWithinLimit'
    <2>1. CASE ListStep
      <3>1. PICK m \in 0..MaxLimit : PageEffect(m)
        BY <1>2, <2>1, ListEffect
      <3>2. IsFiniteSet(page') /\ Cardinality(page') =< m
        BY <3>1 DEF PageEffect
      <3>3. Cardinality(page') \in Nat
        BY <3>2, FS_CardinalityType
      <3> QED BY <3>2, <3>3, PaginationAssumption DEF PageWithinLimit
    <2>2. CASE page' = page
      BY <1>2, <2>2 DEF PageWithinLimit
    <2>3. CASE page' = {}
      BY <2>3, PaginationAssumption, FS_EmptySet DEF PageWithinLimit
    <2>4. ListStep \/ page' = page \/ page' = {}
      BY <1>2 DEF WalkNext, ListStep, pagingVars, walkVars, create_inbound_channel,
           create_service_account, insert, add_member, Insert, delete_inbound_channel,
           delete_service_account, remove_member, Delete, add_member_again, assign,
           remove_member_spares, ChangeJoinedAt, Start
    <2> QED BY <2>1, <2>2, <2>3, <2>4
  <1> QED BY <1>1, <1>2, PaginationSafety, PTL DEF WalkSpec

\* A walk gets on with every page: unless next_cursor is null, fewer rows are ahead of
\* the client than before.  So a walk over a table that does not grow ends, after at
\* most one page more than there are rows, also when the limit is one.
THEOREM PagesAdvanceHolds == WalkSpec => PagesAdvance
  <1>1. ASSUME IInv, ListStep, cursor' # NoKey
        PROVE  Cardinality(Ahead') < Cardinality(Ahead)
    <2> DEFINE d == Descending
    <2>1. /\ UNCHANGED <<listing, rows, key>> /\ cursor' \in Ahead
      BY <1>1, ListEffect DEF PageEffect
    <2>2. d \in BOOLEAN /\ d' = d /\ Visible' = Visible
      BY <2>1 DEF Descending, Visible, KeyOf
    <2>3. Ahead \in SUBSET Keys /\ IsFiniteSet(Ahead)
      BY <1>1, <2>2, AfterFinite DEF IInv, Ahead
    <2>4. cursor \in Keys \cup {NoKey}
      BY <1>1 DEF IInv, WalkTypeOK
    <2>5. Ahead' = {k \in Visible : Before(d, cursor', k)}
      BY <1>1, <2>2 DEF Ahead, After
    <2>6. Visible \in SUBSET Keys
      BY <1>1 DEF Visible, KeyOf, IInv, WalkTypeOK
    <2> HIDE DEF d
    <2>7. ASSUME NEW k \in Ahead' PROVE k \in Ahead \ {cursor'}
      <3>1. k \in Visible /\ k \in Keys /\ Before(d, cursor', k)
        BY <2>5, <2>6, <2>7
      <3>2. k # cursor'
        BY <2>1, <2>2, <2>3, <3>1, Irreflexive
      <3>3. cursor = NoKey \/ Before(d, cursor, cursor')
        BY <2>1 DEF Ahead, After, d
      <3>4. cursor = NoKey \/ Before(d, cursor, k)
        BY <2>1, <2>2, <2>3, <2>4, <3>1, <3>3, Transitive
      <3> QED BY <3>1, <3>2, <3>4 DEF Ahead, After, d
    <2>8. Ahead' \in SUBSET (Ahead \ {cursor'})
      BY <2>7
    <2>9. /\ IsFiniteSet(Ahead \ {cursor'})
          /\ Cardinality(Ahead \ {cursor'}) = Cardinality(Ahead) - 1
      BY <2>1, <2>3, FS_RemoveElement
    <2>10. IsFiniteSet(Ahead') /\ Cardinality(Ahead') =< Cardinality(Ahead \ {cursor'})
      BY <2>8, <2>9, FS_Subset
    <2>11. Cardinality(Ahead) \in Nat /\ Cardinality(Ahead') \in Nat
      BY <2>3, <2>10, FS_CardinalityType
    <2> QED BY <2>9, <2>10, <2>11
  <1>2. IInv => [ListStep /\ cursor' # NoKey => Cardinality(Ahead') < Cardinality(Ahead)]_pagingVars
    BY <1>1
  <1> QED BY <1>2, PaginationSafety, PTL DEF PagesAdvance
=============================================================================
