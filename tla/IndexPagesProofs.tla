-------------------------- MODULE IndexPagesProofs --------------------------
(***************************************************************************)
(* For any number of objects, any names and page size, and however rows    *)
(* are added meanwhile: the pages of the index follow each other, and      *)
(* together they are complete.                                             *)
(***************************************************************************)
EXTENDS IndexPages, FiniteSetTheorems, SequenceTheorems, WellFoundedInduction,
        TLAPS

-----------------------------------------------------------------------------
(* The order of the list, and the ends of a set in it.                     *)

LEMMA TotalOrder ==
  ASSUME NEW p \in Paths, NEW q \in Paths
  PROVE  /\ ~ Before(p, p)
         /\ Before(p, q) => ~ Before(q, p)
         /\ p = q \/ Before(p, q) \/ Before(q, p)
<1>1. /\ Name[p] \in Nat /\ Name[q] \in Nat
      /\ Digest[p] \in Nat /\ Digest[q] \in Nat
      /\ Digest[p] = Digest[q] => p = q
  BY IndexAssumption
<1> QED
  BY <1>1 DEF Before

LEMMA BeforeTransitive ==
  ASSUME NEW p \in Paths, NEW q \in Paths, NEW r \in Paths,
         Before(p, q), Before(q, r)
  PROVE  Before(p, r)
<1>1. /\ Name[p] \in Nat /\ Name[q] \in Nat /\ Name[r] \in Nat
      /\ Digest[p] \in Nat /\ Digest[q] \in Nat /\ Digest[r] \in Nat
  BY IndexAssumption
<1> QED
  BY <1>1 DEF Before

LEMMA SubsetsFinite ==
  ASSUME NEW S, S \subseteq Paths
  PROVE  /\ IsFiniteSet(S) /\ Cardinality(S) \in Nat
         /\ \A T \in SUBSET S :
              /\ IsFiniteSet(T) /\ Cardinality(T) \in Nat
              /\ Cardinality(T) <= Cardinality(S)
              /\ T # S => Cardinality(T) < Cardinality(S)
<1>1. IsFiniteSet(S)
  BY IndexAssumption, FS_Subset
<1>2. \A T \in SUBSET S :
        /\ IsFiniteSet(T)
        /\ Cardinality(T) <= Cardinality(S)
        /\ Cardinality(S) = Cardinality(T) => S = T
  BY <1>1, FS_Subset
<1>3. Cardinality(S) \in Nat /\ \A T \in SUBSET S : Cardinality(T) \in Nat
  BY <1>1, <1>2, FS_CardinalityType
<1> QED
  BY <1>1, <1>2, <1>3

\* A set of sizes has a smallest one.
LEMMA SmallestSize ==
  ASSUME NEW S, S # {}, NEW f \in [S -> Nat]
  PROVE  \E p \in S : \A q \in S : f[p] <= f[q]
<1> DEFINE T == {f[p] : p \in S}
<1>1. T \subseteq Nat /\ T # {}
  OBVIOUS
<1>2. PICK n \in T : \A m \in T : ~ (<<m, n>> \in OpToRel(<, Nat))
  BY <1>1, NatLessThanWellFounded, WFMin
<1>3. \A m \in T : ~ (m < n)
  BY <1>1, <1>2 DEF OpToRel
<1>4. PICK p \in S : n = f[p]
  BY <1>2
<1>5. \A q \in S : f[q] \in T /\ f[q] \in Nat /\ f[p] \in Nat
  OBVIOUS
<1>6. \A q \in S : ~ (f[q] < f[p])
  BY <1>3, <1>4, <1>5
<1> QED
  BY <1>5, <1>6

Later(S, p) == {q \in S : Before(p, q)}

LEMMA HasFirst ==
  ASSUME NEW S, S \subseteq Paths, S # {}
  PROVE  \E p \in S : Earlier(S, p) = {}
<1> DEFINE f == [p \in S |-> Cardinality(Earlier(S, p))]
<1>1. \A p \in S : Earlier(S, p) \subseteq S /\ Earlier(S, p) \subseteq Paths
  BY DEF Earlier
<1>2. f \in [S -> Nat]
  BY <1>1, SubsetsFinite
<1>3. PICK p \in S : \A q \in S : f[p] <= f[q]
  <2> HIDE DEF f
  <2> QED
    BY <1>2, SmallestSize
<1>4. ASSUME NEW q \in Earlier(S, p) PROVE FALSE
  <2>1. q \in S /\ Before(q, p)
    BY DEF Earlier
  <2>2. Earlier(S, q) \subseteq Earlier(S, p)
    BY <2>1, BeforeTransitive DEF Earlier
  <2>3. q \notin Earlier(S, q)
    BY <2>1, TotalOrder DEF Earlier
  <2>4. Cardinality(Earlier(S, q)) < Cardinality(Earlier(S, p))
    BY <1>1, <1>4, <2>2, <2>3, SubsetsFinite
  <2>5. f[p] <= f[q] /\ f[p] = Cardinality(Earlier(S, p))
        /\ f[q] = Cardinality(Earlier(S, q))
    BY <1>3, <2>1
  <2>6. f[p] \in Nat /\ f[q] \in Nat
    BY <1>2, <2>1
  <2> QED
    BY <2>4, <2>5, <2>6
<1> QED
  BY <1>4

LEMMA HasLast ==
  ASSUME NEW S, S \subseteq Paths, S # {}
  PROVE  /\ LastOf(S) \in S
         /\ \A q \in S : q = LastOf(S) \/ Before(q, LastOf(S))
<1> DEFINE f == [p \in S |-> Cardinality(Later(S, p))]
<1>1. \A p \in S : Later(S, p) \subseteq S /\ Later(S, p) \subseteq Paths
  BY DEF Later
<1>2. f \in [S -> Nat]
  BY <1>1, SubsetsFinite
<1>3. PICK p \in S : \A q \in S : f[p] <= f[q]
  <2> HIDE DEF f
  <2> QED
    BY <1>2, SmallestSize
<1>4. ASSUME NEW q \in Later(S, p) PROVE FALSE
  <2>1. q \in S /\ Before(p, q)
    BY DEF Later
  <2>2. Later(S, q) \subseteq Later(S, p)
    BY <2>1, BeforeTransitive DEF Later
  <2>3. q \notin Later(S, q)
    BY <2>1, TotalOrder DEF Later
  <2>4. Cardinality(Later(S, q)) < Cardinality(Later(S, p))
    BY <1>1, <1>4, <2>2, <2>3, SubsetsFinite
  <2>5. f[p] <= f[q] /\ f[p] = Cardinality(Later(S, p))
        /\ f[q] = Cardinality(Later(S, q))
    BY <1>3, <2>1
  <2>6. f[p] \in Nat /\ f[q] \in Nat
    BY <1>2, <2>1
  <2> QED
    BY <2>4, <2>5, <2>6
<1>5. \A q \in S : q = p \/ Before(q, p)
  BY <1>4, TotalOrder DEF Later
<1> QED
  BY <1>5 DEF LastOf

-----------------------------------------------------------------------------
(* One page.                                                               *)

\* A page is the front of the list, has at most PageSize rows, and is empty
\* only if the list is.
LEMMA PageIsFront ==
  ASSUME NEW S, S \subseteq Paths
  PROVE  /\ FirstOf(S) \subseteq S
         /\ \A p \in FirstOf(S), q \in S \ FirstOf(S) : Before(p, q)
         /\ Cardinality(FirstOf(S)) <= PageSize
         /\ FirstOf(S) = {} => S = {}
<1>1. FirstOf(S) \subseteq S
  BY DEF FirstOf
<1>2. \A p \in S : Earlier(S, p) \subseteq S /\ Earlier(S, p) \subseteq Paths
  BY DEF Earlier
<1>3. PageSize \in Nat \ {0}
  BY IndexAssumption
<1>4. ASSUME NEW p \in FirstOf(S), NEW q \in S \ FirstOf(S)
      PROVE  Before(p, q)
  <2>1. /\ Cardinality(Earlier(S, p)) < PageSize
        /\ ~ (Cardinality(Earlier(S, q)) < PageSize)
        /\ p \in S
    BY DEF FirstOf
  <2>2. ASSUME Before(q, p) PROVE FALSE
    <3>1. Earlier(S, q) \subseteq Earlier(S, p)
      BY <2>1, <2>2, BeforeTransitive DEF Earlier
    <3>2. Cardinality(Earlier(S, q)) <= Cardinality(Earlier(S, p))
          /\ Cardinality(Earlier(S, q)) \in Nat
          /\ Cardinality(Earlier(S, p)) \in Nat
      BY <1>2, <2>1, <3>1, SubsetsFinite
    <3> QED
      BY <1>3, <2>1, <3>2
  <2>3. p # q
    BY <1>4
  <2> QED
    BY <2>1, <2>2, <2>3, TotalOrder
<1>5. Cardinality(FirstOf(S)) <= PageSize
  <2>1. CASE FirstOf(S) = {}
    BY <1>3, <2>1, FS_EmptySet
  <2>2. CASE FirstOf(S) # {}
    <3> DEFINE m == LastOf(FirstOf(S))
               E == Earlier(S, m)
    <3>1. /\ m \in FirstOf(S)
          /\ \A q \in FirstOf(S) : q = m \/ Before(q, m)
      BY <1>1, <2>2, HasLast
    <3>2. FirstOf(S) \subseteq E \cup {m}
      BY <1>1, <3>1 DEF Earlier
    <3>3. Cardinality(E) < PageSize /\ E \subseteq Paths /\ m \notin E
      BY <1>1, <1>2, <3>1, TotalOrder DEF FirstOf, Earlier
    <3> HIDE DEF E, m
    <3>4. IsFiniteSet(E) /\ Cardinality(E) \in Nat
      BY <3>3, SubsetsFinite
    <3>5. Cardinality(E \cup {m}) = Cardinality(E) + 1
      BY <3>3, <3>4, FS_AddElement
    <3>6. E \cup {m} \subseteq Paths
      BY <1>1, <3>1, <3>3
    <3>7. Cardinality(FirstOf(S)) <= Cardinality(E \cup {m})
          /\ Cardinality(FirstOf(S)) \in Nat
      BY <3>2, <3>6, SubsetsFinite
    <3> QED
      BY <1>3, <3>3, <3>4, <3>5, <3>7
  <2> QED
    BY <2>1, <2>2
<1>6. ASSUME S # {} PROVE FirstOf(S) # {}
  <2>1. PICK p \in S : Earlier(S, p) = {}
    BY <1>6, HasFirst
  <2>2. Cardinality(Earlier(S, p)) < PageSize
    BY <1>3, <2>1, FS_EmptySet
  <2> QED
    BY <2>2 DEF FirstOf
<1> QED
  BY <1>1, <1>4, <1>5, <1>6

\* A cursor that is a row of the table stands at its place in the order.
LEMMA CursorIsPlace ==
  ASSUME NEW table, NEW c \in Paths, c \in table, NEW p \in Paths
  PROVE  After(table, c, p) <=> Before(c, p)
BY IndexAssumption DEF After, Before

\* What a page leaves behind its link: everything relevant that is not on
\* it; without a link, nothing.
LEMMA PageAndLink ==
  ASSUME rows \subseteq Paths, None \notin Paths,
         NEW matching \in SUBSET Paths, NEW after, Page(matching, after),
         NEW R, R = Relevant(rows, matching, after)
  PROVE  /\ shown' = Append(shown, FirstOf(R))
         /\ FirstOf(R) \subseteq rows
         /\ link' = None => R = FirstOf(R)
         /\ link' # None =>
              /\ link' \in FirstOf(R)
              /\ \A p \in FirstOf(R) : p = link' \/ Before(p, link')
              /\ \A q \in R \ FirstOf(R) : Before(link', q)
              /\ Relevant(rows, matching, link') # {}
<1> DEFINE page == FirstOf(R)
           last == LastOf(page)
<1>1. R \subseteq rows /\ R \subseteq matching /\ R \subseteq Paths
  BY DEF Relevant
<1>2. /\ page \subseteq R
      /\ \A p \in page, q \in R \ page : Before(p, q)
      /\ page = {} => R = {}
  BY <1>1, PageIsFront
<1>3. page # {} => /\ last \in page
                   /\ \A p \in page : p = last \/ Before(p, last)
  BY <1>1, <1>2, HasLast
<1>4. /\ shown' = Append(shown, page)
      /\ link' = IF HasMore(rows, matching, page) THEN last ELSE None
  BY DEF Page
<1> HIDE DEF page, last
<1>5. CASE HasMore(rows, matching, page)
  <2>1. page # {} /\ link' = last /\ Relevant(rows, matching, last) # {}
    BY <1>4, <1>5 DEF HasMore, last
  <2>2. last \in Paths /\ last # None
    BY <1>1, <1>2, <1>3, <2>1
  <2> QED
    BY <1>1, <1>2, <1>3, <1>4, <2>1, <2>2 DEF page
<1>6. CASE ~ HasMore(rows, matching, page)
  <2>1. ASSUME NEW q \in R \ page PROVE FALSE
    <3>1. page # {} /\ last \in page
      BY <1>2, <1>3, <2>1
    <3>2. Before(last, q) /\ last \in rows /\ last \in Paths
          /\ q \in rows /\ q \in matching /\ q \in Paths
      BY <1>1, <1>2, <2>1, <3>1
    <3>3. q \in Relevant(rows, matching, last)
      BY <3>2, CursorIsPlace DEF Relevant
    <3> QED
      BY <1>6, <3>1, <3>3 DEF HasMore, last
  <2>2. R = page
    BY <1>2, <2>1
  <2> QED
    BY <1>1, <1>2, <1>4, <1>6, <2>2 DEF page
<1> QED
  BY <1>5, <1>6

-----------------------------------------------------------------------------
(* The invariant: what has been seen ends at the link, and what the viewer *)
(* could see at first and has not seen is behind it.                       *)

SeenUpToLink ==
  link # None =>
    /\ viewing /\ link \in rows
    /\ \A p \in Seen : p = link \/ Before(p, link)
    /\ \A p \in from : p \in Seen \/ (p \in query /\ Before(link, p))

IInv ==
  /\ TypeOK
  /\ ~ viewing => shown = <<>>
  /\ PagesInOrder
  /\ SeenUpToLink
  /\ LastPageCompletes
  /\ LinksLeadSomewhere

LEMMA InitOK == Init => IInv
<1> SUFFICES ASSUME Init PROVE IInv
  OBVIOUS
<1>1. <<>> \in Seq(SUBSET Paths) /\ 1..Len(<<>>) = {}
  OBVIOUS
<1>2. TypeOK
  BY <1>1 DEF Init, TypeOK
<1>3. PagesInOrder
  BY <1>1 DEF Init, PagesInOrder
<1>4. SeenUpToLink /\ LastPageCompletes /\ LinksLeadSomewhere
  BY DEF Init, SeenUpToLink, LastPageCompletes, LinksLeadSomewhere
<1> QED
  BY <1>2, <1>3, <1>4 DEF Init, IInv

LEMMA AddRowsOK ==
  ASSUME IInv, NEW S \in SUBSET Paths, AddRows(S)
  PROVE  IInv'
<1>1. rows \subseteq rows' /\ rows' \subseteq Paths
  BY DEF IInv, TypeOK, AddRows
<1>2. TypeOK'
  BY <1>1 DEF IInv, TypeOK, AddRows, viewer
<1>3. PagesInOrder' /\ LastPageCompletes' /\ SeenUpToLink'
  BY <1>1 DEF IInv, PagesInOrder, LastPageCompletes, SeenUpToLink, Seen,
              AddRows, viewer
<1>4. LinksLeadSomewhere'
  <2> SUFFICES ASSUME link # None PROVE Relevant(rows', query, link) # {}
    BY DEF LinksLeadSomewhere, AddRows, viewer
  <2>1. link \in rows /\ link \in rows' /\ link \in Paths
    BY <1>1 DEF IInv, SeenUpToLink
  <2>2. PICK p \in rows \cap query : After(rows, link, p)
    BY DEF IInv, LinksLeadSomewhere, Relevant
  <2>3. p \in Paths /\ p \in rows'
    BY <1>1, <2>2
  <2>4. After(rows', link, p)
    BY <2>1, <2>2, <2>3, CursorIsPlace
  <2> QED
    BY <2>2, <2>3, <2>4 DEF Relevant
<1> QED
  BY <1>2, <1>3, <1>4 DEF IInv, AddRows, viewer

\* Appending a page to the pages seen.
LEMMA OneMorePage ==
  ASSUME TypeOK, NEW page \in SUBSET Paths, shown' = Append(shown, page)
  PROVE  /\ shown' \in Seq(SUBSET Paths)
         /\ Len(shown') = Len(shown) + 1 /\ Len(shown) \in Nat
         /\ \A k \in 1..Len(shown) : shown'[k] = shown[k]
         /\ shown'[Len(shown) + 1] = page
         /\ Seen' = Seen \cup page
<1>1. shown \in Seq(SUBSET Paths)
  BY DEF TypeOK
<1>2. /\ shown' \in Seq(SUBSET Paths)
      /\ Len(shown') = Len(shown) + 1 /\ Len(shown) \in Nat
      /\ \A k \in 1..Len(shown) : shown'[k] = shown[k]
      /\ shown'[Len(shown) + 1] = page
  BY <1>1, AppendProperties
<1>3. \A k \in 1..Len(shown') : k = Len(shown) + 1 \/ k \in 1..Len(shown)
  BY <1>2
<1>4. \A k \in 1..Len(shown) : k \in 1..Len(shown')
  BY <1>2
<1>5. Len(shown) + 1 \in 1..Len(shown')
  BY <1>2
<1>6. Seen' = Seen \cup page
  BY <1>2, <1>3, <1>4, <1>5 DEF Seen
<1> QED
  BY <1>2, <1>6

LEMMA VisitOK ==
  ASSUME IInv, NEW matching \in Queries, NEW after \in Paths \cup {None},
         Visit(matching, after)
  PROVE  IInv'
<1> DEFINE R == Relevant(rows, matching, after)
           page == FirstOf(R)
<1>1. /\ rows \subseteq Paths /\ None \notin Paths
      /\ matching \in SUBSET Paths
      /\ Page(matching, after)
      /\ query' = matching /\ from' = R /\ rows' = rows /\ viewing' = TRUE
  BY IndexAssumption DEF IInv, TypeOK, Visit
<1>2. /\ shown' = Append(shown, page)
      /\ page \subseteq rows
      /\ link' = None => R = page
      /\ link' # None =>
           /\ link' \in page
           /\ \A p \in page : p = link' \/ Before(p, link')
           /\ \A q \in R \ page : Before(link', q)
           /\ Relevant(rows, matching, link') # {}
  BY <1>1, PageAndLink
<1>3. R \subseteq rows /\ R \subseteq matching /\ R \subseteq Paths
  BY <1>1 DEF Relevant
<1>4. Cardinality(page) <= PageSize /\ page \subseteq R
  BY <1>3, PageIsFront
<1> HIDE DEF R, page
<1>5. shown = <<>>
  BY DEF IInv, Visit
<1>6. /\ shown' \in Seq(SUBSET Paths)
      /\ Len(shown') = 1 /\ shown'[1] = page /\ Seen' = page
  <2>1. Len(shown) = 0 /\ Seen = {}
    BY <1>5 DEF Seen
  <2>2. page \in SUBSET Paths
    BY <1>1, <1>2
  <2> QED
    BY <1>2, <2>1, <2>2, OneMorePage DEF IInv
<1>7. TypeOK'
  BY <1>1, <1>2, <1>3, <1>4, <1>6 DEF TypeOK
<1>8. PagesInOrder'
  BY <1>6 DEF PagesInOrder
<1>9. SeenUpToLink' /\ LastPageCompletes' /\ LinksLeadSomewhere'
  BY <1>1, <1>2, <1>3, <1>6
     DEF SeenUpToLink, LastPageCompletes, LinksLeadSomewhere
<1> QED
  BY <1>1, <1>7, <1>8, <1>9 DEF IInv

LEMMA FollowLinkOK ==
  ASSUME IInv, FollowLink
  PROVE  IInv'
<1> DEFINE R == Relevant(rows, query, link)
           page == FirstOf(R)
<1>1. /\ rows \subseteq Paths /\ None \notin Paths
      /\ query \in SUBSET Paths
      /\ Page(query, link)
      /\ query' = query /\ from' = from /\ rows' = rows /\ viewing' = viewing
      /\ link # None /\ viewing
  BY IndexAssumption DEF IInv, TypeOK, FollowLink
<1>2. /\ shown' = Append(shown, page)
      /\ page \subseteq rows
      /\ link' = None => R = page
      /\ link' # None =>
           /\ link' \in page
           /\ \A p \in page : p = link' \/ Before(p, link')
           /\ \A q \in R \ page : Before(link', q)
           /\ Relevant(rows, query, link') # {}
  BY <1>1, PageAndLink
<1>3. /\ link \in rows /\ link \in Paths
      /\ \A p \in Seen : p = link \/ Before(p, link)
      /\ \A p \in from : p \in Seen \/ (p \in query /\ Before(link, p))
      /\ from \subseteq rows
  BY <1>1 DEF IInv, SeenUpToLink, TypeOK
<1>4. R \subseteq Paths /\ \A p \in Paths : p \in R <=> p \in rows \cap query /\ Before(link, p)
  BY <1>1, <1>3, CursorIsPlace DEF Relevant
<1>5. Cardinality(page) <= PageSize /\ page \subseteq R
  BY <1>4, PageIsFront
<1> HIDE DEF R, page
<1>6. /\ shown' \in Seq(SUBSET Paths)
      /\ Len(shown') = Len(shown) + 1 /\ Len(shown) \in Nat
      /\ \A k \in 1..Len(shown) : shown'[k] = shown[k]
      /\ shown'[Len(shown) + 1] = page
      /\ Seen' = Seen \cup page
  BY <1>1, <1>2, OneMorePage DEF IInv
<1>7. Seen \subseteq Paths /\ \A k \in 1..Len(shown) : shown[k] \subseteq Seen
  BY DEF IInv, TypeOK, Seen
<1>8. \A p \in Seen, q \in page : Before(p, q)
  BY <1>3, <1>4, <1>5, <1>7, BeforeTransitive
<1>9. TypeOK'
  <2>1. link' \in Paths \cup {None}
    BY <1>1, <1>2
  <2>2. \A k \in 1..Len(shown') :
          shown'[k] \subseteq rows' /\ Cardinality(shown'[k]) <= PageSize
    <3>1. \A k \in 1..Len(shown') : k \in 1..Len(shown) \/ k = Len(shown) + 1
      BY <1>6
    <3> QED
      BY <1>1, <1>2, <1>5, <1>6, <3>1 DEF IInv, TypeOK
  <2> QED
    BY <1>1, <1>3, <1>6, <2>1, <2>2 DEF IInv, TypeOK
<1>10. PagesInOrder'
  <2> SUFFICES ASSUME NEW k \in 1..Len(shown'), NEW l \in (k + 1)..Len(shown'),
                      NEW p \in shown'[k], NEW q \in shown'[l]
               PROVE  Before(p, q)
    BY DEF PagesInOrder
  <2>1. k \in 1..Len(shown)
    BY <1>6
  <2>2. CASE l = Len(shown) + 1
    BY <1>6, <1>7, <1>8, <2>1, <2>2
  <2>3. CASE l # Len(shown) + 1
    <3>1. l \in (k + 1)..Len(shown) /\ l \in 1..Len(shown)
      BY <1>6, <2>3
    <3> QED
      BY <1>6, <2>1, <3>1 DEF IInv, PagesInOrder
  <2> QED
    BY <2>2, <2>3
<1>11. SeenUpToLink'
  <2> SUFFICES ASSUME link' # None
               PROVE  /\ viewing' /\ link' \in rows'
                      /\ \A p \in Seen' : p = link' \/ Before(p, link')
                      /\ \A p \in from' : p \in Seen' \/ (p \in query' /\ Before(link', p))
    BY DEF SeenUpToLink
  <2>1. link' \in page /\ link' \in rows
    BY <1>2
  <2>2. \A p \in Seen' : p = link' \/ Before(p, link')
    BY <1>2, <1>6, <1>8, <2>1
  <2>3. \A p \in from : p \in Seen \/ p \in R
    BY <1>1, <1>3, <1>4
  <2>4. \A p \in from : p \in Seen' \/ (p \in query /\ Before(link', p))
    BY <1>2, <1>3, <1>6, <2>3
  <2> QED
    BY <1>1, <2>1, <2>2, <2>4
<1>12. LastPageCompletes'
  <2>1. \A p \in from : p \in Seen \/ p \in R
    BY <1>1, <1>3, <1>4
  <2> QED
    BY <1>1, <1>2, <1>6, <2>1 DEF LastPageCompletes
<1>13. LinksLeadSomewhere'
  BY <1>1, <1>2 DEF LinksLeadSomewhere
<1> QED
  BY <1>1, <1>9, <1>10, <1>11, <1>12, <1>13 DEF IInv

LEMMA StepOK == IInv /\ [Next]_vars => IInv'
<1> SUFFICES ASSUME IInv, [Next]_vars PROVE IInv'
  OBVIOUS
<1>1. CASE \E S \in SUBSET Paths : AddRows(S)
  BY <1>1, AddRowsOK
<1>2. CASE \E matching \in Queries, after \in Paths \cup {None} :
             Visit(matching, after)
  BY <1>2, VisitOK
<1>3. CASE FollowLink
  BY <1>3, FollowLinkOK
<1>4. CASE UNCHANGED vars
  BY <1>4 DEF vars, viewer, IInv, TypeOK, PagesInOrder, SeenUpToLink, Seen,
              LastPageCompletes, LinksLeadSomewhere
<1> QED
  BY <1>1, <1>2, <1>3, <1>4 DEF Next

THEOREM IndexInvariant == Spec => []IInv
BY InitOK, StepOK, PTL DEF Spec

\* No page has more than PageSize rows, all of them from the table.
THEOREM IndexTypeCorrect == Spec => []TypeOK
<1>1. IInv => TypeOK
  BY DEF IInv
<1> QED
  BY <1>1, IndexInvariant, PTL

\* No row is shown twice or out of order, whatever is added meanwhile.
THEOREM PagesFollowEachOther == Spec => []PagesInOrder
<1>1. IInv => PagesInOrder
  BY DEF IInv
<1> QED
  BY <1>1, IndexInvariant, PTL

\* At the last page, every row that was there at first has been shown.
THEOREM NothingIsSkipped == Spec => []LastPageCompletes
<1>1. IInv => LastPageCompletes
  BY DEF IInv
<1> QED
  BY <1>1, IndexInvariant, PTL

\* A link to a next page never leads to an empty one.
THEOREM NoEmptyNextPage == Spec => []LinksLeadSomewhere
<1>1. IInv => LinksLeadSomewhere
  BY DEF IInv
<1> QED
  BY <1>1, IndexInvariant, PTL
=============================================================================
