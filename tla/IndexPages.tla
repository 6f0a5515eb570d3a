----------------------------- MODULE IndexPages -----------------------------
(***************************************************************************)
(* uicache/index.sql, uicache/has_more.sql, cachedList of uicache.go and   *)
(* serveIndex of serve.go: the index page lists the cached store objects   *)
(* by name, a page at a time; a page ends with a link that carries the     *)
(* last digest on it.  Somebody follows those links while requests and the *)
(* crawl of UICache go on adding rows.  A page is read in one transaction. *)
(***************************************************************************)
EXTENDS Naturals, FiniteSets, Sequences

CONSTANTS
  Paths,      \* store objects
  Name,       \* "path_name" of each; 0 stands for the empty name
  Digest,     \* "path_digest" of each
  Refs,       \* "store_object_references": the references of each
  NarSize,    \* "nar_size" of each
  Queries,    \* what a search may match: sets of paths
  PageSize,   \* the limit of index.sql (100)
  None        \* no cursor

ASSUME IndexAssumption ==
  /\ IsFiniteSet(Paths) /\ None \notin Paths
  /\ Name \in [Paths -> Nat \ {0}]
  /\ Digest \in [Paths -> Nat]
  /\ \A p, q \in Paths : Digest[p] = Digest[q] => p = q
  /\ Refs \in [Paths -> SUBSET Paths]
  /\ NarSize \in [Paths -> Nat]
  /\ Queries \subseteq SUBSET Paths
  /\ PageSize \in Nat \ {0}

VARIABLES
  rows,    \* the objects in the table "store_objects"
  query,   \* what the viewer searches for
  shown,   \* the pages that the viewer has seen, one after the other
  link,    \* NextPage of the last of them, or None
  from,    \* history: the rows that the viewer's first page could show
  viewing  \* the viewer has a page in front of it

viewer == <<query, shown, link, from, viewing>>
vars == <<rows, viewer>>

-----------------------------------------------------------------------------
(* The queries.                                                            *)

\* order by "path_name", "path_digest"
Before(p, q) ==
  \/ Name[p] < Name[q]
  \/ Name[p] = Name[q] /\ Digest[p] < Digest[q]

\* Mutant: the cursor is compared by name alone.
AfterName(table, after, p) ==
  after = None \/ (IF after \in table THEN Name[after] ELSE 0) < Name[p]

\* Row p comes after the cursor; the name of a digest that is not in the
\* table is the empty one.
After(table, after, p) ==
  \/ after = None
  \/ LET name == IF after \in table THEN Name[after] ELSE 0 IN
     name < Name[p] \/ (name = Name[p] /\ Digest[after] < Digest[p])

Relevant(table, matching, after) ==
  {p \in table \cap matching : After(table, after, p)}

Earlier(S, p) == {q \in S : Before(q, p)}

\* limit 100
FirstOf(S) == {p \in S : Cardinality(Earlier(S, p)) < PageSize}

LastOf(S) == CHOOSE p \in S : \A q \in S : q = p \/ Before(q, p)

\* Mutant: a full page is taken for a sign that there is more.
MoreIfFull(table, matching, page) == Cardinality(page) = PageSize

\* has_more.sql, from the end of the page on.
HasMore(table, matching, page) ==
  page # {} /\ Relevant(table, matching, LastOf(page)) # {}

-----------------------------------------------------------------------------
(* Closure sizes.                                                          *)

\* The pairs that the recursive part of "requisites" adds: the references of
\* every requisite found so far, as rows of the requisite itself.
Requisites(table, page) ==
  LET refs(p) == {<<p, r>> : r \in Refs[p] \ {p}}
      found[n \in Nat] ==
        IF n = 0 THEN UNION {refs(p) : p \in page}
        ELSE found[n - 1] \cup
             UNION {refs(q) : q \in table \cap {pair[2] : pair \in found[n - 1]}}
  IN found[Cardinality(Paths)]

SumOfSizes(S) ==
  LET sum[T \in SUBSET S] ==
        IF T = {} THEN 0
        ELSE LET p == CHOOSE p \in T : TRUE IN NarSize[p] + sum[T \ {p}]
  IN sum[S]

\* "closure_nar_size" of an object on the page.
ClosureNarSize(table, page, p) ==
  NarSize[p] +
    SumOfSizes({r \in table : <<p, r>> \in Requisites(table, page)})

-----------------------------------------------------------------------------
Init ==
  /\ rows \in SUBSET Paths
  /\ query = {} /\ shown = <<>> /\ link = None /\ from = {}
  /\ viewing = FALSE

\* A request saves one object, or a crawl a batch of them.
AddRows(S) ==
  /\ S # {} /\ S \cap rows = {}
  /\ rows' = rows \cup S
  /\ UNCHANGED viewer

\* serveIndex renders the page of the rows behind a cursor.
Page(matching, after) ==
  LET page == FirstOf(Relevant(rows, matching, after)) IN
  /\ shown' = Append(shown, page)
  /\ link' = IF HasMore(rows, matching, page) THEN LastOf(page) ELSE None

\* The first page, or a link that somebody kept.
Visit(matching, after) ==
  /\ ~ viewing
  /\ viewing' = TRUE
  /\ query' = matching
  /\ from' = Relevant(rows, matching, after)
  /\ Page(matching, after)
  /\ UNCHANGED rows

\* Mutant: pages are counted instead of remembering where the last one ended.
FollowLinkByOffset ==
  /\ viewing /\ link # None
  /\ LET all == rows \cap query
         page == {p \in all :
                    Cardinality(Earlier(all, p)) \in
                      (Len(shown) * PageSize)..((Len(shown) + 1) * PageSize - 1)} IN
     /\ shown' = Append(shown, page)
     /\ link' = IF HasMore(rows, query, page) THEN LastOf(page) ELSE None
  /\ UNCHANGED <<rows, query, from, viewing>>

\* "Next Page"
FollowLink ==
  /\ viewing /\ link # None
  /\ Page(query, link)
  /\ UNCHANGED <<rows, query, from, viewing>>

Next ==
  \/ \E S \in SUBSET Paths : AddRows(S)
  \/ \E matching \in Queries, after \in Paths \cup {None} : Visit(matching, after)
  \/ FollowLink

Spec == Init /\ [][Next]_vars

-----------------------------------------------------------------------------
(* Properties.                                                             *)

TypeOK ==
  /\ rows \subseteq Paths
  /\ query \subseteq Paths
  /\ shown \in Seq(SUBSET Paths)
  /\ link \in Paths \cup {None}
  /\ from \subseteq rows
  /\ viewing \in BOOLEAN
  /\ \A k \in 1..Len(shown) :
       shown[k] \subseteq rows /\ Cardinality(shown[k]) <= PageSize

Seen == UNION {shown[k] : k \in 1..Len(shown)}

\* Pages do not overlap and follow each other in the order of the list,
\* whatever rows are added in front of the viewer's place meanwhile.
PagesInOrder ==
  \A k \in 1..Len(shown) : \A l \in (k + 1)..Len(shown) :
    \A p \in shown[k], q \in shown[l] : Before(p, q)

\* Who follows the links to the last page has seen every row that was there
\* to begin with, also those that share their name with the end of a page.
LastPageCompletes == viewing /\ link = None => from \subseteq Seen

\* "Next Page" is there only if there is a next page with something on it.
LinksLeadSomewhere == link # None => Relevant(rows, query, link) # {}

\* The "closure" sizes of an object on the page are those of all that it
\* needs: of every object that references lead to ("requisites",
\* "closure_nar_size" in index.sql).
Needs(table, p) ==
  {r \in table : \A S \in SUBSET Paths :
     (p \in S /\ \A q \in S \cap table : Refs[q] \subseteq S) => r \in S}

ClosureCounted ==
  LET page == FirstOf(rows) IN
  \A p \in page : ClosureNarSize(rows, page, p) = SumOfSizes(Needs(rows, p))
=============================================================================
