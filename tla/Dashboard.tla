----------------------------- MODULE Dashboard -----------------------------
(***************************************************************************)
(* The dashboard's reads (Server.list, Server.detail) against the history  *)
(* of Retention.  A page is made of several queries, and the store's only  *)
(* connection is free between them: rows are written, brought back and     *)
(* pruned in the middle of a request.  One request is in flight at a time; *)
(* requests change nothing, so two of them meet only through the store.    *)
(***************************************************************************)
EXTENDS Retention, SequencesExt

CONSTANT PageSize   \* rows per page of the incident list

ASSUME PageSizeAssumption == PageSize \in Nat \ {0}

VARIABLE view   \* the request in flight and what it has read so far

vars == <<historyVars, view>>

NoView == [pc |-> "none"]

-----------------------------------------------------------------------------
(* GET /incidents/{namespace}/{name} *)

\* Mutant: the RCAs are read before the incident they belong to.
DetailReadsChildrenFirst == <<"rca", "row">>

\* The queries of GetIncident, in their order.
DetailReads == <<"row", "rca">>

\* What a query finds for name k.
Query(what, k) == IF what = "row" THEN inc[k] ELSE diags[k]

Detail(k) ==
    /\ view = NoView
    /\ Outside
    /\ view' = [pc |-> "detail", key |-> k, row |-> None, rca |-> FALSE,
                reads |-> 0]
    /\ UNCHANGED <<crVars, workVars, rowVars, chatVars, sweepVars>>

\* The next query; an incident without a row is a 404.  The transcript, which
\* is read last, is a list of its own and left out.
DetailRead ==
    /\ view.pc = "detail"
    /\ view.reads < Len(DetailReads)
    /\ LET what == DetailReads[view.reads + 1]
           found == Query(what, view.key)
       IN  view' = IF what = "row" /\ found = None
                   THEN NoView
                   ELSE [view EXCEPT ![what] = found, !.reads = @ + 1]
    /\ UNCHANGED historyVars

DetailShown == view.pc = "detail" /\ view.reads = Len(DetailReads)

-----------------------------------------------------------------------------
(* GET / *)

\* buildWhere: the names stand for what the namespace, reason and free-text
\* conditions let through.
Matches(f, k, includePhase) ==
    /\ inc[k] # None
    /\ k \in f.names
    /\ includePhase /\ f.phase # "" => inc[k].phase = f.phase

Matching(f) == {k \in Keys : Matches(f, k, TRUE)}

CountIncidents(f) == Cardinality(Matching(f))

CountIncidentsByPhase(f) ==
    [p \in Phases |->
        Cardinality({k \in Keys : Matches(f, k, FALSE) /\ inc[k].phase = p})]

\* Latest updated_at first; rows with equal times come in one fixed order.
NameOrder == SetToSeq(Keys)
NameRank(k) == CHOOSE i \in DOMAIN NameOrder : NameOrder[i] = k
Before(a, b) ==
    \/ inc[a].age < inc[b].age
    \/ inc[a].age = inc[b].age /\ NameRank(a) < NameRank(b)

InOrder(s) == \A i, j \in DOMAIN s : i < j => Before(s[i], s[j])

\* ORDER BY: all of the rows, one before the other.
Sorted(S) == CHOOSE s \in [1..Cardinality(S) -> S] : InOrder(s)

ListIncidentsPage(f, limit, offset) ==
    LET sorted == Sorted(Matching(f))
    IN  SubSeq(sorted, offset + 1,
               IF offset + limit < Len(sorted) THEN offset + limit
                                               ELSE Len(sorted))

\* Mutant: a full last page is followed by an empty one.
LastPageOneTooMany(total) == total \div PageSize + 1

LastPage(total) ==
    LET pages == (total + PageSize - 1) \div PageSize
    IN  IF pages < 1 THEN 1 ELSE pages

Filters == [phase : {"", "Done"}, names : {Keys}]
           \cup [phase : {""}, names : {{k} : k \in Keys}]

\* Pages asked for: none, a middle one, and one past the end.
Pages == {0, 2, Cardinality(Keys) + 1}

\* Mutant: the page number is taken as it comes.
FirstPageAsAsked(page) == page

\* A page below 1, or one that is no number, is page 1.
FirstPage(page) == IF page < 1 THEN 1 ELSE page

\* The first query counts by phase.
List(f, page) ==
    /\ view = NoView
    /\ Outside
    /\ view' = [pc |-> "count", filter |-> f,
                page |-> FirstPage(page),
                totals |-> CountIncidentsByPhase(f)]
    /\ UNCHANGED <<crVars, workVars, rowVars, chatVars, sweepVars>>

\* The second counts the matches; a page past the last one is the last one.
ListCount ==
    /\ view.pc = "count"
    /\ LET last == LastPage(CountIncidents(view.filter))
       IN  view' = [view EXCEPT !.pc = "page",
                                !.page = IF @ > last THEN last ELSE @]
    /\ UNCHANGED historyVars

\* The third reads the page.
ListPage ==
    /\ view.pc = "page"
    /\ view' = [pc |-> "list", filter |-> view.filter, page |-> view.page,
                totals |-> view.totals,
                rows |-> ListIncidentsPage(view.filter, PageSize,
                                           (view.page - 1) * PageSize)]
    /\ UNCHANGED historyVars

\* The page is sent; a query that fails, or a browser that goes away, ends the
\* request earlier.
Respond ==
    /\ view # NoView
    /\ view' = NoView
    /\ UNCHANGED historyVars

-----------------------------------------------------------------------------

Request ==
    \/ \E k \in Keys : Detail(k)
    \/ \E f \in Filters, page \in Pages : List(f, page)

Answer == DetailRead \/ ListCount \/ ListPage \/ Respond

\* The store is written and pruned under a request.  The three queries of a
\* list promise nothing together when the table changes between them: such a
\* list is not followed further.
Background ==
    /\ HistoryStep
    /\ view' = IF view.pc # "detail" /\ inc' # inc THEN NoView ELSE view

\* A request is shorter than a tick.
Time == view = NoView /\ Tick /\ UNCHANGED view

Restart == Crash /\ view' = NoView

Init == HistoryInit /\ view = NoView

Next == Request \/ Answer \/ Background \/ Time \/ Restart

\* A handler runs to its end.
Spec == Init /\ [][Next]_vars /\ HistoryFairness /\ WF_vars(Answer)

-----------------------------------------------------------------------------
(* Properties *)

TypeOK ==
    /\ HistoryTypeOK
    /\ view.pc \in {"none", "detail", "count", "page", "list"}
    /\ view.pc \in {"count", "page", "list"} =>
        /\ view.filter \in Filters
        /\ view.page \in Nat \ {0}

\* The detail page tells the truth although GetIncident's two queries are not
\* one transaction: an incident it shows as Done comes with its RCA, unless the
\* row was past retention already when it was read.
DetailTruthful ==
    DetailShown /\ view.row.phase = "Done" /\ ~view.rca => Expired(view.row)

\* The reference for a page: the matches that have at least (page-1)*PageSize
\* and fewer than page*PageSize matches before them.
Slice(f, page) ==
    {k \in Matching(f) :
        LET newer == Cardinality({o \in Matching(f) : Before(o, k)})
        IN  newer \div PageSize = page - 1}

\* When nothing is written during a request its three queries agree: the list
\* is the slice of the requested page, it is empty only if nothing matches,
\* and the stat cards count what every phase filter would find.
ListIsASlice ==
    view.pc = "list" =>
        /\ ToSet(view.rows) = Slice(view.filter, view.page)
        /\ view.rows = <<>> <=> Matching(view.filter) = {}
        /\ \A p \in Phases :
            view.totals[p] = CountIncidents([view.filter EXCEPT !.phase = p])
=============================================================================
