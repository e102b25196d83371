-------------------------------- MODULE Lists --------------------------------
(***************************************************************************)
(* The three ways to get a list of tasks out of the application: pages of  *)
(* the API (tasks/api.py, core/pagination.py), pages of the HTML list      *)
(* (tasks/views.py), and the CSV export, which has no pages.  All of them  *)
(* filter and order by tasks/filters.py.  Each page is a query of its own, *)
(* and rows that the ordering does not tell apart come in any order: an    *)
(* operator here returns the set of responses the server may give.         *)
(***************************************************************************)
EXTENDS Dashboard, SequencesExt

CONSTANTS
    OrderingInput,   \* ?ordering= of requests, as sequences of terms
    SizeInput,       \* ?page_size= of requests
    PageSize,        \* rows of an API page that asks for no size, 25
    MaxPageSize,     \* the most an API request may ask for, 100
    HtmlPageSize     \* rows of a page of the HTML list, 25 too

ASSUME KeysAreOrdered == Task \subseteq Nat
ASSUME PageSizes ==
    /\ PageSize \in 1 .. MaxPageSize /\ MaxPageSize \in Nat
    /\ HtmlPageSize \in Nat \ {0}

\* Nothing orders by updated_at, which the table of Dashboard leaves out.
ASSUME ListInputs ==
    /\ SizeInput \subseteq Int \cup {None}
    /\ OrderingInput \subseteq Seq([field : STRING \ {"updated_at"}, desc : BOOLEAN])

asc(f) == [field |-> f, desc |-> FALSE]
desc(f) == [field |-> f, desc |-> TRUE]

ORDERING_WHITELIST ==
    {"priority", "due_date", "created_at", "updated_at", "status", "ref"}

DEFAULT_ORDERING == <<desc("priority"), asc("due_date")>>

\* What _parse_ordering lets pass.
orderable(terms) == \A i \in DOMAIN terms : terms[i].field \in ORDERING_WHITELIST

order_tasks(terms) == IF terms = <<>> THEN DEFAULT_ORDERING ELSE terms

-----------------------------------------------------------------------------
(* ORDER BY.  PostgreSQL takes null for the largest value; a ref orders    *)
(* like the key it spells out, a status as text.                           *)
Alphabetical == <<"cancelled", "done", "in_progress", "new", "waiting">>

column(t, f) ==
    CASE f = "priority"   -> table[t].priority
      [] f = "due_date"   -> table[t].due_date
      [] f = "created_at" -> table[t].created_at
      [] f = "status"     -> CHOOSE i \in 1 .. 5 : Alphabetical[i] = table[t].status
      [] f = "ref"        -> t

smaller(a, b) == a # None /\ (b = None \/ a < b)

comesFirst(s, t, term) ==
    IF term.desc THEN smaller(column(t, term.field), column(s, term.field))
    ELSE smaller(column(s, term.field), column(t, term.field))

precedes(s, t, terms) ==
    \E i \in DOMAIN terms :
        /\ comesFirst(s, t, terms[i])
        /\ \A j \in 1 .. i - 1 :
               column(s, terms[j].field) = column(t, terms[j].field)

Tied(s, t, terms) == ~ precedes(s, t, terms) /\ ~ precedes(t, s, terms)

sortings(S, terms) ==
    {s \in SetToSeqs(S) : \A i, j \in DOMAIN s :
                              i < j => ~ precedes(s[j], s[i], terms)}

-----------------------------------------------------------------------------
(* An empty list has one page, which is empty.                             *)
num_pages(S, size) ==
    IF S = {} THEN 1 ELSE (Cardinality(S) + size - 1) \div size

\* A way to get the next definition wrong: the rows are cut one too late.
page_shifted(s, n, size) ==
    SubSeq(s, (n - 1) * size + 2, IF n * size + 1 < Len(s) THEN n * size + 1 ELSE Len(s))

page(s, n, size) ==
    SubSeq(s, (n - 1) * size + 1, IF n * size < Len(s) THEN n * size ELSE Len(s))

ok(rows) == [code |-> 200, rows |-> rows]
refused(code) == [code |-> code, rows |-> <<>>]

\* DefaultPagination: too large a size is cut, none or a senseless one is 25.
page_size(size) ==
    IF size = None \/ size < 1 THEN PageSize
    ELSE IF size > MaxPageSize THEN MaxPageSize ELSE size

\* GET /api/tasks: a page that is not there is not found.
api_list(q, terms, n, size) ==
    LET S == apply_query_params(q)
    IN  IF ~ orderable(terms) THEN {refused(400)}
        ELSE IF n \notin 1 .. num_pages(S, page_size(size)) THEN {refused(404)}
        ELSE {ok(page(s, n, page_size(size))) : s \in sortings(S, order_tasks(terms))}

(* The HTML list: Paginator.get_page turns a page that is no number into   *)
(* the first, and one that is not there into the last.  An ordering that   *)
(* is refused is an error nobody handles outside of the API.               *)
html_list(S, terms, n) ==
    LET last == num_pages(S, HtmlPageSize)
        shown == IF n = None THEN 1 ELSE IF n \in 1 .. last THEN n ELSE last
    IN  IF ~ orderable(terms) THEN {refused(500)}
        ELSE {ok(page(s, shown, HtmlPageSize)) : s \in sortings(S, order_tasks(terms))}

\* GET /api/tasks/export.
export(q, terms) ==
    IF ~ orderable(terms) THEN {refused(400)}
    ELSE {ok(s) : s \in sortings(apply_query_params(q), order_tasks(terms))}

-----------------------------------------------------------------------------
(* What a client gets who asks for page after page: answers[n] are the     *)
(* answers there may be to the request for page n.                         *)
walks(answers) ==
    LET any == UNION {{n} \X answers[n] : n \in DOMAIN answers}
    IN  {[n \in DOMAIN answers |-> f[n][2].rows] :
            f \in {g \in [DOMAIN answers -> any] :
                      \A n \in DOMAIN answers : g[n][1] = n}}

\* Until one is not found, or as many as the HTML list has links to.
api_walks(q, terms, size) ==
    walks([n \in 1 .. num_pages(apply_query_params(q), page_size(size)) |->
              api_list(q, terms, n, size)])

html_walks(q, terms) ==
    LET S == apply_query_params(q)
    IN  walks([n \in 1 .. num_pages(S, HtmlPageSize) |-> html_list(S, terms, n)])

(* All pages together are the export, row by row, when the ordering tells  *)
(* all tasks apart, whether they come from the API or from the HTML list.  *)
(* When it does not, as the default one does not, a task may be missing    *)
(* from all the pages, but only because one it ties with is on two of them *)
(* (selectors.py 36-37, 299-303; api.py 125-131, 181-198; views.py 70-72;  *)
(* pagination.py 4-9).                                                     *)
PagesAreTheExport ==
    \A q \in {NoParams, [NoParams EXCEPT !.overdue = "1"]}, terms \in OrderingInput :
        orderable(terms) =>
            LET S == apply_query_params(q)
                order == IF terms = <<>> THEN DEFAULT_ORDERING ELSE terms
                total == \E i \in DOMAIN order : order[i].field = "ref"
                on(w, t) == {n \in DOMAIN w : t \in ToSet(w[n])}
            IN  \A w \in html_walks(q, terms)
                           \cup UNION {api_walks(q, terms, size) : size \in SizeInput} :
                    /\ ToSet(FlattenSeq(w)) \subseteq S
                    /\ \A t \in S : on(w, t) = {} =>
                           \E x \in S : Tied(t, x, order)
                                         /\ Cardinality(on(w, x)) > 1
                    /\ total => export(q, terms) = {ok(FlattenSeq(w))}
=============================================================================
