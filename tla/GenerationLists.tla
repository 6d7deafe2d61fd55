-------------------------- MODULE GenerationLists --------------------------
(***************************************************************************)
(* The history of generations in the API:                                  *)
(* services/api/src/services/generations.service.ts and its controller.    *)
(* A list is read from three tables, one query after another, merged,      *)
(* sorted by time of creation and cut to a page; one generation is looked  *)
(* up by its id in one table after another.                                *)
(*                                                                         *)
(* A row is its place in the order of creation; it belongs to a user, lies *)
(* in the table of its type and may be completed while lists are read.     *)
(*                                                                         *)
(* Both handlers take the user from the `id' of the bearer's token.  The   *)
(* tokens that login issues name the user under `userId' and have no `id'. *)
(***************************************************************************)
EXTENDS Integers, Sequences, SequencesExt, FiniteSets

CONSTANTS
    Readers,           \* the users
    MaxRows,           \* bound: generations created
    Filters,           \* what is asked for: records [type, status]
    Limits, Offsets,   \* the limits and offsets asked for
    MaxLimit,          \* the 100 a limit is cut to
    ListEnvironments   \* records [moving, claim]: may rows change while a list is read;
                       \* the field of a token that names its user

Undefined == "undefined"                         \* a field that the token does not have
Tables == <<"product_card", "sora", "chat">>     \* in the order they are queried
NoFilter == "any"                                     \* a filter that is not given

ASSUME FiltersAreFields ==
    Filters \subseteq [type : {NoFilter} \cup ToSet(Tables), status : {NoFilter, "pending", "completed"}]
ASSUME PagesAreNats ==
    Limits \subseteq Nat \ {0} /\ Offsets \subseteq Nat /\ MaxLimit \in Nat /\ MaxRows \in Nat
ASSUME ListEnvironmentsAreRecords ==
    ListEnvironments \subseteq [moving : BOOLEAN, claim : {"userId", "id"}]
ASSUME UndefinedIsNobody == Undefined \notin Readers

VARIABLES
    listEnv,
    rows,      \* sequence of [owner, type, status]
    request,   \* the list being read, or NoRequest
    queried,   \* how many tables it has read
    results,   \* the rows it found so far
    page,      \* the page the last step answered, with its request, or NoPage
    opened     \* the generation the last step opened, or NotOpened

listVars == <<listEnv, rows, request, queried, results, page, opened>>

NoRequest == [by |-> "nobody"]
NoPage == [request |-> NoRequest, items |-> <<>>]
NotOpened == [by |-> "nobody", row |-> 0, code |-> 404]

ListInit ==
    /\ listEnv \in ListEnvironments
    /\ rows = <<>>
    /\ request = NoRequest
    /\ queried = 0
    /\ results = <<>>
    /\ page = NoPage
    /\ opened = NotOpened

\* request.user.id of a request that u makes.
Identity(u) == IF listEnv.claim = "id" THEN u ELSE Undefined

\* The filter by owner applies only to an owner that is given.
Wanted(r, row) ==
    /\ r.owner \in {Undefined, row.owner}
    /\ r.type \in {NoFilter, row.type}
    /\ r.status \in {NoFilter, row.status}

\* Row numbers, the newest first.
Newest(S) ==
    CHOOSE s \in [1..Cardinality(S) -> S] :
        \A i, j \in 1..Cardinality(S) : i < j => s[i] > s[j]

\* slice(offset, offset + limit) of a list, and skip and take of a query.
Cut(s, limit, offset) ==
    SubSeq(s, offset + 1, IF offset + limit < Len(s) THEN offset + limit ELSE Len(s))

Capped(limit) == IF limit < MaxLimit THEN limit ELSE MaxLimit

NothingShown == page' = NoPage /\ opened' = NotOpened

AskList ==
    /\ request = NoRequest
    /\ \E u \in Readers, f \in Filters, l \in Limits, o \in Offsets :
         request' = [by |-> u, owner |-> Identity(u), type |-> f.type, status |-> f.status,
                     limit |-> Capped(l), offset |-> o]
    /\ NothingShown
    /\ UNCHANGED <<listEnv, rows, queried, results>>

\* findMany on the next table that the type asked for does not rule out.
QueryTable ==
    /\ request # NoRequest
    /\ queried < Len(Tables)
    /\ LET table == Tables[queried + 1]
           found == Newest({i \in DOMAIN rows : rows[i].type = table /\ Wanted(request, rows[i])})
       IN results' = results \o Cut(found, request.limit, request.offset)
    /\ queried' = queried + 1
    /\ NothingShown
    /\ UNCHANGED <<listEnv, rows, request>>

\* Mutant: the rows stay in the order of the queries.
Merged_Unsorted(found) == found
Merged(found) == Newest(ToSet(found))

AnswerList ==
    /\ request # NoRequest
    /\ queried = Len(Tables)
    /\ page' = [request |-> request,
                items |-> Cut(Merged(results), request.limit, request.offset)]
    /\ request' = NoRequest
    /\ queried' = 0
    /\ results' = <<>>
    /\ opened' = NotOpened
    /\ UNCHANGED <<listEnv, rows>>

OpenCode(u, i) ==
    IF i \notin DOMAIN rows THEN 404 ELSE IF rows[i].owner # Identity(u) THEN 403 ELSE 200

OpenGeneration ==
    /\ request = NoRequest
    /\ \E u \in Readers, i \in 1..(Len(rows) + 1) :
         opened' = [by |-> u, row |-> i, code |-> OpenCode(u, i)]
    /\ page' = NoPage
    /\ UNCHANGED <<listEnv, rows, request, queried, results>>

(***************************************************************************)
(* The rest of the system: generations are created and finished.           *)
(***************************************************************************)
MayMove == request = NoRequest \/ listEnv.moving

AddRow ==
    /\ MayMove
    /\ Len(rows) < MaxRows
    /\ \E u \in Readers, t \in ToSet(Tables) :
         rows' = Append(rows, [owner |-> u, type |-> t, status |-> "pending"])
    /\ NothingShown
    /\ UNCHANGED <<listEnv, request, queried, results>>

FinishRow ==
    /\ MayMove
    /\ \E i \in DOMAIN rows :
         /\ rows[i].status = "pending"
         /\ rows' = [rows EXCEPT ![i] = [rows[i] EXCEPT !.status = "completed"]]
    /\ NothingShown
    /\ UNCHANGED <<listEnv, request, queried, results>>

ListNext ==
    \/ AskList \/ QueryTable \/ AnswerList \/ OpenGeneration
    \/ AddRow \/ FinishRow

ListSpec == ListInit /\ [][ListNext]_listVars

-----------------------------------------------------------------------------
\* The variables hold what their declarations say.
RequestType ==
    [by : Readers, owner : Readers \cup {Undefined}, type : {NoFilter} \cup ToSet(Tables),
     status : {NoFilter, "pending", "completed"}, limit : 0..MaxLimit, offset : Offsets]

ListTypeOK ==
    /\ listEnv \in ListEnvironments
    /\ rows \in Seq([owner : Readers, type : ToSet(Tables), status : {"pending", "completed"}])
    /\ Len(rows) <= MaxRows
    /\ request \in {NoRequest} \cup RequestType
    /\ queried \in 0..Len(Tables)
    /\ results \in Seq(1..Len(rows))
    /\ page \in {NoPage} \cup [request : RequestType, items : Seq(1..Len(rows))]
    /\ Len(page.items) <= MaxLimit
    /\ opened \in {NotOpened} \cup [by : Readers, row : Nat, code : {200, 403, 404}]

\* The whole list a request stands for, had it no limit and no offset.
WholeList(r) == Newest({i \in DOMAIN rows : Wanted(r, rows[i])})

\* The first page is the newest generations that were asked for, over all three
\* tables, when none moved while it was read; every page, also one read while
\* some moved, has the newest first and no row twice.
FirstPageIsNewest ==
    /\ (page # NoPage /\ page.request.offset = 0 /\ ~listEnv.moving) =>
            page.items = Cut(WholeList(page.request), page.request.limit, 0)
    /\ \A i, j \in DOMAIN page.items : i < j => page.items[i] > page.items[j]

\* A lookup by id shows a user only a generation of the user's own; so does a
\* list, whatever changes while it is read, when the token gives the user's `id'.
OnlyOwnRowsShown ==
    /\ opened.code = 200 => rows[opened.row].owner = opened.by
    /\ listEnv.claim = "id" => \A i \in ToSet(page.items) : rows[i].owner = page.request.by

\* A page is what was asked for, the newest first, and of the user's own where
\* the user is known.
ListsAreRight == FirstPageIsNewest /\ OnlyOwnRowsShown

\* As the handler says, it will "List generations for the authenticated user":
\* a list shows a user no generation of somebody else.
ListShowsOwnRows ==
    \A i \in ToSet(page.items) : rows[i].owner = page.request.by
=============================================================================
