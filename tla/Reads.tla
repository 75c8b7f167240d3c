------------------------------- MODULE Reads --------------------------------
(***************************************************************************)
(* The endpoints that only read: listJobs, the admin dashboard and stats,  *)
(* and the api's Prometheus gauge.  Each makes several queries, and the    *)
(* pipeline moves on between them.  A reader disturbs nobody, so one, rd,  *)
(* stands for any number of them.                                          *)
(*                                                                         *)
(* created_at is the time an INSERT began, so rows may become visible in   *)
(* another order than their stamps, and nothing keeps two stamps from      *)
(* being equal: ORDER BY created_at leaves the order of such rows open,    *)
(* anew for every query.  Pages are sets.  Time windows (rates, latency,   *)
(* jobs today) are left out, since the pipeline has no dates.              *)
(***************************************************************************)
EXTENDS Dispatch, FiniteSetsExt

CONSTANTS
    Configured,        \* cfg.Queues as the api reads it
    DefaultListLimit, MaxListLimit, RecentJobsLimit,
    Limits,            \* the limit parameters callers send
    StatusFilters      \* the status parameters they send

(* A uuid has 128 bits.                                                    *)
ASSUME ReadsAssumption ==
    /\ IsFiniteSet(Ids)
    /\ Configured \subseteq QueueNames
    /\ MaxListLimit \in Nat
    /\ DefaultListLimit \in 1..MaxListLimit
    /\ RecentJobsLimit \in Nat \ {0}
    /\ Limits \subseteq Int
    /\ StatusFilters \subseteq Status \cup {"any"}

VARIABLES
    created,   \* created_at of each row
    rd         \* the reader

readVars == <<vars, created, rd>>

Filter == [queue: QueueNames \cup {"any"}, status: StatusFilters \cup {"any"}]

(* got    the ids returned so far                                          *)
(* left   the queues still to be measured, at the one between its commands *)
(* due    history: the rows, or the ids in Redis, that were there when the *)
(*        request began and still are, which the answer has to account for *)
ReaderState ==
    [pc: {"idle", "count", "page", "recent", "len", "zcard", "done"},
     op: {"none", "list", "dashboard", "stats", "scrape"},
     tenant: Tenants \cup {NoId}, filter: Filter, limit: Nat, offset: Nat, total: Nat,
     got: SUBSET Ids, due: SUBSET (Ids \X {"row", "list", "delayed"}),
     left: SUBSET QueueNames, at: QueueNames \cup {NoId},
     depth: [QueueNames -> Nat], parked: [QueueNames -> Nat], totals: [Status -> Nat]]

Everything == [queue |-> "any", status |-> "any"]

NoReader ==
    [pc |-> "idle", op |-> "none", tenant |-> NoId, filter |-> Everything, limit |-> 0,
     offset |-> 0, total |-> 0, got |-> {}, due |-> {}, left |-> {}, at |-> NoId,
     depth |-> [q \in QueueNames |-> 0], parked |-> [q \in QueueNames |-> 0],
     totals |-> [st \in Status |-> 0]]

ReadsInit ==
    /\ Init
    /\ created = [id \in {} |-> 0]
    /\ rd = NoReader

-----------------------------------------------------------------------------
(* The WHERE of ListJobs.                                                  *)
Matching(tenant, f) ==
    {id \in DOMAIN jobs : /\ jobs[id].tenant_id = tenant
                          /\ f.queue \in {"any", jobs[id].queue_name}
                          /\ f.status \in {"any", jobs[id].status}}

(* The sets that ORDER BY created_at DESC may put first, when n rows of S  *)
(* are asked for: which of the rows with the last stamp is not determined. *)
Newest(S, n) ==
    {F \in SUBSET S : /\ Cardinality(F) = Min({n, Cardinality(S)})
                      /\ \A i \in F, j \in S \ F : created[i] >= created[j]}

(* Mutant of Pages: the offset is taken for the number of the first row.   *)
Pages_FromOne(S, limit, offset) ==
    {P \in SUBSET S : \E skipped \in Newest(S, offset + 1) :
        P \cap skipped = {} /\ P \cup skipped \in Newest(S, offset + 1 + limit)}

(* The possible results of ORDER BY created_at DESC LIMIT limit OFFSET     *)
(* offset.                                                                 *)
Pages(S, limit, offset) ==
    {P \in SUBSET S : \E skipped \in Newest(S, offset) :
        P \cap skipped = {} /\ P \cup skipped \in Newest(S, offset + limit)}

(* The limit a request gets: 0 is an absent parameter, none a refusal.     *)
parseListParams(limit) ==
    IF limit = 0 THEN {DefaultListLimit} ELSE {limit} \cap 1..MaxListLimit

(* A caller starts to page through a listing.                              *)
listJobs(tenant, f, param) ==
    /\ rd.pc = "idle"
    /\ \E limit \in parseListParams(param) :
          rd' = [NoReader EXCEPT !.pc = "count", !.op = "list", !.tenant = tenant,
                                 !.filter = f, !.limit = limit, !.due = Matching(tenant, f) \X {"row"}]

(* Mutant of countJobs: the count forgets the tenant.                      *)
countJobs_AllTenants ==
    /\ rd.pc = "count"
    /\ rd' = [rd EXCEPT !.pc = "page", !.total = Cardinality(DOMAIN jobs)]

countJobs ==
    /\ rd.pc = "count"
    /\ rd' = [rd EXCEPT !.pc = "page", !.total = Cardinality(Matching(rd.tenant, rd.filter))]

pagesNow == Pages(Matching(rd.tenant, rd.filter), rd.limit, rd.offset)

(* The page, with which one response is complete.  A caller who wants all  *)
(* goes on with the next offset until a page is not full.                  *)
pageJobs ==
    /\ rd.pc = "page"
    /\ \E page \in pagesNow :
          rd' = IF Cardinality(page) = rd.limit
                THEN [rd EXCEPT !.pc = "count", !.got = @ \cup page, !.offset = @ + rd.limit]
                ELSE [rd EXCEPT !.pc = "done", !.got = @ \cup page]

(* Mutant of StatusCounts: cancelled jobs are not counted.                 *)
StatusCounts_NoCancelled(tenant) ==
    [st \in Status |-> IF st = "cancelled" THEN 0
        ELSE Cardinality(Matching(tenant, [Everything EXCEPT !.status = st]))]

(* GROUP BY status; dashboard fills in a zero for every status that is     *)
(* missing.                                                                *)
StatusCounts(tenant) ==
    [st \in Status |-> Cardinality(Matching(tenant, [Everything EXCEPT !.status = st]))]

dashboard(tenant) ==
    /\ rd.pc = "idle"
    /\ rd' = [NoReader EXCEPT !.pc = "recent", !.op = "dashboard", !.tenant = tenant,
                              !.limit = RecentJobsLimit, !.totals = StatusCounts(tenant),
                              !.due = Matching(tenant, Everything) \X {"row"}]

dashboardRecent ==
    /\ rd.pc = "recent"
    /\ \E page \in pagesNow : rd' = [rd EXCEPT !.pc = "done", !.got = page]

-----------------------------------------------------------------------------
Of(T) == {id \in DOMAIN jobs : jobs[id].tenant_id \in T}

(* Mutant of QueuesOf: jobs that have ended are all that is looked at.     *)
QueuesOf_Ended(T) == {jobs[id].queue_name : id \in {j \in Of(T) : jobs[j].status \in Terminal}}

(* SELECT DISTINCT queue_name: QueueNames for one tenant, AllQueueNames    *)
(* for all of them.                                                        *)
QueuesOf(T) == {jobs[id].queue_name : id \in Of(T)}

(* mergeUnique, and mergeQueues of cmd/api.                                *)
mergeUnique(a, b) == a \cup b

StatsQueues(tenant) == mergeUnique(Configured, QueuesOf({tenant}))

ScrapeQueues == mergeUnique(Configured, QueuesOf(Tenants))

(* The ids of T in the structures of their own queues.                     *)
Backlog(T) ==
    {id \in Of(T) : \E i \in DOMAIN work[jobs[id].queue_name] :
                       work[jobs[id].queue_name][i] = id} \X {"list"}
    \cup {id \in Of(T) : id \in DOMAIN delayed[jobs[id].queue_name]} \X {"delayed"}

(* The names are read from Postgres; with none there is nothing to ask.    *)
Measure(op, tenant, names, due) ==
    /\ rd.pc = "idle"
    /\ rd' = [NoReader EXCEPT !.pc = IF names = {} THEN "done" ELSE "len", !.op = op,
                              !.tenant = tenant, !.left = names, !.due = due]

stats(tenant) == Measure("stats", tenant, StatsQueues(tenant), Backlog({tenant}))

QueueDepths == Measure("scrape", NoId, ScrapeQueues, Backlog(Tenants))

AfterQueue(q) == IF rd.left = {q} THEN "done" ELSE "len"

(* LLEN of the next queue; stats goes on to ask for its ZCARD.             *)
depthOf(q) ==
    /\ rd.pc = "len"
    /\ q \in rd.left
    /\ rd' = [rd EXCEPT !.depth[q] = Len(work[q]), !.left = @ \ {q}, !.at = q,
                        !.pc = IF rd.op = "stats" THEN "zcard" ELSE AfterQueue(q)]

DelayedLen ==
    /\ rd.pc = "zcard"
    /\ rd' = [rd EXCEPT !.parked[rd.at] = Cardinality(DOMAIN delayed[rd.at]), !.at = NoId,
                        !.pc = IF rd.left = {} THEN "done" ELSE "len"]

(* The answer is sent; a query that fails ends the request with a 500 and  *)
(* nothing of what was read before it.                                     *)
respond == rd.pc # "idle" /\ rd' = NoReader

-----------------------------------------------------------------------------
Reader ==
    /\ \/ \E tenant \in Tenants :
             \/ \E f \in Filter, param \in Limits : listJobs(tenant, f, param)
             \/ dashboard(tenant) \/ stats(tenant)
       \/ countJobs \/ pageJobs \/ dashboardRecent \/ QueueDepths \/ DelayedLen
       \/ \E q \in QueueNames : depthOf(q)
       \/ respond
    /\ UNCHANGED <<vars, created>>

(* DEFAULT now(): a new row takes any stamp, one that another row has or   *)
(* not.                                                                    *)
Stamped ==
    LET new == DOMAIN jobs' \ DOMAIN jobs IN
    IF new = {} THEN UNCHANGED created
    ELSE \E at \in 1..Cardinality(Ids) :
            created' = [id \in DOMAIN jobs' |-> IF id \in new THEN at ELSE created[id]]

Pipeline ==
    /\ Next
    /\ Stamped
    /\ rd' = [rd EXCEPT !.due = {x \in @ : x[2] = "row" \/ x \in Backlog(Tenants)'}]

ReadsNext == Reader \/ Pipeline

ReadsSpec == ReadsInit /\ [][ReadsNext]_readVars

-----------------------------------------------------------------------------
(* The reader and the stamps have their types, and no request gets a page  *)
(* larger than MaxListLimit allows (parseListParams).                      *)
ReadsTypeOK ==
    /\ rd \in ReaderState
    /\ created \in [DOMAIN jobs -> 1..Cardinality(Ids)]
    /\ rd.op = "list" => rd.limit \in 1..MaxListLimit

(* Types are kept, and a caller who pages through a listing until a page   *)
(* is not full gets, for every job that was there when they began, that    *)
(* job or another of the listing with the same created_at.  So a job is    *)
(* skipped only if it shares its stamp with one that was returned, though  *)
(* jobs are created, and become visible out of order, between the pages;   *)
(* rows may come twice.  Not promised for a listing by status, which jobs  *)
(* leave (ListJobs: ORDER BY without a tie-break, LIMIT and OFFSET).       *)
PagingSkipsOnlyTies ==
    /\ ReadsTypeOK
    /\ rd.op = "list" /\ rd.pc = "done" /\ rd.filter.status = "any" =>
          \A x \in rd.due : \E id \in rd.got \cap Matching(rd.tenant, rd.filter) :
                               created[id] = created[x[1]]

(* A page is never shorter than the total it comes with says: the count    *)
(* and the page are two queries, and what is inserted in between only adds *)
(* (ListJobs; not for a listing by status).                                *)
TotalBacksPage ==
    rd.pc = "page" /\ rd.filter.status = "any" =>
        \A page \in pagesNow :
            Cardinality(page) >= Min({rd.limit, Max({0, rd.total - rd.offset})})

InAnyStatus(totals) ==
    totals["pending"] + totals["processing"] + totals["completed"]
    + totals["failed"] + totals["cancelled"]

(* The dashboard's totals count each of the tenant's jobs once, whatever   *)
(* its status, and the list of recent jobs below them is as long as the    *)
(* totals require, though it is read later (dashboard, StatusCounts).      *)
DashboardAddsUp ==
    rd.op = "dashboard" =>
        /\ InAnyStatus(rd.totals) = Cardinality(rd.due)
        /\ rd.pc = "done" =>
              Cardinality(rd.got) >= Min({InAnyStatus(rd.totals), RecentJobsLimit})

(* Every id of the tenant that stays in a work list or in a delayed set    *)
(* while stats is being computed is part of a reported depth, whichever    *)
(* queue it was submitted to; the gauge does the same for the work lists   *)
(* of all tenants (QueueNames, mergeUnique, Len, DelayedLen).  Not         *)
(* promised for an id that is promoted between the LLEN and the ZCARD of   *)
(* its queue: Redis holds it all along, yet both depths may miss it.       *)
BacklogIsShown ==
    rd.op \in {"stats", "scrape"} /\ rd.pc = "done" =>
        \A q \in QueueNames :
            LET in(where) == {x \in rd.due : x[2] = where /\ jobs[x[1]].queue_name = q} IN
            /\ rd.depth[q] >= Cardinality(in("list"))
            /\ rd.op = "stats" => rd.parked[q] >= Cardinality(in("delayed"))
=============================================================================
