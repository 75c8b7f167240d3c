---------------------------- MODULE ReadsProofs -----------------------------
(***************************************************************************)
(* Proofs about the endpoints that only read, for any number of jobs,      *)
(* tenants, queues, workers and requests and any limits.                   *)
(***************************************************************************)
EXTENDS Reads, DispatchProofs, FiniteSetTheorems

(* The prover of a leaf that names none, and its time limit in seconds.    *)
USE ZenonT(30)

Listing == Matching(rd.tenant, rd.filter)

(* How many rows of S come before id in every order of ORDER BY.           *)
rank(id, S) == Cardinality({j \in S : created[j] > created[id]})

(* A row of the listing with this stamp has been returned.                 *)
Found(at) == \E j \in rd.got \cap Listing : created[j] = at

(* Which request is under way at which step.                               *)
Phases ==
    /\ rd.pc \in {"count", "page"} => rd.op = "list"
    /\ rd.pc = "recent" => rd.op = "dashboard"
    /\ rd.pc \in {"len", "zcard"} => rd.op \in {"stats", "scrape"}
    /\ rd.pc = "zcard" => rd.op = "stats" /\ rd.at \in QueueNames
    /\ rd.pc = "idle" => rd.op = "none"

(* Without a condition on the status no row leaves a listing.  So the      *)
(* stamp of a row that was to be found has been returned once the newer    *)
(* rows do not fill the pages up to the offset any more, and the total is  *)
(* at most the number of rows there are now.                               *)
ListSoFar ==
    rd.op = "list" /\ rd.filter.status = "any" =>
        /\ \A x \in rd.due :
              /\ x[1] \in Listing
              /\ x[2] = "row"
              /\ rd.pc = "done" \/ rank(x[1], Listing) < rd.offset => Found(created[x[1]])
        /\ rd.pc = "page" => rd.total <= Cardinality(Listing)

DashboardSoFar ==
    rd.op = "dashboard" =>
        /\ rd.filter = Everything
        /\ rd.limit = RecentJobsLimit
        /\ rd.offset = 0
        /\ \A x \in rd.due : x[2] = "row"
        /\ InAnyStatus(rd.totals) = Cardinality(rd.due)
        /\ Cardinality(rd.due) <= Cardinality(Listing)
        /\ rd.pc = "done" =>
              Cardinality(rd.got) >= Min({InAnyStatus(rd.totals), RecentJobsLimit})

(* The part of due that the answer for q has to account for.               *)
DueIn(q, where) == {x \in rd.due : x[2] = where /\ jobs[x[1]].queue_name = q}

(* What is due is still in its structure, and the answers that were got    *)
(* cover it; a queue is outside left when it was measured or has no job.   *)
DepthsSoFar ==
    rd.op \in {"stats", "scrape"} =>
        /\ rd.due \subseteq Backlog(Tenants)
        /\ rd.pc = "done" => rd.left = {}
        /\ \A q \in QueueNames \ rd.left :
              /\ rd.depth[q] >= Cardinality(DueIn(q, "list"))
              /\ rd.op = "stats" /\ ~(rd.pc = "zcard" /\ rd.at = q) =>
                    rd.parked[q] >= Cardinality(DueIn(q, "delayed"))

ReadsInv ==
    /\ TypeOK
    /\ ExclusiveRun
    /\ ReadsTypeOK
    /\ Phases
    /\ ListSoFar
    /\ DashboardSoFar
    /\ DepthsSoFar

-----------------------------------------------------------------------------
(* Pages.                                                                  *)
LEMMA MinOfTwo ==
  ASSUME NEW a \in Int, NEW b \in Int
  PROVE  Min({a, b}) = IF a <= b THEN a ELSE b
  BY SMTT(30) DEF Min

LEMMA MaxOfTwo ==
  ASSUME NEW a \in Int, NEW b \in Int
  PROVE  Max({a, b}) = IF a >= b THEN a ELSE b
  BY SMTT(30) DEF Max

LEMMA DisjointSum ==
  ASSUME NEW S, NEW T, IsFiniteSet(S), IsFiniteSet(T), S \cap T = {}
  PROVE  /\ IsFiniteSet(S \cup T)
         /\ Cardinality(S \cup T) \in Nat
         /\ Cardinality(S \cup T) = Cardinality(S) + Cardinality(T)
  <1>1. /\ IsFiniteSet(S \cup T)
        /\ Cardinality(S \cup T) = Cardinality(S) + Cardinality(T) - Cardinality(S \cap T)
    BY FS_Union
  <1>2. Cardinality(S) \in Nat /\ Cardinality(T) \in Nat /\ Cardinality(S \cup T) \in Nat
    BY <1>1, FS_CardinalityType
  <1>3. Cardinality(S \cap T) = 0
    BY FS_EmptySet
  <1>4. Cardinality(S) + Cardinality(T) - Cardinality(S \cap T) = Cardinality(S) + Cardinality(T)
    BY SMTT(30), <1>2, <1>3
  <1>. QED  BY <1>1, <1>2, <1>4

Ordered(S) == IsFiniteSet(S) /\ \A i \in S : created[i] \in Int

LEMMA RanksAreNumbers ==
  ASSUME NEW S, Ordered(S)
  PROVE  /\ Cardinality(S) \in Nat
         /\ \A i \in S : rank(i, S) \in 0..(Cardinality(S) - 1)
  <1>. DEFINE n == Cardinality(S)
              before(i) == {j \in S : created[j] > created[i]}
  <1>1. n \in Nat
    BY FS_CardinalityType DEF Ordered
  <1>2. ASSUME NEW i \in S
        PROVE  rank(i, S) \in 0..(n - 1)
    <2>1. i \notin before(i)
      BY SMTT(30) DEF Ordered
    <2>2. IsFiniteSet(S \ {i}) /\ Cardinality(S \ {i}) = n - 1
      BY FS_RemoveElement DEF Ordered
    <2>3. before(i) \in SUBSET (S \ {i})
      BY <2>1
    <2>4. IsFiniteSet(before(i)) /\ Cardinality(before(i)) <= Cardinality(S \ {i})
      BY <2>2, <2>3, FS_Subset
    <2>5. Cardinality(before(i)) \in Nat
      BY <2>4, FS_CardinalityType
    <2>6. rank(i, S) = Cardinality(before(i))
      BY DEF rank
    <2>. HIDE DEF before, n
    <2>. QED  BY SMTT(30), <1>1, <2>2, <2>4, <2>5, <2>6
  <1>. QED  BY <1>1, <1>2

Closed(F, S) == \A i \in F, j \in S \ F : created[i] >= created[j]

(* G are the rows before the page P, in the order of its query.            *)
PageAfter(P, G, S, limit, offset) ==
    /\ P \cap G = {}
    /\ IsFiniteSet(G) /\ IsFiniteSet(P \cup G)
    /\ Cardinality(G) = IF offset <= Cardinality(S) THEN offset ELSE Cardinality(S)
    /\ Cardinality(P \cup G) = IF offset + limit <= Cardinality(S)
                                THEN offset + limit ELSE Cardinality(S)
    /\ Closed(G, S)
    /\ Closed(P \cup G, S)

LEMMA PageParts ==
  ASSUME NEW S, Ordered(S), NEW limit \in Nat, NEW offset \in Nat,
         NEW P \in Pages(S, limit, offset)
  PROVE  /\ Cardinality(S) \in Nat
         /\ P \subseteq S /\ IsFiniteSet(P)
         /\ \E G \in SUBSET S : PageAfter(P, G, S, limit, offset)
  <1>. DEFINE n == Cardinality(S)
  <1>1. n \in Nat /\ IsFiniteSet(S)
    BY FS_CardinalityType DEF Ordered
  <1>2. P \in SUBSET S
    BY DEF Pages
  <1>3. PICK G \in Newest(S, offset) : P \cap G = {} /\ P \cup G \in Newest(S, offset + limit)
    BY DEF Pages
  <1>4. G \in SUBSET S /\ P \cup G \in SUBSET S
    BY <1>3 DEF Newest
  <1>5. IsFiniteSet(P) /\ IsFiniteSet(G) /\ IsFiniteSet(P \cup G)
    BY <1>1, <1>2, <1>4, FS_Subset
  <1>6. Cardinality(G) = Min({offset, n}) /\ Cardinality(P \cup G) = Min({offset + limit, n})
    BY <1>3 DEF Newest
  <1>7. n \in Int /\ offset \in Int /\ offset + limit \in Int
    BY SMTT(30), <1>1
  <1>8. /\ Min({offset, n}) = IF offset <= n THEN offset ELSE n
        /\ Min({offset + limit, n}) = IF offset + limit <= n THEN offset + limit ELSE n
    BY <1>7, MinOfTwo
  <1>9. Closed(G, S) /\ Closed(P \cup G, S)
    BY <1>3 DEF Newest, Closed
  <1>. HIDE DEF n
  <1>10. /\ Cardinality(G) = IF offset <= n THEN offset ELSE n
         /\ Cardinality(P \cup G) = IF offset + limit <= n THEN offset + limit ELSE n
    BY <1>6, <1>8
  <1>11. PageAfter(P, G, S, limit, offset)
    BY <1>3, <1>5, <1>9, <1>10 DEF PageAfter, n
  <1>. QED  BY <1>1, <1>2, <1>4, <1>5, <1>11 DEF n

(* LIMIT and OFFSET return as many rows as there are from the offset on,   *)
(* up to the limit.                                                        *)
LEMMA PageSize ==
  ASSUME NEW S, Ordered(S), NEW limit \in Nat, NEW offset \in Nat,
         NEW P \in Pages(S, limit, offset)
  PROVE  LET n == Cardinality(S) IN
         /\ n \in Nat
         /\ Cardinality(P) =
               IF n <= offset THEN 0 ELSE IF offset + limit <= n THEN limit ELSE n - offset
  <1>. DEFINE n == Cardinality(S)
  <1>1. n \in Nat /\ IsFiniteSet(P)
    BY PageParts
  <1>g. PICK G \in SUBSET S : PageAfter(P, G, S, limit, offset)
    BY PageParts
  <1>2. /\ P \cap G = {}
        /\ IsFiniteSet(G)
        /\ Cardinality(G) = IF offset <= n THEN offset ELSE n
        /\ Cardinality(P \cup G) = IF offset + limit <= n THEN offset + limit ELSE n
    BY <1>g DEF PageAfter
  <1>3. Cardinality(P \cup G) = Cardinality(P) + Cardinality(G)
    BY <1>1, <1>2, DisjointSum
  <1>4. Cardinality(P) \in Nat /\ Cardinality(G) \in Nat
    BY <1>1, <1>2, FS_CardinalityType
  <1>. HIDE DEF n
  <1>5. Cardinality(P) =
          IF n <= offset THEN 0 ELSE IF offset + limit <= n THEN limit ELSE n - offset
    BY SMTT(30), <1>1, <1>2, <1>3, <1>4
  <1>. QED  BY <1>1, <1>5 DEF n

Shows(P, at) == \E j \in P : created[j] = at

(* A page returns every stamp whose first place, in whichever order the    *)
(* ties come, is one of the page's.                                        *)
LEMMA PageCovers ==
  ASSUME NEW S, Ordered(S), NEW limit \in Nat, NEW offset \in Nat,
         NEW P \in Pages(S, limit, offset),
         NEW id \in S, offset <= rank(id, S), rank(id, S) < offset + limit
  PROVE  Shows(P, created[id])
  <1>. DEFINE n == Cardinality(S)
              before == {j \in S : created[j] > created[id]}
              r == Cardinality(before)
  <1>1. n \in Nat /\ P \subseteq S /\ IsFiniteSet(P)
    BY PageParts
  <1>g. PICK G \in SUBSET S : PageAfter(P, G, S, limit, offset)
    BY PageParts
  <1>2. /\ P \cap G = {}
        /\ IsFiniteSet(G) /\ IsFiniteSet(P \cup G)
        /\ Cardinality(G) = IF offset <= n THEN offset ELSE n
        /\ Cardinality(P \cup G) = IF offset + limit <= n THEN offset + limit ELSE n
        /\ \A i \in G, j \in S \ G : created[i] >= created[j]
        /\ \A i \in P \cup G, j \in S \ (P \cup G) : created[i] >= created[j]
    BY <1>g DEF PageAfter, Closed
  <1>3. rank(id, S) = r /\ rank(id, S) \in 0..(n - 1)
    BY RanksAreNumbers DEF rank
  <1>4. IsFiniteSet(before)
    <2>1. before \in SUBSET S
      OBVIOUS
    <2>. QED  BY <2>1, FS_Subset DEF Ordered
  <1>. HIDE DEF n, r
  <1>5. r \in Nat /\ Cardinality(G) <= r /\ r < Cardinality(P \cup G)
    BY SMTT(30), <1>1, <1>2, <1>3
  <1>6. \A i \in S : created[i] \in Int
    BY DEF Ordered
  <1>7. PICK j \in P \cup G : created[j] = created[id]
    <2>1. PICK k \in P \cup G : k \notin before
      <3>1. SUFFICES ASSUME P \cup G \in SUBSET before PROVE FALSE
        OBVIOUS
      <3>2. Cardinality(P \cup G) <= Cardinality(before) /\ Cardinality(P \cup G) \in Nat
        BY <1>2, <1>4, <3>1, FS_Subset, FS_CardinalityType
      <3>3. Cardinality(P \cup G) <= r
        BY <3>2 DEF r
      <3>. QED  BY SMTT(30), <1>5, <3>2, <3>3
    <2>2. k \in S /\ created[k] \in Int /\ created[id] \in Int /\ ~(created[k] > created[id])
      BY <1>1, <1>2, <1>6, <2>1
    <2>3. CASE id \in P \cup G
      BY <2>3
    <2>4. CASE id \notin P \cup G
      <3>1. created[k] >= created[id]
        BY <1>2, <2>1, <2>4
      <3>2. created[k] = created[id]
        BY SMTT(30), <2>2, <3>1
      <3>. QED  BY <2>1, <3>2
    <2>. QED  BY <2>3, <2>4
  <1>8. j \notin G
    <2>1. SUFFICES ASSUME j \in G PROVE FALSE
      OBVIOUS
    <2>2. ASSUME NEW b \in before PROVE b \in G
      <3>1. created[b] \in Int /\ created[j] \in Int /\ created[b] > created[j] /\ b \in S
        BY <1>1, <1>2, <1>6, <1>7
      <3>2. ~(created[j] >= created[b])
        BY SMTT(30), <3>1
      <3>. QED  BY <1>2, <2>1, <3>1, <3>2
    <2>3. j \notin before
      <3>1. created[j] \in Int /\ created[j] = created[id]
        BY <1>1, <1>2, <1>6, <1>7
      <3>2. ~(created[j] > created[id])
        BY SMTT(30), <3>1
      <3>. QED  BY <3>2
    <2>4. Cardinality(before \cup {j}) = Cardinality(before) + 1
      BY <1>4, <2>3, FS_AddElement
    <2>5. before \cup {j} \in SUBSET G
      BY <2>1, <2>2
    <2>6. Cardinality(before \cup {j}) <= Cardinality(G)
      BY <1>2, <2>5, FS_Subset
    <2>7. Cardinality(G) \in Nat
      BY <1>2, FS_CardinalityType
    <2>8. r + 1 <= Cardinality(G)
      BY <2>4, <2>6 DEF r
    <2>. QED  BY SMTT(30), <1>5, <2>7, <2>8
  <1>. QED  BY <1>7, <1>8 DEF Shows

-----------------------------------------------------------------------------
(* What the pipeline does to the tables that a reader looks at: rows keep  *)
(* their tenant and their queue, none goes away, and one at a time is      *)
(* added.                                                                  *)
RowsStay ==
    /\ \A id \in DOMAIN jobs :
          /\ id \in DOMAIN jobs'
          /\ jobs'[id].tenant_id = jobs[id].tenant_id
          /\ jobs'[id].queue_name = jobs[id].queue_name
    /\ \A i, j \in DOMAIN jobs' \ DOMAIN jobs : i = j

LEMMA NextKeepsRows == ASSUME TypeOK, ExclusiveRun, [Next]_vars PROVE RowsStay
  <1>1. CASE UNCHANGED storeVars
    BY <1>1 DEF storeVars, RowsStay
  <1>2. CASE StoreNext
    <2>1. PICK id \in Ids : Statement(id)
      BY <1>2 DEF StoreNext
    <2>2. ASSUME NEW t \in Tenants, NEW q \in QueueNames, NEW b \in Budgets,
                 CreateJob(id, NewRow(t, q, b))
          PROVE  RowsStay
      BY <2>2 DEF CreateJob, RowsStay
    <2>3. CASE ClaimJob(id)
      BY SMTT(30), <2>3 DEF ClaimJob, RowsStay, TypeOK, StoreTypeOK, Row
    <2>4. CASE MarkCompleted(id)
      BY SMTT(30), <2>4 DEF MarkCompleted, RowsStay, TypeOK, StoreTypeOK, Row
    <2>5. CASE MarkForRetry(id, jobs[id].retry_count + 1)
      BY SMTT(30), <2>5 DEF MarkForRetry, RowsStay, TypeOK, StoreTypeOK, Row
    <2>6. CASE DeadLetter(id, jobs[id].retry_count + 1)
      BY SMTT(30), <2>6 DEF DeadLetter, RowsStay, TypeOK, StoreTypeOK, Row
    <2>7. ASSUME NEW t \in Tenants, RetryJob(t, id) PROVE RowsStay
      BY SMTT(30), <2>7 DEF RetryJob, Reset, RowsStay, TypeOK, StoreTypeOK, Row
    <2>8. ASSUME NEW t \in Tenants, CancelJob(t, id) PROVE RowsStay
      BY SMTT(30), <2>8 DEF CancelJob, RowsStay, TypeOK, StoreTypeOK, Row
    <2>. QED  BY <2>1, <2>2, <2>3, <2>4, <2>5, <2>6, <2>7, <2>8 DEF Statement
  <1>. QED  BY <1>1, <1>2, StoreSteps

StampTypes == created \in [DOMAIN jobs -> 1..Cardinality(Ids)]

LEMMA NextKeepsStamps ==
  ASSUME RowsStay, StampTypes, Stamped
  PROVE  /\ StampTypes'
         /\ \A id \in DOMAIN jobs : created'[id] = created[id]
  <1>. DEFINE new == DOMAIN jobs' \ DOMAIN jobs
  <1>0. DOMAIN jobs \subseteq DOMAIN jobs'
    BY DEF RowsStay
  <1>1. CASE new = {}
    <2>1. DOMAIN jobs' = DOMAIN jobs /\ created' = created
      BY <1>0, <1>1 DEF Stamped
    <2>. QED  BY <2>1 DEF StampTypes
  <1>2. CASE new # {}
    <2>1. PICK at \in 1..Cardinality(Ids) :
            created' = [id \in DOMAIN jobs' |-> IF id \in new THEN at ELSE created[id]]
      BY <1>2 DEF Stamped
    <2>2. \A id \in DOMAIN jobs : created[id] \in 1..Cardinality(Ids)
      BY DEF StampTypes
    <2>3. StampTypes'
      BY <2>1, <2>2 DEF StampTypes
    <2>4. \A id \in DOMAIN jobs : created'[id] = created[id]
      BY <1>0, <2>1
    <2>. QED  BY <2>3, <2>4
  <1>. QED  BY <1>1, <1>2

LEMMA ListingsAreOrdered ==
  ASSUME TypeOK, StampTypes, NEW S, S \subseteq DOMAIN jobs
  PROVE  Ordered(S)
  <1>1. IsFiniteSet(S)
    <2>1. S \in SUBSET Ids
      BY DEF TypeOK, StoreTypeOK
    <2>. QED  BY <2>1, FS_Subset, ReadsAssumption
  <1>2. \A i \in S : created[i] \in Int
    BY SMTT(30) DEF StampTypes
  <1>. QED  BY <1>1, <1>2 DEF Ordered

(* As long as no status is asked for, a listing only grows, and with it    *)
(* the rank of every row, while stamps stay.                               *)
LEMMA ListingGrows ==
  ASSUME TypeOK', RowsStay, StampTypes, Stamped,
         rd'.tenant = rd.tenant, rd'.filter = rd.filter, rd.filter.status = "any"
  PROVE  /\ Listing \subseteq Listing'
         /\ Cardinality(Listing) \in Nat /\ Cardinality(Listing') \in Nat
         /\ Cardinality(Listing) <= Cardinality(Listing')
         /\ \A id \in Listing :
               /\ created'[id] = created[id]
               /\ rank(id, Listing) \in Nat /\ rank(id, Listing)' \in Nat
               /\ rank(id, Listing) <= rank(id, Listing)'
  <1>1. Listing \subseteq Listing' /\ Listing \subseteq DOMAIN jobs
    BY DEF Listing, Matching, RowsStay
  <1>2. IsFiniteSet(Listing')
    <2>1. Listing' \in SUBSET Ids
      BY DEF Listing, Matching, TypeOK, StoreTypeOK
    <2>. QED  BY <2>1, FS_Subset, ReadsAssumption
  <1>3. /\ Cardinality(Listing) \in Nat /\ Cardinality(Listing') \in Nat
        /\ Cardinality(Listing) <= Cardinality(Listing')
    <2>1. Listing \in SUBSET Listing'
      BY <1>1
    <2>. QED  BY <1>2, <2>1, FS_Subset, FS_CardinalityType
  <1>4. ASSUME NEW id \in Listing
        PROVE  /\ created'[id] = created[id]
               /\ rank(id, Listing) \in Nat /\ rank(id, Listing)' \in Nat
               /\ rank(id, Listing) <= rank(id, Listing)'
    <2>. DEFINE before == {j \in Listing : created[j] > created[id]}
                after == {j \in Listing' : created'[j] > created'[id]}
    <2>1. after \in SUBSET Listing'
      OBVIOUS
    <2>2. IsFiniteSet(after)
      BY <1>2, <2>1, FS_Subset
    <2>3. \A j \in Listing : created'[j] = created[j]
      BY <1>1, NextKeepsStamps
    <2>4. before \in SUBSET after
      BY <1>1, <2>3
    <2>5. IsFiniteSet(before) /\ Cardinality(before) <= Cardinality(after)
      BY <2>2, <2>4, FS_Subset
    <2>6. Cardinality(before) \in Nat /\ Cardinality(after) \in Nat
      BY <2>2, <2>5, FS_CardinalityType
    <2>. QED  BY <2>3, <2>5, <2>6 DEF rank
  <1>. QED  BY <1>1, <1>3, <1>4

-----------------------------------------------------------------------------
(* A step of the pipeline.  To the reader only due changes.                *)
LEMMA PipelineTrims ==
  ASSUME rd \in ReaderState, Pipeline
  PROVE  /\ rd' \in ReaderState
         /\ rd'.pc = rd.pc /\ rd'.op = rd.op /\ rd'.tenant = rd.tenant
         /\ rd'.filter = rd.filter /\ rd'.limit = rd.limit /\ rd'.offset = rd.offset
         /\ rd'.total = rd.total /\ rd'.got = rd.got /\ rd'.left = rd.left
         /\ rd'.at = rd.at /\ rd'.depth = rd.depth /\ rd'.parked = rd.parked
         /\ rd'.totals = rd.totals
         /\ rd'.due = {x \in rd.due : x[2] = "row" \/ x \in Backlog(Tenants)'}
  <1>. DEFINE D == {x \in rd.due : x[2] = "row" \/ x \in Backlog(Tenants)'}
  <1>1. rd' = [rd EXCEPT !.due = D]
    BY DEF Pipeline
  <1>2. D \in SUBSET (Ids \X {"row", "list", "delayed"})
    BY DEF ReaderState
  <1>. HIDE DEF D
  <1>3. /\ rd' \in ReaderState
        /\ rd'.pc = rd.pc /\ rd'.op = rd.op /\ rd'.tenant = rd.tenant
        /\ rd'.filter = rd.filter /\ rd'.limit = rd.limit /\ rd'.offset = rd.offset
        /\ rd'.total = rd.total /\ rd'.got = rd.got /\ rd'.left = rd.left
        /\ rd'.at = rd.at /\ rd'.depth = rd.depth /\ rd'.parked = rd.parked
        /\ rd'.totals = rd.totals
        /\ rd'.due = D
    BY SMTT(30), <1>1, <1>2 DEF ReaderState
  <1>. QED  BY <1>3 DEF D

LEMMA PipelineKeepsLists ==
  ASSUME ReadsInv, TypeOK', RowsStay, Stamped, Pipeline
  PROVE  ListSoFar'
  <1>. SUFFICES ASSUME rd'.op = "list", rd'.filter.status = "any"
                PROVE  /\ \A x \in rd'.due :
                             /\ x[1] \in Listing'
                             /\ x[2] = "row"
                             /\ rd'.pc = "done" \/ rank(x[1], Listing)' < rd'.offset
                                  => Found(created[x[1]])'
                       /\ rd'.pc = "page" => rd'.total <= Cardinality(Listing')
    BY DEF ListSoFar
  <1>0. rd \in ReaderState /\ StampTypes /\ ListSoFar
    BY DEF ReadsInv, ReadsTypeOK, StampTypes
  <1>1. /\ rd'.pc = rd.pc /\ rd'.op = rd.op /\ rd'.tenant = rd.tenant /\ rd'.filter = rd.filter
        /\ rd'.offset = rd.offset /\ rd'.total = rd.total /\ rd'.got = rd.got
        /\ rd'.due \subseteq rd.due
    BY <1>0, PipelineTrims
  <1>2. /\ Listing \subseteq Listing'
        /\ Cardinality(Listing) \in Nat /\ Cardinality(Listing') \in Nat
        /\ Cardinality(Listing) <= Cardinality(Listing')
        /\ \A id \in Listing :
              /\ created'[id] = created[id]
              /\ rank(id, Listing) \in Nat /\ rank(id, Listing)' \in Nat
              /\ rank(id, Listing) <= rank(id, Listing)'
    BY <1>0, <1>1, ListingGrows
  <1>3. /\ \A x \in rd.due :
              /\ x[1] \in Listing
              /\ x[2] = "row"
              /\ rd.pc = "done" \/ rank(x[1], Listing) < rd.offset => Found(created[x[1]])
        /\ rd.pc = "page" => rd.total <= Cardinality(Listing)
    BY <1>0, <1>1 DEF ListSoFar
  <1>4. rd.total \in Nat /\ rd.offset \in Nat
    BY SMTT(30), <1>0 DEF ReaderState
  <1>5. ASSUME NEW x \in rd.due, rd.pc = "done" \/ rank(x[1], Listing)' < rd.offset
        PROVE  Found(created[x[1]])'
    <2>1. rank(x[1], Listing) \in Nat /\ rank(x[1], Listing)' \in Nat
          /\ rank(x[1], Listing) <= rank(x[1], Listing)'
      BY <1>2, <1>3
    <2>2. rd.pc = "done" \/ rank(x[1], Listing) < rd.offset
      BY SMTT(30), <1>4, <1>5, <2>1
    <2>3. PICK j \in rd.got \cap Listing : created[j] = created[x[1]]
      BY <1>3, <2>2 DEF Found
    <2>4. created'[j] = created[j] /\ created'[x[1]] = created[x[1]] /\ j \in rd'.got \cap Listing'
      BY <1>1, <1>2, <1>3
    <2>. QED  BY <2>3, <2>4 DEF Found
  <1>6. rd.pc = "page" => rd.total <= Cardinality(Listing')
    BY SMTT(30), <1>2, <1>3, <1>4
  <1>. QED  BY <1>1, <1>2, <1>3, <1>5, <1>6

LEMMA PipelineKeepsDashboard ==
  ASSUME ReadsInv, TypeOK', RowsStay, Stamped, Pipeline
  PROVE  DashboardSoFar'
  <1>0. rd \in ReaderState /\ StampTypes /\ DashboardSoFar
    BY DEF ReadsInv, ReadsTypeOK, StampTypes
  <1>1. /\ rd'.pc = rd.pc /\ rd'.op = rd.op /\ rd'.tenant = rd.tenant /\ rd'.filter = rd.filter
        /\ rd'.offset = rd.offset /\ rd'.limit = rd.limit /\ rd'.got = rd.got
        /\ rd'.totals = rd.totals
        /\ rd'.due = {x \in rd.due : x[2] = "row" \/ x \in Backlog(Tenants)'}
    BY <1>0, PipelineTrims
  <1>. SUFFICES ASSUME rd.op = "dashboard" PROVE DashboardSoFar'
    BY <1>1 DEF DashboardSoFar
  <1>2. rd'.due = rd.due
    BY <1>0, <1>1 DEF DashboardSoFar
  <1>3. rd.filter.status = "any"
    BY SMTT(30), <1>0 DEF DashboardSoFar, Everything
  <1>4. /\ Cardinality(Listing) \in Nat /\ Cardinality(Listing') \in Nat
        /\ Cardinality(Listing) <= Cardinality(Listing')
    BY <1>0, <1>1, <1>3, ListingGrows
  <1>5. Cardinality(rd.due) <= Cardinality(Listing')
    <2>1. Cardinality(rd.due) = InAnyStatus(rd.totals) /\ Cardinality(rd.due) <= Cardinality(Listing)
      BY <1>0 DEF DashboardSoFar
    <2>2. InAnyStatus(rd.totals) \in Nat
      BY SMTT(30), <1>0 DEF ReaderState, InAnyStatus, Status, Terminal
    <2>. QED  BY SMTT(30), <1>4, <2>1, <2>2
  <1>. QED  BY <1>0, <1>1, <1>2, <1>5 DEF DashboardSoFar, InAnyStatus

LEMMA DueIsFinite ==
  ASSUME NEW D, D \subseteq Ids \X {"row", "list", "delayed"}
  PROVE  IsFiniteSet(D) /\ Cardinality(D) \in Nat
  <1>1. IsFiniteSet({"row", "list", "delayed"})
    <2>1. IsFiniteSet({"row"}) /\ IsFiniteSet({"list"}) /\ IsFiniteSet({"delayed"})
      BY FS_Singleton
    <2>2. IsFiniteSet(({"row"} \cup {"list"}) \cup {"delayed"})
      BY <2>1, FS_Union
    <2>3. ({"row"} \cup {"list"}) \cup {"delayed"} = {"row", "list", "delayed"}
      OBVIOUS
    <2>. QED  BY <2>2, <2>3
  <1>2. IsFiniteSet(Ids \X {"row", "list", "delayed"})
    BY <1>1, ReadsAssumption, FS_Product
  <1>3. D \in SUBSET (Ids \X {"row", "list", "delayed"})
    OBVIOUS
  <1>. QED  BY <1>2, <1>3, FS_Subset, FS_CardinalityType

LEMMA BacklogHasRows ==
  ASSUME NEW x \in Backlog(Tenants)
  PROVE  x[1] \in DOMAIN jobs /\ x[2] \in {"list", "delayed"}
  BY DEF Backlog, Of

LEMMA PipelineKeepsDepths ==
  ASSUME ReadsInv, RowsStay, Pipeline
  PROVE  DepthsSoFar'
  <1>0. rd \in ReaderState /\ DepthsSoFar
    BY DEF ReadsInv, ReadsTypeOK
  <1>1. /\ rd'.pc = rd.pc /\ rd'.op = rd.op /\ rd'.left = rd.left /\ rd'.at = rd.at
        /\ rd'.depth = rd.depth /\ rd'.parked = rd.parked
        /\ rd'.due = {x \in rd.due : x[2] = "row" \/ x \in Backlog(Tenants)'}
    BY <1>0, PipelineTrims
  <1>2. CASE rd.op \in {"stats", "scrape"}
    <2>0. /\ rd.due \subseteq Backlog(Tenants)
          /\ rd.pc = "done" => rd.left = {}
          /\ \A q \in QueueNames \ rd.left :
                /\ rd.depth[q] >= Cardinality(DueIn(q, "list"))
                /\ rd.op = "stats" /\ ~(rd.pc = "zcard" /\ rd.at = q) =>
                      rd.parked[q] >= Cardinality(DueIn(q, "delayed"))
      BY <1>0, <1>2 DEF DepthsSoFar
    <2>1. rd'.due \subseteq Backlog(Tenants)'
      BY <1>1, <2>0, BacklogHasRows
    <2>2. ASSUME NEW q \in QueueNames, NEW where
          PROVE  /\ Cardinality(DueIn(q, where)) \in Nat
                 /\ Cardinality(DueIn(q, where)') \in Nat
                 /\ Cardinality(DueIn(q, where)') <= Cardinality(DueIn(q, where))
      <3>1. DueIn(q, where) \subseteq Ids \X {"row", "list", "delayed"}
        BY <1>0 DEF DueIn, ReaderState
      <3>2. DueIn(q, where)' \in SUBSET DueIn(q, where)
        <4>1. ASSUME NEW x \in rd.due
              PROVE  x[1] \in DOMAIN jobs /\ jobs'[x[1]].queue_name = jobs[x[1]].queue_name
          BY <2>0, BacklogHasRows DEF RowsStay
        <4>. QED  BY <1>1, <4>1 DEF DueIn
      <3>3. IsFiniteSet(DueIn(q, where)) /\ Cardinality(DueIn(q, where)) \in Nat
        BY <3>1, DueIsFinite
      <3>4. IsFiniteSet(DueIn(q, where)') /\ Cardinality(DueIn(q, where)') <= Cardinality(DueIn(q, where))
        BY <3>2, <3>3, FS_Subset
      <3>. QED  BY <3>3, <3>4, FS_CardinalityType
    <2>3. \A q \in QueueNames : rd.depth[q] \in Nat /\ rd.parked[q] \in Nat
      BY SMTT(30), <1>0 DEF ReaderState
    <2>4. ASSUME NEW q \in QueueNames \ rd.left
          PROVE  rd.depth[q] >= Cardinality(DueIn(q, "list")')
      <3>1. rd.depth[q] >= Cardinality(DueIn(q, "list")) /\ rd.depth[q] \in Nat
        BY <2>0, <2>3
      <3>2. /\ Cardinality(DueIn(q, "list")) \in Nat
            /\ Cardinality(DueIn(q, "list")') \in Nat
            /\ Cardinality(DueIn(q, "list")') <= Cardinality(DueIn(q, "list"))
        BY <2>2
      <3>. QED  BY SMTT(30), <3>1, <3>2
    <2>5. ASSUME NEW q \in QueueNames \ rd.left, rd.op = "stats", ~(rd.pc = "zcard" /\ rd.at = q)
          PROVE  rd.parked[q] >= Cardinality(DueIn(q, "delayed")')
      <3>1. rd.parked[q] >= Cardinality(DueIn(q, "delayed")) /\ rd.parked[q] \in Nat
        BY <2>0, <2>3, <2>5
      <3>2. /\ Cardinality(DueIn(q, "delayed")) \in Nat
            /\ Cardinality(DueIn(q, "delayed")') \in Nat
            /\ Cardinality(DueIn(q, "delayed")') <= Cardinality(DueIn(q, "delayed"))
        BY <2>2
      <3>. QED  BY SMTT(30), <3>1, <3>2
    <2>. QED  BY <1>1, <2>0, <2>1, <2>4, <2>5 DEF DepthsSoFar
  <1>3. CASE rd.op \notin {"stats", "scrape"}
    BY <1>1, <1>3 DEF DepthsSoFar
  <1>. QED  BY <1>2, <1>3

LEMMA PipelineKeeps ==
  ASSUME ReadsInv, Pipeline
  PROVE  ReadsInv'
  <1>0. TypeOK /\ ExclusiveRun /\ ReadsTypeOK /\ StampTypes /\ Phases
    BY DEF ReadsInv, ReadsTypeOK, StampTypes
  <1>1. Next /\ Stamped
    BY DEF Pipeline
  <1>2. TypeOK' /\ ExclusiveRun'
    BY <1>0, <1>1, NextTypes, NextExclusive
  <1>3. RowsStay
    BY <1>0, <1>1, NextKeepsRows
  <1>4. StampTypes'
    BY <1>0, <1>1, <1>3, NextKeepsStamps
  <1>5. rd \in ReaderState
    BY <1>0 DEF ReadsTypeOK
  <1>6. /\ rd' \in ReaderState
        /\ rd'.pc = rd.pc /\ rd'.op = rd.op /\ rd'.at = rd.at /\ rd'.limit = rd.limit
    BY <1>5, PipelineTrims
  <1>7. ReadsTypeOK'
    BY <1>0, <1>4, <1>6 DEF ReadsTypeOK, StampTypes
  <1>8. Phases'
    BY <1>0, <1>6 DEF Phases
  <1>9. ListSoFar' /\ DashboardSoFar' /\ DepthsSoFar'
    BY <1>1, <1>2, <1>3, PipelineKeepsLists, PipelineKeepsDashboard, PipelineKeepsDepths
  <1>. QED  BY <1>2, <1>4, <1>7, <1>8, <1>9 DEF ReadsInv

-----------------------------------------------------------------------------
(* The steps of the reader, which change nothing else.                     *)
ReaderInv ==
    /\ rd \in ReaderState
    /\ rd.op = "list" => rd.limit \in 1..MaxListLimit
    /\ Phases
    /\ ListSoFar
    /\ DashboardSoFar
    /\ DepthsSoFar

LEMMA ReadersDisturbNobody ==
  ASSUME ReadsInv, UNCHANGED <<vars, created>>, ReaderInv'
  PROVE  ReadsInv'
  <1>1. TypeOK' /\ ExclusiveRun'
    BY StutterTypes, NextExclusive DEF ReadsInv
  <1>2. UNCHANGED <<jobs, created>>
    BY DEF vars
  <1>3. ReadsTypeOK'
    BY <1>2 DEF ReadsInv, ReadsTypeOK, ReaderInv
  <1>. QED  BY <1>1, <1>3 DEF ReadsInv, ReaderInv

LEMMA ReaderAtRest == NoReader \in ReaderState /\ Everything \in Filter
  BY SMTT(30) DEF NoReader, ReaderState, Everything, Filter, Status, Terminal

LEMMA ListingRanks ==
  ASSUME ReadsInv, NEW t, NEW f
  PROVE  /\ Ordered(Matching(t, f))
         /\ Cardinality(Matching(t, f)) \in Nat
         /\ \A id \in Matching(t, f) :
               rank(id, Matching(t, f)) \in 0..(Cardinality(Matching(t, f)) - 1)
  <1>1. TypeOK /\ StampTypes
    BY DEF ReadsInv, ReadsTypeOK, StampTypes
  <1>2. Matching(t, f) \subseteq DOMAIN jobs
    BY DEF Matching
  <1>3. Ordered(Matching(t, f))
    BY <1>1, <1>2, ListingsAreOrdered
  <1>. QED  BY <1>3, RanksAreNumbers

LEMMA ListBegins ==
  ASSUME ReadsInv, UNCHANGED <<vars, created>>,
         NEW t \in Tenants, NEW f \in Filter, NEW param \in Limits, listJobs(t, f, param)
  PROVE  ReadsInv'
  <1>. DEFINE D == Matching(t, f) \X {"row"}
  <1>1. PICK limit \in parseListParams(param) :
          rd' = [NoReader EXCEPT !.pc = "count", !.op = "list", !.tenant = t,
                                 !.filter = f, !.limit = limit, !.due = D]
    BY DEF listJobs
  <1>2. limit \in 1..MaxListLimit /\ limit \in Nat
    BY SMTT(30), ReadsAssumption DEF parseListParams
  <1>3. D \in SUBSET (Ids \X {"row", "list", "delayed"})
    BY DEF Matching, ReadsInv, TypeOK, StoreTypeOK
  <1>4. UNCHANGED <<jobs, created>>
    BY DEF vars
  <1>. HIDE DEF D
  <1>5. rd' \in ReaderState
    BY <1>1, <1>2, <1>3, ReaderAtRest DEF ReaderState
  <1>6. /\ rd'.pc = "count" /\ rd'.op = "list" /\ rd'.tenant = t /\ rd'.filter = f
        /\ rd'.limit = limit /\ rd'.offset = 0 /\ rd'.due = D
    BY SMTT(30), <1>1 DEF NoReader
  <1>7. Listing' = Matching(t, f)
    BY <1>4, <1>6 DEF Listing, Matching
  <1>8. ListSoFar'
    <2>1. ASSUME NEW x \in D
          PROVE  x[1] \in Matching(t, f) /\ x[2] = "row" /\ ~(rank(x[1], Matching(t, f)) < 0)
      <3>1. x[1] \in Matching(t, f) /\ x[2] = "row"
        BY DEF D
      <3>2. /\ Cardinality(Matching(t, f)) \in Nat
            /\ rank(x[1], Matching(t, f)) \in 0..(Cardinality(Matching(t, f)) - 1)
        BY <3>1, ListingRanks
      <3>3. ~(rank(x[1], Matching(t, f)) < 0)
        BY SMTT(30), <3>2
      <3>. QED  BY <3>1, <3>3
    <2>2. \A x \in D : rank(x[1], Listing)' = rank(x[1], Matching(t, f))
      BY <1>4, <1>7 DEF rank
    <2>. QED  BY <1>6, <1>7, <2>1, <2>2 DEF ListSoFar
  <1>9. Phases' /\ DashboardSoFar' /\ DepthsSoFar'
    BY <1>6 DEF Phases, DashboardSoFar, DepthsSoFar
  <1>10. ReaderInv'
    BY <1>2, <1>5, <1>6, <1>8, <1>9 DEF ReaderInv
  <1>. QED  BY <1>10, ReadersDisturbNobody

LEMMA CountKeeps ==
  ASSUME ReadsInv, UNCHANGED <<vars, created>>, countJobs
  PROVE  ReadsInv'
  <1>0. rd \in ReaderState /\ rd.pc = "count" /\ rd.op = "list" /\ rd.limit \in 1..MaxListLimit
    BY DEF ReadsInv, ReadsTypeOK, Phases, countJobs
  <1>1. rd' = [rd EXCEPT !.pc = "page", !.total = Cardinality(Listing)]
    BY DEF countJobs, Listing
  <1>2. Cardinality(Listing) \in Nat
    BY ListingRanks DEF Listing
  <1>3. UNCHANGED <<jobs, created>>
    BY DEF vars
  <1>4. rd' \in ReaderState
    BY <1>0, <1>1, <1>2 DEF ReaderState
  <1>5. /\ rd'.pc = "page" /\ rd'.op = "list" /\ rd'.tenant = rd.tenant /\ rd'.filter = rd.filter
        /\ rd'.limit = rd.limit /\ rd'.offset = rd.offset /\ rd'.due = rd.due /\ rd'.got = rd.got
        /\ rd'.total = Cardinality(Listing)
    BY SMTT(30), <1>0, <1>1 DEF ReaderState
  <1>6. Listing' = Listing
    BY <1>3, <1>5 DEF Listing, Matching
  <1>7. ListSoFar'
    <2>1. \A x \in rd.due : /\ rank(x[1], Listing)' = rank(x[1], Listing)
                            /\ Found(created[x[1]])' <=> Found(created[x[1]])
      BY <1>3, <1>5, <1>6 DEF rank, Found
    <2>2. Cardinality(Listing) <= Cardinality(Listing)
      BY SMTT(30), <1>2
    <2>. QED  BY <1>0, <1>5, <1>6, <2>1, <2>2 DEF ListSoFar, ReadsInv
  <1>8. Phases' /\ DashboardSoFar' /\ DepthsSoFar'
    BY <1>5 DEF Phases, DashboardSoFar, DepthsSoFar
  <1>9. ReaderInv'
    BY <1>0, <1>4, <1>5, <1>7, <1>8 DEF ReaderInv
  <1>. QED  BY <1>9, ReadersDisturbNobody

LEMMA PageKeeps ==
  ASSUME ReadsInv, UNCHANGED <<vars, created>>, pageJobs
  PROVE  ReadsInv'
  <1>. DEFINE n == Cardinality(Listing)
  <1>p. PICK page \in pagesNow :
          rd' = IF Cardinality(page) = rd.limit
                THEN [rd EXCEPT !.pc = "count", !.got = rd.got \cup page,
                                !.offset = rd.offset + rd.limit]
                ELSE [rd EXCEPT !.pc = "done", !.got = rd.got \cup page]
    BY DEF pageJobs
  <1>. DEFINE full == Cardinality(page) = rd.limit
  <1>0. rd \in ReaderState /\ rd.pc = "page" /\ rd.op = "list" /\ rd.limit \in 1..MaxListLimit
    BY DEF ReadsInv, ReadsTypeOK, Phases, pageJobs
  <1>1. rd.limit \in Nat /\ rd.offset \in Nat /\ rd.limit > 0
    BY SMTT(30), <1>0, ReadsAssumption DEF ReaderState
  <1>2. UNCHANGED <<jobs, created>>
    BY DEF vars
  <1>3. Ordered(Listing) /\ n \in Nat /\ \A id \in Listing : rank(id, Listing) \in 0..(n - 1)
    BY ListingRanks DEF Listing
  <1>4. page \in Pages(Listing, rd.limit, rd.offset) /\ page \in SUBSET Listing
    BY <1>p DEF pagesNow, Pages, Listing
  <1>5. rd.got \cup page \in SUBSET Ids /\ rd.offset + rd.limit \in Nat
    <2>1. rd.got \in SUBSET Ids /\ Listing \in SUBSET Ids
      BY <1>0 DEF ReaderState, Listing, Matching, ReadsInv, TypeOK, StoreTypeOK
    <2>2. rd.offset + rd.limit \in Nat
      BY SMTT(30), <1>1
    <2>. QED  BY <1>4, <2>1, <2>2
  <1>6. /\ rd' \in ReaderState
        /\ rd'.op = "list" /\ rd'.tenant = rd.tenant /\ rd'.filter = rd.filter
        /\ rd'.limit = rd.limit /\ rd'.due = rd.due /\ rd'.got = rd.got \cup page
        /\ full => rd'.pc = "count" /\ rd'.offset = rd.offset + rd.limit
        /\ ~full => rd'.pc = "done"
    <2>1. CASE full
      <3>1. rd' = [rd EXCEPT !.pc = "count", !.got = rd.got \cup page,
                             !.offset = rd.offset + rd.limit]
        BY <1>p, <2>1
      <3>2. rd' \in ReaderState
        BY <1>0, <1>5, <3>1 DEF ReaderState
      <3>3. /\ rd'.op = "list" /\ rd'.tenant = rd.tenant /\ rd'.filter = rd.filter
            /\ rd'.limit = rd.limit /\ rd'.due = rd.due /\ rd'.got = rd.got \cup page
            /\ rd'.pc = "count" /\ rd'.offset = rd.offset + rd.limit
        BY <1>0, <3>1 DEF ReaderState
      <3>. QED  BY <2>1, <3>2, <3>3
    <2>2. CASE ~full
      <3>1. rd' = [rd EXCEPT !.pc = "done", !.got = rd.got \cup page]
        BY <1>p, <2>2
      <3>2. rd' \in ReaderState
        BY <1>0, <1>5, <3>1 DEF ReaderState
      <3>3. /\ rd'.op = "list" /\ rd'.tenant = rd.tenant /\ rd'.filter = rd.filter
            /\ rd'.limit = rd.limit /\ rd'.due = rd.due /\ rd'.got = rd.got \cup page
            /\ rd'.pc = "done"
        BY <1>0, <3>1 DEF ReaderState
      <3>. QED  BY <2>2, <3>2, <3>3
    <2>. QED  BY <2>1, <2>2
  <1>7. Listing' = Listing
    BY <1>2, <1>6 DEF Listing, Matching
  <1>8. ASSUME NEW id \in Listing, rank(id, Listing) < rd.offset + rd.limit,
               rank(id, Listing) < rd.offset => Found(created[id])
        PROVE  Found(created[id])'
    <2>0. rd'.got \cap Listing' = (rd.got \cup page) \cap Listing /\ created' = created
      BY <1>2, <1>6, <1>7
    <2>1. rank(id, Listing) \in 0..(n - 1)
      BY <1>3
    <2>2. rank(id, Listing) < rd.offset \/ rd.offset <= rank(id, Listing)
      BY SMTT(30), <1>1, <1>3, <2>1
    <2>3. CASE rank(id, Listing) < rd.offset
      BY <1>8, <2>0, <2>3 DEF Found
    <2>4. CASE rd.offset <= rank(id, Listing)
      <3>0. /\ Ordered(Listing) /\ rd.limit \in Nat /\ rd.offset \in Nat
            /\ page \in Pages(Listing, rd.limit, rd.offset) /\ id \in Listing
            /\ rank(id, Listing) < rd.offset + rd.limit
        BY <1>1, <1>3, <1>4, <1>8
      <3>1. Shows(page, created[id])
        BY <2>4, <3>0, PageCovers
      <3>. QED  BY <1>4, <2>0, <3>1 DEF Found, Shows
    <2>. QED  BY <2>2, <2>3, <2>4
  <1>9. ASSUME ~full, NEW id \in Listing PROVE rank(id, Listing) < rd.offset + rd.limit
    <2>1. Cardinality(page) =
            IF n <= rd.offset THEN 0
            ELSE IF rd.offset + rd.limit <= n THEN rd.limit ELSE n - rd.offset
      BY <1>1, <1>3, <1>4, PageSize
    <2>2. rank(id, Listing) \in 0..(n - 1)
      BY <1>3
    <2>. HIDE DEF n
    <2>. QED  BY SMTT(30), <1>1, <1>3, <1>9, <2>1, <2>2
  <1>10. ListSoFar'
    <2>. SUFFICES ASSUME rd.filter.status = "any", NEW x \in rd.due
                  PROVE  /\ x[1] \in Listing
                         /\ x[2] = "row"
                         /\ rd'.pc = "done" \/ rank(x[1], Listing) < rd'.offset
                              => Found(created[x[1]])'
      <3>1. \A x \in rd.due : rank(x[1], Listing)' = rank(x[1], Listing)
        BY <1>2, <1>7 DEF rank
      <3>2. rd'.pc # "page"
        BY <1>6
      <3>. QED  BY <1>6, <1>7, <3>1, <3>2 DEF ListSoFar
    <2>1. /\ x[1] \in Listing
          /\ x[2] = "row"
          /\ rank(x[1], Listing) < rd.offset => Found(created[x[1]])
      BY <1>0 DEF ReadsInv, ListSoFar
    <2>2. CASE full
      <3>1. rd'.pc # "done" /\ rd'.offset = rd.offset + rd.limit
        BY <1>6, <2>2
      <3>. QED  BY <1>8, <2>1, <3>1
    <2>3. CASE ~full
      BY <1>8, <1>9, <2>1, <2>3
    <2>. QED  BY <2>2, <2>3
  <1>11. Phases' /\ DashboardSoFar' /\ DepthsSoFar'
    BY <1>6 DEF Phases, DashboardSoFar, DepthsSoFar
  <1>12. ReaderInv'
    BY <1>0, <1>6, <1>10, <1>11 DEF ReaderInv
  <1>. QED  BY <1>12, ReadersDisturbNobody

-----------------------------------------------------------------------------
(* The dashboard.                                                          *)
(* GROUP BY status counts every row of the tenant in one of five groups.   *)
LEMMA StatusesAddUp ==
  ASSUME ReadsInv, NEW t
  PROVE  /\ StatusCounts(t) \in [Status -> Nat]
         /\ InAnyStatus(StatusCounts(t)) = Cardinality(Matching(t, Everything))
  <1>. DEFINE In(st) == {id \in DOMAIN jobs : jobs[id].tenant_id = t /\ jobs[id].status = st}
              C == StatusCounts(t)
  <1>1. \A id \in DOMAIN jobs : jobs[id].status \in Status
    BY DEF ReadsInv, TypeOK, StoreTypeOK, Row
  <1>2. ASSUME NEW st \in Status
        PROVE  Matching(t, [Everything EXCEPT !.status = st]) = In(st)
    <2>1. /\ [Everything EXCEPT !.status = st].queue = "any"
          /\ [Everything EXCEPT !.status = st].status = st
          /\ st # "any"
      BY SMTT(30) DEF Everything, Status, Terminal
    <2>. HIDE DEF Everything
    <2>. QED  BY <2>1 DEF Matching
  <1>3. Matching(t, Everything) = {id \in DOMAIN jobs : jobs[id].tenant_id = t}
    <2>1. Everything.queue = "any" /\ Everything.status = "any"
      BY SMTT(30) DEF Everything
    <2>. QED  BY <2>1 DEF Matching
  <1>4. ASSUME NEW st
        PROVE  IsFiniteSet(In(st)) /\ Cardinality(In(st)) \in Nat
    <2>1. In(st) \in SUBSET Ids
      BY DEF ReadsInv, TypeOK, StoreTypeOK
    <2>. QED  BY <2>1, FS_Subset, FS_CardinalityType, ReadsAssumption
  <1>5. \A st \in Status : C[st] = Cardinality(In(st))
    BY <1>2 DEF StatusCounts
  <1>6. C \in [Status -> Nat]
    BY <1>2, <1>4 DEF StatusCounts
  <1>. DEFINE A == In("failed") \cup In("cancelled")
              B == In("completed") \cup A
              D == In("processing") \cup B
              E == In("pending") \cup D
  <1>7. E = Matching(t, Everything)
    BY SMTT(30), <1>1, <1>3 DEF Status, Terminal
  <1>8. /\ IsFiniteSet(A) /\ Cardinality(A) \in Nat
        /\ Cardinality(A) = Cardinality(In("failed")) + Cardinality(In("cancelled"))
    <2>1. In("failed") \cap In("cancelled") = {}
      BY SMTT(30)
    <2>2. IsFiniteSet(In("failed")) /\ IsFiniteSet(In("cancelled"))
      BY <1>4
    <2>. HIDE DEF In
    <2>. QED  BY <2>1, <2>2, DisjointSum
  <1>9. /\ IsFiniteSet(B) /\ Cardinality(B) \in Nat
        /\ Cardinality(B) = Cardinality(In("completed")) + Cardinality(A)
    <2>1. In("completed") \cap A = {}
      BY SMTT(30)
    <2>2. IsFiniteSet(In("completed"))
      BY <1>4
    <2>. HIDE DEF In, A
    <2>. QED  BY <1>8, <2>1, <2>2, DisjointSum
  <1>10. /\ IsFiniteSet(D) /\ Cardinality(D) \in Nat
         /\ Cardinality(D) = Cardinality(In("processing")) + Cardinality(B)
    <2>1. In("processing") \cap B = {}
      BY SMTT(30)
    <2>2. IsFiniteSet(In("processing"))
      BY <1>4
    <2>. HIDE DEF In, A, B
    <2>. QED  BY <1>9, <2>1, <2>2, DisjointSum
  <1>11. Cardinality(E) = Cardinality(In("pending")) + Cardinality(D)
    <2>1. In("pending") \cap D = {}
      BY SMTT(30)
    <2>2. IsFiniteSet(In("pending"))
      BY <1>4
    <2>. HIDE DEF In, D
    <2>. QED  BY <1>10, <2>1, <2>2, DisjointSum
  <1>12. /\ C["pending"] = Cardinality(In("pending"))
         /\ C["processing"] = Cardinality(In("processing"))
         /\ C["completed"] = Cardinality(In("completed"))
         /\ C["failed"] = Cardinality(In("failed"))
         /\ C["cancelled"] = Cardinality(In("cancelled"))
    BY <1>5 DEF Status, Terminal
  <1>13. /\ C["pending"] \in Nat /\ C["processing"] \in Nat /\ C["completed"] \in Nat
         /\ C["failed"] \in Nat /\ C["cancelled"] \in Nat
    BY <1>6 DEF Status, Terminal
  <1>. HIDE DEF A, B, D, E, In, C
  <1>14. InAnyStatus(C) = Cardinality(E)
    BY SMTT(30), <1>8, <1>9, <1>10, <1>11, <1>12, <1>13 DEF InAnyStatus
  <1>15. InAnyStatus(C) = Cardinality(Matching(t, Everything))
    BY <1>7, <1>14
  <1>. QED  BY <1>6, <1>15 DEF C

LEMMA DashboardBegins ==
  ASSUME ReadsInv, UNCHANGED <<vars, created>>, NEW t \in Tenants, dashboard(t)
  PROVE  ReadsInv'
  <1>. DEFINE M == Matching(t, Everything)
              D == M \X {"row"}
              C == StatusCounts(t)
  <1>1. rd' = [NoReader EXCEPT !.pc = "recent", !.op = "dashboard", !.tenant = t,
                               !.limit = RecentJobsLimit, !.totals = C, !.due = D]
    BY DEF dashboard
  <1>2. C \in [Status -> Nat] /\ InAnyStatus(C) = Cardinality(M)
    BY StatusesAddUp
  <1>3. D \in SUBSET (Ids \X {"row", "list", "delayed"}) /\ \A x \in D : x[2] = "row"
    BY DEF Matching, ReadsInv, TypeOK, StoreTypeOK
  <1>4. Cardinality(D) = Cardinality(M) /\ Cardinality(M) \in Nat
    <2>1. IsFiniteSet(M) /\ Cardinality(M) \in Nat
      BY ListingRanks DEF Ordered
    <2>2. IsFiniteSet({"row"}) /\ Cardinality({"row"}) = 1
      BY FS_Singleton
    <2>3. Cardinality(D) = Cardinality(M) * 1
      BY <2>1, <2>2, FS_Product
    <2>. HIDE DEF M, D
    <2>. QED  BY SMTT(30), <2>1, <2>3
  <1>5. RecentJobsLimit \in Nat
    BY ReadsAssumption
  <1>6. UNCHANGED <<jobs, created>>
    BY DEF vars
  <1>. HIDE DEF C, D
  <1>7. rd' \in ReaderState
    BY <1>1, <1>2, <1>3, <1>5, ReaderAtRest DEF ReaderState
  <1>8. /\ rd'.pc = "recent" /\ rd'.op = "dashboard" /\ rd'.tenant = t /\ rd'.filter = Everything
        /\ rd'.limit = RecentJobsLimit /\ rd'.offset = 0 /\ rd'.due = D /\ rd'.totals = C
    BY <1>1 DEF NoReader
  <1>9. Listing' = M
    BY <1>6, <1>8 DEF Listing, Matching
  <1>10. DashboardSoFar'
    <2>1. Cardinality(D) <= Cardinality(M)
      BY SMTT(30), <1>4
    <2>2. InAnyStatus(rd.totals)' = InAnyStatus(C)
      BY <1>8 DEF InAnyStatus
    <2>. QED  BY <1>2, <1>3, <1>4, <1>8, <1>9, <2>1, <2>2 DEF DashboardSoFar
  <1>11. Phases' /\ ListSoFar' /\ DepthsSoFar'
    BY <1>8 DEF Phases, ListSoFar, DepthsSoFar
  <1>12. ReaderInv'
    BY <1>7, <1>8, <1>10, <1>11 DEF ReaderInv
  <1>. QED  BY <1>12, ReadersDisturbNobody

LEMMA RecentKeeps ==
  ASSUME ReadsInv, UNCHANGED <<vars, created>>, dashboardRecent
  PROVE  ReadsInv'
  <1>. DEFINE n == Cardinality(Listing)
              sum == InAnyStatus(rd.totals)
  <1>0. rd \in ReaderState /\ rd.pc = "recent" /\ rd.op = "dashboard" /\ DashboardSoFar
    BY DEF ReadsInv, ReadsTypeOK, Phases, dashboardRecent
  <1>1. /\ rd.filter = Everything /\ rd.limit = RecentJobsLimit /\ rd.offset = 0
        /\ \A x \in rd.due : x[2] = "row"
        /\ sum = Cardinality(rd.due) /\ Cardinality(rd.due) <= n
    BY <1>0 DEF DashboardSoFar
  <1>2. PICK page \in pagesNow : rd' = [rd EXCEPT !.pc = "done", !.got = page]
    BY DEF dashboardRecent
  <1>3. UNCHANGED <<jobs, created>>
    BY DEF vars
  <1>4. page \in Pages(Listing, rd.limit, rd.offset) /\ page \in SUBSET Ids
    BY <1>2 DEF pagesNow, Pages, Listing, Matching, ReadsInv, TypeOK, StoreTypeOK
  <1>5. rd' \in ReaderState
    BY <1>0, <1>2, <1>4 DEF ReaderState
  <1>6. /\ rd'.pc = "done" /\ rd'.op = "dashboard" /\ rd'.tenant = rd.tenant
        /\ rd'.filter = rd.filter /\ rd'.limit = rd.limit /\ rd'.offset = rd.offset
        /\ rd'.due = rd.due /\ rd'.totals = rd.totals /\ rd'.got = page
    BY <1>0, <1>2 DEF ReaderState
  <1>7. Listing' = Listing
    BY <1>3, <1>6 DEF Listing, Matching
  <1>8. Cardinality(page) >= Min({sum, RecentJobsLimit})
    <2>1. Ordered(Listing) /\ n \in Nat
      BY ListingRanks DEF Listing
    <2>2. RecentJobsLimit \in Nat
      BY ReadsAssumption
    <2>3. Cardinality(page) =
            IF n <= rd.offset THEN 0
            ELSE IF rd.offset + rd.limit <= n THEN rd.limit ELSE n - rd.offset
      <3>1. rd.limit \in Nat /\ rd.offset \in Nat
        BY <1>0 DEF ReaderState
      <3>. QED  BY <1>4, <2>1, <3>1, PageSize
    <2>4. sum \in Nat
      <3>1. rd.totals \in [Status -> Nat]
        BY <1>0 DEF ReaderState
      <3>. QED  BY SMTT(30), <3>1 DEF InAnyStatus, Status, Terminal
    <2>5. Min({sum, RecentJobsLimit}) = IF sum <= RecentJobsLimit THEN sum ELSE RecentJobsLimit
      <3>1. sum \in Int /\ RecentJobsLimit \in Int
        BY SMTT(30), <2>2, <2>4
      <3>. HIDE DEF sum
      <3>. QED  BY <3>1, MinOfTwo
    <2>. HIDE DEF sum, n
    <2>. QED  BY SMTT(30), <1>1, <2>1, <2>2, <2>3, <2>4, <2>5
  <1>9. DashboardSoFar'
    <2>1. InAnyStatus(rd.totals)' = sum
      BY <1>6 DEF InAnyStatus
    <2>. HIDE DEF sum
    <2>. QED  BY <1>1, <1>6, <1>7, <1>8, <2>1 DEF DashboardSoFar
  <1>10. Phases' /\ ListSoFar' /\ DepthsSoFar'
    BY <1>6 DEF Phases, ListSoFar, DepthsSoFar
  <1>11. ReaderInv'
    BY <1>5, <1>6, <1>9, <1>10 DEF ReaderInv
  <1>. QED  BY <1>11, ReadersDisturbNobody

-----------------------------------------------------------------------------
(* Depths.                                                                 *)
LEMMA NamesCoverBacklog ==
  ASSUME TypeOK, NEW T \in SUBSET Tenants, NEW x \in Backlog(T)
  PROVE  /\ x \in Ids \X {"row", "list", "delayed"}
         /\ x \in Backlog(Tenants)
         /\ x[1] \in DOMAIN jobs
         /\ jobs[x[1]].queue_name \in mergeUnique(Configured, QueuesOf(T))
  BY DEF Backlog, Of, mergeUnique, QueuesOf, TypeOK, StoreTypeOK

LEMMA NamesAreQueues ==
  ASSUME TypeOK, NEW T
  PROVE  mergeUnique(Configured, QueuesOf(T)) \in SUBSET QueueNames
  <1>1. \A id \in DOMAIN jobs : jobs[id].queue_name \in QueueNames
    BY DEF TypeOK, StoreTypeOK, Row
  <1>. QED  BY <1>1, ReadsAssumption DEF mergeUnique, QueuesOf, Of

LEMMA MeasureBegins ==
  ASSUME ReadsInv, UNCHANGED <<vars, created>>,
         NEW op \in {"stats", "scrape"}, NEW t \in Tenants \cup {NoId}, NEW T \in SUBSET Tenants,
         Measure(op, t, mergeUnique(Configured, QueuesOf(T)), Backlog(T))
  PROVE  ReadsInv'
  <1>. DEFINE names == mergeUnique(Configured, QueuesOf(T))
              D == Backlog(T)
  <1>0. TypeOK
    BY DEF ReadsInv
  <1>1. rd' = [NoReader EXCEPT !.pc = IF names = {} THEN "done" ELSE "len", !.op = op,
                               !.tenant = t, !.left = names, !.due = D]
    BY DEF Measure
  <1>2. names \in SUBSET QueueNames
    BY <1>0, NamesAreQueues
  <1>3. /\ D \in SUBSET (Ids \X {"row", "list", "delayed"})
        /\ D \subseteq Backlog(Tenants)
        /\ \A x \in D : jobs[x[1]].queue_name \in names
    BY <1>0, NamesCoverBacklog
  <1>4. UNCHANGED <<jobs, work, delayed>>
    BY DEF vars
  <1>. HIDE DEF D, names
  <1>5. rd' \in ReaderState
    <2>1. (IF names = {} THEN "done" ELSE "len") \in {"done", "len"}
      OBVIOUS
    <2>. QED  BY <1>1, <1>2, <1>3, <2>1, ReaderAtRest DEF ReaderState
  <1>6. /\ rd'.pc = (IF names = {} THEN "done" ELSE "len") /\ rd'.op = op
        /\ rd'.left = names /\ rd'.due = D
        /\ rd'.depth = [q \in QueueNames |-> 0] /\ rd'.parked = [q \in QueueNames |-> 0]
    BY <1>1 DEF NoReader
  <1>7. Backlog(Tenants)' = Backlog(Tenants)
    BY <1>4 DEF Backlog, Of
  <1>8. ASSUME NEW q \in QueueNames \ names, NEW where
        PROVE  Cardinality(DueIn(q, where)') = 0
    <2>1. DueIn(q, where)' = {}
      BY <1>3, <1>4, <1>6 DEF DueIn
    <2>. QED  BY <2>1, FS_EmptySet
  <1>9. DepthsSoFar'
    <2>1. 0 >= 0
      BY SMTT(30)
    <2>2. \A q \in QueueNames \ names : rd'.depth[q] = 0 /\ rd'.parked[q] = 0
      BY <1>6
    <2>3. rd'.pc = "done" => names = {}
      BY <1>6
    <2>4. \A q \in QueueNames \ names :
            /\ rd'.depth[q] >= Cardinality(DueIn(q, "list")')
            /\ rd'.parked[q] >= Cardinality(DueIn(q, "delayed")')
      BY <1>8, <2>1, <2>2
    <2>5. rd'.due \subseteq Backlog(Tenants)'
      BY <1>3, <1>6, <1>7
    <2>. QED  BY <1>6, <2>3, <2>4, <2>5 DEF DepthsSoFar
  <1>10. Phases' /\ ListSoFar' /\ DashboardSoFar'
    BY <1>6 DEF Phases, ListSoFar, DashboardSoFar
  <1>11. ReaderInv'
    BY <1>5, <1>6, <1>9, <1>10 DEF ReaderInv
  <1>. QED  BY <1>11, ReadersDisturbNobody

(* LLEN counts every id of the list, ZCARD every member of the set.        *)
LEMMA MeasuresCover ==
  ASSUME TypeOK, rd \in ReaderState, rd.due \subseteq Backlog(Tenants), NEW q \in QueueNames
  PROVE  /\ Len(work[q]) \in Nat
         /\ Cardinality(DOMAIN delayed[q]) \in Nat
         /\ Len(work[q]) >= Cardinality(DueIn(q, "list"))
         /\ Cardinality(DOMAIN delayed[q]) >= Cardinality(DueIn(q, "delayed"))
  <1>. DEFINE L == DueIn(q, "list")
              Z == DueIn(q, "delayed")
              n == Len(work[q])
              m == Cardinality(DOMAIN delayed[q])
              at == [x \in L |-> CHOOSE i \in 1..n : work[q][i] = x[1]]
              member == [x \in Z |-> x[1]]
  <1>1. L \subseteq Ids \X {"row", "list", "delayed"} /\ Z \subseteq Ids \X {"row", "list", "delayed"}
    BY DEF DueIn, ReaderState
  <1>2. n \in Nat /\ DOMAIN work[q] = 1..n
    <2>1. work[q] \in Seq(Ids)
      BY DEF TypeOK, QueueTypeOK
    <2>. QED  BY SMTT(30), <2>1
  <1>3. ASSUME NEW x \in L PROVE x[2] = "list" /\ \E i \in 1..n : work[q][i] = x[1]
    <2>1. x \in Backlog(Tenants) /\ x[2] = "list" /\ jobs[x[1]].queue_name = q
      BY DEF DueIn
    <2>. QED  BY <1>2, <2>1 DEF Backlog
  <1>4. ASSUME NEW x \in Z PROVE x[2] = "delayed" /\ x[1] \in DOMAIN delayed[q]
    <2>1. x \in Backlog(Tenants) /\ x[2] = "delayed" /\ jobs[x[1]].queue_name = q
      BY DEF DueIn
    <2>. QED  BY <2>1 DEF Backlog
  <1>5. \A x \in L : at[x] \in 1..n /\ work[q][at[x]] = x[1]
    BY <1>3
  <1>6. \A x, y \in L : x[1] = y[1] => x = y
    BY SMTT(30), <1>1, <1>3
  <1>7. \A x, y \in Z : x[1] = y[1] => x = y
    BY SMTT(30), <1>1, <1>4
  <1>8. at \in Injection(L, 1..n)
    <2>. HIDE DEF L, n
    <2>1. at \in [L -> 1..n]
      BY <1>5
    <2>. HIDE DEF at
    <2>2. ASSUME NEW x \in L, NEW y \in L, at[x] = at[y] PROVE x = y
      <3>1. x[1] = y[1]
        BY SMTT(30), <1>5, <2>2
      <3>. QED  BY <1>6, <3>1
    <2>. QED  BY <2>1, <2>2 DEF Injection, IsInjective
  <1>9. IsFiniteSet(DOMAIN delayed[q]) /\ m \in Nat
    <2>1. DOMAIN delayed[q] \in SUBSET Ids
      BY DEF TypeOK, QueueTypeOK
    <2>. QED  BY <2>1, FS_Subset, FS_CardinalityType, ReadsAssumption
  <1>10. member \in Injection(Z, DOMAIN delayed[q])
    <2>. HIDE DEF Z
    <2>. QED  BY <1>4, <1>7 DEF Injection, IsInjective
  <1>11. IsFiniteSet(1..n) /\ Cardinality(1..n) = n
    <2>1. 1 \in Int /\ n \in Int /\ (IF 1 > n THEN 0 ELSE n - 1 + 1) = n
      BY SMTT(30), <1>2
    <2>. QED  BY <2>1, FS_Interval
  <1>12. Cardinality(L) <= n /\ Cardinality(Z) <= m
    <2>. HIDE DEF L, Z, n, at, member
    <2>1. Cardinality(L) <= Cardinality(1..n)
      BY <1>8, <1>11, FS_Injection
    <2>2. Cardinality(Z) <= m
      BY <1>9, <1>10, FS_Injection
    <2>. QED  BY <1>11, <2>1, <2>2
  <1>13. Cardinality(L) \in Nat /\ Cardinality(Z) \in Nat
    BY <1>1, DueIsFinite
  <1>. HIDE DEF L, Z, n, m
  <1>14. n >= Cardinality(L) /\ m >= Cardinality(Z)
    BY SMTT(30), <1>2, <1>9, <1>12, <1>13
  <1>. QED  BY <1>2, <1>9, <1>14 DEF L, Z, n, m

LEMMA DepthKeeps ==
  ASSUME ReadsInv, UNCHANGED <<vars, created>>, NEW q \in QueueNames, depthOf(q)
  PROVE  ReadsInv'
  <1>. DEFINE n == Len(work[q])
              next == IF rd.op = "stats" THEN "zcard" ELSE AfterQueue(q)
  <1>0. /\ rd \in ReaderState /\ rd.pc = "len" /\ rd.op \in {"stats", "scrape"} /\ q \in rd.left
        /\ TypeOK /\ DepthsSoFar
    BY DEF ReadsInv, ReadsTypeOK, Phases, depthOf
  <1>1. rd' = [rd EXCEPT !.depth[q] = n, !.left = rd.left \ {q}, !.at = q, !.pc = next]
    BY DEF depthOf
  <1>2. n \in Nat /\ n >= Cardinality(DueIn(q, "list"))
    BY <1>0, MeasuresCover DEF DepthsSoFar
  <1>3. /\ next \in {"zcard", "done", "len"}
        /\ next = "zcard" <=> rd.op = "stats"
        /\ next = "done" => rd.left = {q}
    BY DEF AfterQueue
  <1>4. UNCHANGED <<jobs, work, delayed>>
    BY DEF vars
  <1>5. rd.depth \in [QueueNames -> Nat] /\ rd.left \in SUBSET QueueNames
    BY <1>0 DEF ReaderState
  <1>. HIDE DEF n, next
  <1>6. rd' \in ReaderState
    <2>1. [rd.depth EXCEPT ![q] = n] \in [QueueNames -> Nat] /\ rd.left \ {q} \in SUBSET QueueNames
      BY <1>2, <1>5
    <2>2. rd' = [rd EXCEPT !.depth = [rd.depth EXCEPT ![q] = n], !.left = rd.left \ {q}, !.at = q,
                           !.pc = next]
      BY <1>1
    <2>. QED  BY <1>0, <1>3, <2>1, <2>2 DEF ReaderState
  <1>7. /\ rd'.pc = next /\ rd'.op = rd.op /\ rd'.left = rd.left \ {q} /\ rd'.due = rd.due
        /\ rd'.at = q /\ rd'.depth = [rd.depth EXCEPT ![q] = n] /\ rd'.parked = rd.parked
    BY <1>0, <1>1 DEF ReaderState
  <1>8. Backlog(Tenants)' = Backlog(Tenants) /\ \A p, where : DueIn(p, where)' = DueIn(p, where)
    BY <1>4, <1>7 DEF Backlog, Of, DueIn
  <1>9. DepthsSoFar'
    <2>1. rd'.due \subseteq Backlog(Tenants)'
      BY <1>0, <1>7, <1>8 DEF DepthsSoFar
    <2>2. rd'.pc = "done" => rd'.left = {}
      BY <1>3, <1>7
    <2>3. ASSUME NEW p \in QueueNames, p \notin rd'.left
          PROVE  rd'.depth[p] >= Cardinality(DueIn(p, "list"))
      <3>1. CASE p = q
        BY <1>2, <1>5, <1>7, <3>1
      <3>2. CASE p # q
        <4>1. p \notin rd.left /\ rd'.depth[p] = rd.depth[p]
          BY <1>5, <1>7, <2>3, <3>2
        <4>. QED  BY <1>0, <4>1 DEF DepthsSoFar
      <3>. QED  BY <3>1, <3>2
    <2>4. ASSUME NEW p \in QueueNames, p \notin rd'.left,
                 rd.op = "stats", ~(rd'.pc = "zcard" /\ rd'.at = p)
          PROVE  rd'.parked[p] >= Cardinality(DueIn(p, "delayed"))
      <3>1. p # q
        BY <1>3, <1>7, <2>4
      <3>2. p \notin rd.left
        BY <1>7, <2>4, <3>1
      <3>. QED  BY <1>0, <1>7, <2>4, <3>2 DEF DepthsSoFar
    <2>. QED  BY <1>7, <1>8, <2>1, <2>2, <2>3, <2>4 DEF DepthsSoFar
  <1>10. Phases' /\ ListSoFar' /\ DashboardSoFar'
    BY <1>0, <1>3, <1>7 DEF Phases, ListSoFar, DashboardSoFar
  <1>11. ReaderInv'
    BY <1>0, <1>6, <1>7, <1>9, <1>10 DEF ReaderInv
  <1>. QED  BY <1>11, ReadersDisturbNobody

LEMMA DelayedKeeps ==
  ASSUME ReadsInv, UNCHANGED <<vars, created>>, DelayedLen
  PROVE  ReadsInv'
  <1>. DEFINE q == rd.at
              m == Cardinality(DOMAIN delayed[q])
              next == IF rd.left = {} THEN "done" ELSE "len"
  <1>0. /\ rd \in ReaderState /\ rd.pc = "zcard" /\ rd.op = "stats" /\ q \in QueueNames
        /\ TypeOK /\ DepthsSoFar
    BY DEF ReadsInv, ReadsTypeOK, Phases, DelayedLen
  <1>1. rd' = [rd EXCEPT !.parked[q] = m, !.at = NoId, !.pc = next]
    BY DEF DelayedLen
  <1>2. m \in Nat /\ m >= Cardinality(DueIn(q, "delayed"))
    BY <1>0, MeasuresCover DEF DepthsSoFar
  <1>3. next \in {"done", "len"} /\ (next = "done" => rd.left = {})
    OBVIOUS
  <1>4. UNCHANGED <<jobs, work, delayed>>
    BY DEF vars
  <1>5. rd.parked \in [QueueNames -> Nat]
    BY <1>0 DEF ReaderState
  <1>. HIDE DEF m, next
  <1>6. rd' \in ReaderState
    <2>1. [rd.parked EXCEPT ![q] = m] \in [QueueNames -> Nat]
      BY <1>2, <1>5
    <2>2. rd' = [rd EXCEPT !.parked = [rd.parked EXCEPT ![q] = m], !.at = NoId, !.pc = next]
      BY <1>1
    <2>. QED  BY <1>0, <1>3, <2>1, <2>2 DEF ReaderState
  <1>7. /\ rd'.pc = next /\ rd'.op = rd.op /\ rd'.left = rd.left /\ rd'.due = rd.due
        /\ rd'.depth = rd.depth /\ rd'.parked = [rd.parked EXCEPT ![q] = m]
    BY <1>0, <1>1 DEF ReaderState
  <1>8. Backlog(Tenants)' = Backlog(Tenants) /\ \A p, where : DueIn(p, where)' = DueIn(p, where)
    BY <1>4, <1>7 DEF Backlog, Of, DueIn
  <1>9. DepthsSoFar'
    <2>1. rd'.due \subseteq Backlog(Tenants)'
      BY <1>0, <1>7, <1>8 DEF DepthsSoFar
    <2>2. rd'.pc = "done" => rd'.left = {}
      BY <1>3, <1>7
    <2>3. ASSUME NEW p \in QueueNames, p \notin rd'.left
          PROVE  rd'.depth[p] >= Cardinality(DueIn(p, "list"))
      BY <1>0, <1>7, <2>3 DEF DepthsSoFar
    <2>4. ASSUME NEW p \in QueueNames, p \notin rd'.left
          PROVE  rd'.parked[p] >= Cardinality(DueIn(p, "delayed"))
      <3>1. CASE p = q
        BY <1>2, <1>5, <1>7, <3>1
      <3>2. CASE p # q
        <4>1. p \notin rd.left /\ rd'.parked[p] = rd.parked[p]
          BY <1>5, <1>7, <2>4, <3>2
        <4>. QED  BY <1>0, <3>2, <4>1 DEF DepthsSoFar
      <3>. QED  BY <3>1, <3>2
    <2>. QED  BY <1>7, <1>8, <2>1, <2>2, <2>3, <2>4 DEF DepthsSoFar
  <1>10. Phases' /\ ListSoFar' /\ DashboardSoFar'
    BY <1>0, <1>3, <1>7 DEF Phases, ListSoFar, DashboardSoFar
  <1>11. ReaderInv'
    BY <1>0, <1>6, <1>7, <1>9, <1>10 DEF ReaderInv
  <1>. QED  BY <1>11, ReadersDisturbNobody

LEMMA RestKeeps ==
  ASSUME rd = NoReader
  PROVE  ReaderInv
  <1>1. rd.pc = "idle" /\ rd.op = "none"
    BY DEF NoReader
  <1>. QED
    BY <1>1, ReaderAtRest
    DEF ReaderInv, Phases, ListSoFar, DashboardSoFar, DepthsSoFar

LEMMA RespondKeeps ==
  ASSUME ReadsInv, UNCHANGED <<vars, created>>, respond
  PROVE  ReadsInv'
  <1>1. rd' = NoReader
    BY DEF respond
  <1>2. rd'.pc = "idle" /\ rd'.op = "none"
    BY <1>1 DEF NoReader
  <1>3. ReaderInv'
    BY <1>1, <1>2, ReaderAtRest
    DEF ReaderInv, Phases, ListSoFar, DashboardSoFar, DepthsSoFar
  <1>. QED  BY <1>3, ReadersDisturbNobody

LEMMA ReadsStart == ReadsInit => ReadsInv
  <1>. SUFFICES ASSUME ReadsInit PROVE ReadsInv
    OBVIOUS
  <1>1. TypeOK /\ ExclusiveRun
    BY InitTypes DEF ReadsInit, Init, WorkerInit, ExclusiveRun, Runs, Idle
  <1>2. ReaderInv
    BY RestKeeps DEF ReadsInit
  <1>3. DOMAIN jobs = {} /\ DOMAIN created = {} /\ created = [id \in {} |-> 0]
    BY DEF ReadsInit, Init, StoreInit
  <1>4. StampTypes
    BY <1>3 DEF StampTypes
  <1>. QED  BY <1>1, <1>2, <1>4 DEF ReadsInv, ReaderInv, ReadsTypeOK, StampTypes

LEMMA ReadsSteps == ReadsInv /\ [ReadsNext]_readVars => ReadsInv'
  <1>. SUFFICES ASSUME ReadsInv, [ReadsNext]_readVars PROVE ReadsInv'
    OBVIOUS
  <1>1. CASE UNCHANGED readVars
    <2>1. UNCHANGED <<vars, created>> /\ UNCHANGED <<jobs, work, delayed, rd, created>>
      BY <1>1 DEF readVars, vars
    <2>2. ReaderInv
      BY DEF ReadsInv, ReadsTypeOK, ReaderInv
    <2>3. ListSoFar'
      <3>1. Listing' = Listing
        BY <2>1 DEF Listing, Matching
      <3>2. \A x \in rd.due : /\ rank(x[1], Listing)' = rank(x[1], Listing)
                              /\ Found(created[x[1]])' <=> Found(created[x[1]])
        BY <2>1, <3>1 DEF rank, Found
      <3>. QED  BY <2>1, <2>2, <3>1, <3>2 DEF ReaderInv, ListSoFar
    <2>4. Phases' /\ DashboardSoFar' /\ DepthsSoFar'
      BY <2>1, <2>2 DEF ReaderInv, Phases, DashboardSoFar, DepthsSoFar, Listing, Matching,
                        Backlog, Of, DueIn, InAnyStatus
    <2>5. ReaderInv'
      BY <2>1, <2>2, <2>3, <2>4 DEF ReaderInv
    <2>. QED  BY <2>1, <2>5, ReadersDisturbNobody
  <1>2. CASE Pipeline
    BY <1>2, PipelineKeeps
  <1>3. CASE Reader
    <2>0. UNCHANGED <<vars, created>>
      BY <1>3 DEF Reader
    <2>1. ASSUME NEW t \in Tenants, NEW f \in Filter, NEW param \in Limits, listJobs(t, f, param)
          PROVE  ReadsInv'
      BY <2>0, <2>1, ListBegins
    <2>2. ASSUME NEW t \in Tenants, dashboard(t) PROVE ReadsInv'
      BY <2>0, <2>2, DashboardBegins
    <2>3. ASSUME NEW t \in Tenants, stats(t) PROVE ReadsInv'
      <3>1. Measure("stats", t, mergeUnique(Configured, QueuesOf({t})), Backlog({t}))
        BY <2>3 DEF stats, StatsQueues
      <3>2. {t} \in SUBSET Tenants /\ t \in Tenants \cup {NoId} /\ "stats" \in {"stats", "scrape"}
        OBVIOUS
      <3>. QED  BY <2>0, <3>1, <3>2, MeasureBegins
    <2>4. ASSUME QueueDepths PROVE ReadsInv'
      <3>1. Measure("scrape", NoId, mergeUnique(Configured, QueuesOf(Tenants)), Backlog(Tenants))
        BY <2>4 DEF QueueDepths, ScrapeQueues
      <3>2. Tenants \in SUBSET Tenants /\ NoId \in Tenants \cup {NoId}
            /\ "scrape" \in {"stats", "scrape"}
        OBVIOUS
      <3>. QED  BY <2>0, <3>1, <3>2, MeasureBegins
    <2>5. ASSUME NEW q \in QueueNames, depthOf(q) PROVE ReadsInv'
      BY <2>0, <2>5, DepthKeeps
    <2>. QED
      BY <1>3, <2>0, <2>1, <2>2, <2>3, <2>4, <2>5, CountKeeps, PageKeeps, RecentKeeps,
         DelayedKeeps, RespondKeeps
      DEF Reader
  <1>. QED  BY <1>1, <1>2, <1>3 DEF ReadsNext

LEMMA ReadsAlways == ReadsSpec => []ReadsInv
  BY ReadsStart, ReadsSteps, PTL DEF ReadsSpec

-----------------------------------------------------------------------------
(* Whatever the readers do, the tables and the queues move as the pipeline *)
(* allows: to it, a step of a reader is none (listJobs, dashboard, stats,  *)
(* QueueDepths write nothing).                                             *)
THEOREM ReadersWriteNothing == ReadsSpec => Spec
  <1>1. ReadsInit => Init
    BY DEF ReadsInit
  <1>2. [ReadsNext]_readVars => [Next]_vars
    BY DEF ReadsNext, Reader, Pipeline, readVars
  <1>. QED  BY <1>1, <1>2, PTL DEF ReadsSpec, Spec

(* A caller who pages through a listing until a page is not full gets, for *)
(* every job that was there when they began, that job or another of the    *)
(* listing with the same created_at, whatever is inserted, and made        *)
(* visible out of order, between the pages, and however each query orders  *)
(* ties; a job whose created_at no other job of the listing shares is      *)
(* therefore never skipped (ListJobs).                                     *)
THEOREM SkippedJobsAreTied == ReadsSpec => []PagingSkipsOnlyTies
  <1>1. ReadsInv => PagingSkipsOnlyTies
    BY DEF ReadsInv, ListSoFar, Found, Listing, PagingSkipsOnlyTies
  <1>. QED  BY <1>1, ReadsAlways, PTL

(* No page is shorter than the total that comes with it says, though the   *)
(* two are read by two queries (ListJobs).                                 *)
THEOREM TotalsAreBacked == ReadsSpec => []TotalBacksPage
  <1>1. ReadsInv => TotalBacksPage
    <2>. SUFFICES ASSUME ReadsInv, rd.pc = "page", rd.filter.status = "any", NEW page \in pagesNow
                  PROVE  Cardinality(page) >= Min({rd.limit, Max({0, rd.total - rd.offset})})
      BY DEF TotalBacksPage
    <2>. DEFINE n == Cardinality(Listing)
                rest == rd.total - rd.offset
                most == Max({0, rest})
    <2>1. Ordered(Listing) /\ n \in Nat /\ page \in Pages(Listing, rd.limit, rd.offset)
      BY ListingRanks DEF Listing, pagesNow
    <2>2. rd \in ReaderState /\ rd.total <= n
      BY DEF ReadsInv, ReadsTypeOK, Phases, ListSoFar
    <2>3. rd.limit \in Nat /\ rd.offset \in Nat /\ rd.total \in Nat
      BY <2>2 DEF ReaderState
    <2>4. Cardinality(page) =
            IF n <= rd.offset THEN 0
            ELSE IF rd.offset + rd.limit <= n THEN rd.limit ELSE n - rd.offset
      BY <2>1, <2>3, PageSize
    <2>5. 0 \in Int /\ rest \in Int /\ rd.limit \in Int
      BY SMTT(30), <2>3
    <2>6. most = IF 0 >= rest THEN 0 ELSE rest
      BY <2>5, MaxOfTwo
    <2>7. most \in Int
      BY <2>5, <2>6
    <2>. HIDE DEF most
    <2>8. Min({rd.limit, most}) = IF rd.limit <= most THEN rd.limit ELSE most
      BY <2>5, <2>7, MinOfTwo
    <2>. HIDE DEF n
    <2>9. Cardinality(page) >= Min({rd.limit, most})
      BY SMTT(30), <2>1, <2>2, <2>3, <2>4, <2>6, <2>8
    <2>. QED  BY <2>9 DEF most
  <1>. QED  BY <1>1, ReadsAlways, PTL

(* The totals of the dashboard count each job of the tenant once, and the  *)
(* list of recent jobs below them is as long as they require (dashboard,   *)
(* StatusCounts).                                                          *)
THEOREM DashboardsAddUp == ReadsSpec => []DashboardAddsUp
  <1>1. ReadsInv => DashboardAddsUp
    BY DEF ReadsInv, DashboardSoFar, DashboardAddsUp
  <1>. QED  BY <1>1, ReadsAlways, PTL

(* Every id that stays in a work list or a delayed set while stats or the  *)
(* gauge is being computed is part of a reported depth, in whatever queue  *)
(* it lies (QueueNames, AllQueueNames, mergeUnique, Len, DelayedLen).      *)
THEOREM BacklogsAreShown == ReadsSpec => []BacklogIsShown
  <1>1. ReadsInv => BacklogIsShown
    <2>. SUFFICES ASSUME ReadsInv, rd.op \in {"stats", "scrape"}, rd.pc = "done", NEW q \in QueueNames
                  PROVE  /\ rd.depth[q] >= Cardinality(DueIn(q, "list"))
                         /\ rd.op = "stats" => rd.parked[q] >= Cardinality(DueIn(q, "delayed"))
      BY DEF BacklogIsShown, DueIn
    <2>1. rd.left = {} /\ ~(rd.pc = "zcard")
      BY DEF ReadsInv, DepthsSoFar
    <2>. QED  BY <2>1 DEF ReadsInv, DepthsSoFar
  <1>. QED  BY <1>1, ReadsAlways, PTL
=============================================================================
