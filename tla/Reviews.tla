------------------------------ MODULE Reviews -------------------------------
(***************************************************************************)
(* ReviewsService: a customer reviews what was delivered, an employee      *)
(* moderates and answers, and the product keeps the average of what is     *)
(* approved.  A moderation saves the row, then recomputes the average.     *)
(***************************************************************************)
EXTENDS Handlers, SequencesExt

CONSTANTS
  Orders, Variants,   \* the orders of one customer, and the variants they contain
  ProductOf(_),
  Ids,                \* bound: the reviews that are submitted
  Stars               \* the ratings that are given

VARIABLES
  delivered,  \* the orders in trang_thai_don = 'DaGiao'
  reviews,    \* danh_gia_san_pham by review_id, newest last
  messages,   \* danh_gia_message: its visible replies and internal notes, by review
  rating,     \* of each product: diem_danh_gia_tb (in hundredths), so_luot_danh_gia
  torn        \* auxiliary: a moderation or an answer was cut short

reviewVars == <<delivered, reviews, messages, rating, torn>>

ReviewStatus == {"Pending", "Approved", "Rejected", "Hidden"}
ProductReview == [variant : Variants, order : Orders, rating : Stars,
                  status : ReviewStatus, hasReply : BOOLEAN]
ReviewMessage == [review : Ids, type : {"Reply", "InternalNote"}, visible : BOOLEAN]
Products == {ProductOf(v) : v \in Variants}

There == DOMAIN reviews
OfProduct(p) == {i \in There : ProductOf(reviews[i].variant) = p}

ReviewsInit ==
  /\ delivered \in SUBSET Orders
  /\ reviews = [i \in {} |-> 0] /\ messages = {}
  /\ rating = [p \in Products |-> [average |-> 0, count |-> 0]] /\ torn = FALSE

Deliver(o) ==
  /\ delivered' = delivered \cup {o} /\ o \notin delivered
  /\ UNCHANGED <<handling, reviews, messages, rating, torn>>

-----------------------------------------------------------------------------
(* The customer *)

\* Mutant of AlreadyReviewed: only the variant is compared.
AlreadyReviewedPending(v, o) ==
  \E i \in There : reviews[i].variant = v /\ reviews[i].order = o /\ reviews[i].status = "Pending"

AlreadyReviewed(v, o) == \E i \in There : reviews[i].variant = v /\ reviews[i].order = o

\* Every order here contains every variant; the images are uploaded before the INSERT.
SubmitRead(r, v, o) ==
  /\ o \in delivered /\ ~AlreadyReviewed(v, o)
  /\ \E n \in Stars :
       Begin(r, "submit", [row |-> [variant |-> v, order |-> o, rating |-> n,
                                    status |-> "Pending", hasReply |-> FALSE]])
  /\ UNCHANGED reviewVars

SubmitInsert(r) ==
  LET i == Cardinality(There) + 1 IN
  /\ pc[r] = "submit" /\ i \in Ids
  /\ reviews' = [k \in There \cup {i} |-> IF k = i THEN job[r].row ELSE reviews[k]]
  /\ Finish(r) /\ UNCHANGED <<delivered, messages, rating, torn>>

-----------------------------------------------------------------------------
(* Moderation *)

\* Whether the average is recomputed.
MovesAverage(from, to) == to = "Approved" \/ from = "Approved"

\* approveReview, rejectReview, hideReview; bulkModerate calls the first two in turn.
ModerateRead(r, i) ==
  /\ \E to \in {"Approved", "Rejected", "Hidden"} :
       /\ ~(to = "Approved" /\ reviews[i].status = "Approved")
       /\ Begin(r, "moderate", [id |-> i, row |-> [reviews[i] EXCEPT !.status = to],
                                recompute |-> MovesAverage(reviews[i].status, to)])
  /\ UNCHANGED reviewVars

ModerateSave(r) ==
  /\ pc[r] = "moderate" /\ reviews' = [reviews EXCEPT ![job[r].id] = job[r].row]
  /\ IF job[r].recompute
     THEN Continue(r, "aggregate", [product |-> ProductOf(job[r].row.variant)]) ELSE Finish(r)
  /\ UNCHANGED <<delivered, messages, rating, torn>>

\* The rows that the storefront shows.
Approved(p) == {i \in OfProduct(p) : reviews[i].status = "Approved"}

\* ROUND(AVG(rating), 2), in hundredths; 0 of no rows.
Average(S) ==
  IF S = {} THEN 0
  ELSE (100 * MapThenSumSet(LAMBDA i : reviews[i].rating, S) + Cardinality(S) \div 2)
         \div Cardinality(S)

\* recomputeProductRating reads the aggregate and writes it in an UPDATE of its own.
Aggregate(r) ==
  LET p == job[r].product IN
  /\ pc[r] = "aggregate"
  /\ Continue(r, "write rating", [product |-> p, rating |->
       [average |-> Average(Approved(p)), count |-> Cardinality(Approved(p))]])
  /\ UNCHANGED reviewVars

WriteRating(r) ==
  /\ pc[r] = "write rating" /\ rating' = [rating EXCEPT ![job[r].product] = job[r].rating]
  /\ Finish(r) /\ UNCHANGED <<delivered, reviews, messages, torn>>

-----------------------------------------------------------------------------
(* Answers *)

Message(i, type) == [review |-> i, type |-> type, visible |-> type # "InternalNote"]

Reply(r, i) ==
  \E type \in {"Reply", "InternalNote"} :
    /\ messages' = messages \cup {Message(i, type)}
    /\ IF type = "Reply" THEN Begin(r, "mark", [id |-> i]) ELSE AtOnce(r)
    /\ UNCHANGED <<delivered, reviews, rating, torn>>

Marked(i) == [reviews EXCEPT ![i].hasReply = TRUE]

MarkReplied(r) ==
  /\ pc[r] = "mark" /\ reviews' = Marked(job[r].id)
  /\ Finish(r) /\ UNCHANGED <<delivered, messages, rating, torn>>

Abandon(r) ==
  /\ GiveUp(r) /\ torn' = (torn \/ pc[r] \in {"aggregate", "write rating", "mark"})
  /\ UNCHANGED <<delivered, reviews, messages, rating>>


-----------------------------------------------------------------------------
(* Lists: a WHERE clause of optional filters, an order, and one page of the rows *)

\* A filter that is not given lets every row through.
Given(filter, x) == filter = {} \/ x \in filter

Offset(page, limit) == (page - 1) * limit

\* LIMIT limit OFFSET Offset(page, limit)
Page(rows, page, limit) ==
  LET first == Offset(page, limit) IN
  SubSeq(rows, first + 1, IF first + limit > Len(rows) THEN Len(rows) ELSE first + limit)

TotalPages(total, limit) == (total + limit - 1) \div limit

\* The pages of a list, one after the other.
AllPages(rows, limit) ==
  FlattenSeq([p \in 1..TotalPages(Len(rows), limit) |-> Page(rows, p, limit)])

NewestFirst(S) == Reverse(SetToSortSeq(S, <))

\* findAll: the filters that tell rows apart here.
Rows(status, variant, stars, unanswered) ==
  {i \in There : /\ Given(status, reviews[i].status) /\ Given(variant, reviews[i].variant)
                 /\ Given(stars, reviews[i].rating)
                 /\ unanswered => reviews[i].status = "Approved" /\ ~reviews[i].hasReply}

\* The counters above the list: only the filter on the variant applies.
Stats(variant) ==
  [s \in ReviewStatus |-> Cardinality(Rows({s}, variant, {}, FALSE))]

\* getApprovedReviews: a page and the bars beside it, which no filter moves.
Shown(p, stars, variant) ==
  {i \in Approved(p) : Given(stars, reviews[i].rating) /\ Given(variant, reviews[i].variant)}
Distribution(p) == [n \in Stars |-> Cardinality({i \in Approved(p) : reviews[i].rating = n})]

Next ==
  \/ \E r \in Requests :
       \/ \E v \in Variants, o \in Orders : SubmitRead(r, v, o)
       \/ SubmitInsert(r)
       \/ \E i \in There : ModerateRead(r, i) \/ Reply(r, i)
       \/ ModerateSave(r) \/ Aggregate(r) \/ WriteRating(r) \/ MarkReplied(r) \/ Abandon(r)
  \/ \E o \in Orders : Deliver(o)

-----------------------------------------------------------------------------
\* The type of every variable; customers see no internal note.
TypeOK ==
  /\ HandlersTypeOK
  /\ delivered \subseteq Orders /\ There \subseteq Ids /\ torn \in BOOLEAN
  /\ \A i \in There : reviews[i] \in ProductReview
  /\ messages \subseteq ReviewMessage
  /\ \A m \in messages : m.visible <=> m.type = "Reply"
  /\ \A p \in Products : rating[p].average \in 0..500 /\ rating[p].count \in 0..Cardinality(Ids)

\* While handlers do not overlap, a customer reviews a variant once for each delivered
\* order that has it, whatever became of the first review.
OncePerPurchase ==
  \A i, j \in There : reviews[i].order \in delivered /\
    (i # j => <<reviews[i].variant, reviews[i].order>> # <<reviews[j].variant, reviews[j].order>>)

\* While handlers do not overlap, the rating on the product's card is that of the reviews
\* its page shows, over all its variants, unless a moderation was cut short.
RatingIsAverage ==
  (~torn /\ \A r \in Requests : pc[r] \notin {"aggregate", "write rating"}) =>
    \A p \in Products :
      rating[p] = [average |-> Average(Shown(p, {}, {})), count |-> Cardinality(Shown(p, {}, {}))]

\* While handlers do not overlap, the reviews that wait for an answer are the approved
\* ones without a reply, unless an answer was cut short.
UnansweredWait ==
  (~torn /\ \A r \in Requests : pc[r] # "mark") =>
    Rows({}, {}, {}, TRUE) = {i \in Rows({"Approved"}, {}, {}, FALSE) :
                                Message(i, "Reply") \notin messages}

\* The pages of a list, of any size, hold every row of the filter once and in order, and
\* the counters and bars add up to the rows they are about.
PagesTieUp ==
  /\ \A limit \in 1..2, variant \in {{}} \cup {{v} : v \in Variants} :
       /\ AllPages(NewestFirst(Rows({}, variant, {}, FALSE)), limit)
            = NewestFirst(Rows({}, variant, {}, FALSE))
       /\ FoldFunction(+, 0, Stats(variant)) = Cardinality(Rows({}, variant, {}, FALSE))
  /\ \A p \in Products :
       FoldFunction(+, 0, Distribution(p)) = Cardinality(Shown(p, {}, {}))
=============================================================================
