------------------------------ MODULE Reviews ------------------------------
(***************************************************************************)
(* ReviewService and KoperasiService.upsertReview: what a customer writes    *)
(* about a product that reached him and about the cooperative, and the       *)
(* average that others see.                                                  *)
(***************************************************************************)
EXTENDS Requests

CONSTANTS Critics, Ratings

Targets == {"product", "shop"}
NoRating == 0

VARIABLES received,        \* critics with a delivered order of the product
          review           \* critic -> target -> Review.rating

reviewVars == <<received, review>>

ReviewInit ==
    /\ received = {}
    /\ review = [c \in Critics |-> [t \in Targets |-> NoRating]]

(* The order reaches one of REVIEWABLE_ORDER_STATUSES.                       *)
OrderReceived(c) ==
    /\ received' = received \cup {c}
    /\ UNCHANGED <<review, job>>

(* resolveTarget, assertPurchased: an order for a product, none for a place. *)
MayReview(c, t) == t = "product" => c \in received

ReviewAsks(w, c, t, r) ==
    /\ MayReview(c, t)
    /\ Start(w, [op |-> "write", by |-> c, target |-> t, rating |-> r])
    /\ UNCHANGED reviewVars

(* create: INSERT, refused when the critic has reviewed the target.          *)
ReviewWritten(w) ==
    LET j == job[w] IN
    /\ Doing(w, "write")
    /\ review' = IF review[j.by][j.target] = NoRating
                 THEN [review EXCEPT ![j.by][j.target] = j.rating] ELSE review
    /\ Finish(w)
    /\ UNCHANGED received

(* update, by the author.                                                   *)
ReviewUpdated(c, t, r) ==
    /\ review[c][t] # NoRating
    /\ review' = [review EXCEPT ![c][t] = r]
    /\ UNCHANGED <<received, job>>

(* upsertReview of the cooperative.                                         *)
ShopReviewed(c, r) ==
    /\ review' = [review EXCEPT ![c]["shop"] = r]
    /\ UNCHANGED <<received, job>>

(* reviewableItems: the button is shown.                                    *)
Reviewable(c) == c \in received /\ review[c]["product"] = NoRating

ReviewNext ==
    \/ \E c \in Critics :
         \/ OrderReceived(c)
         \/ \E r \in Ratings : ShopReviewed(c, r) \/ \E t \in Targets : ReviewUpdated(c, t, r)
    \/ \E w \in Workers :
         \/ \E c \in Critics, t \in Targets, r \in Ratings : ReviewAsks(w, c, t, r)
         \/ ReviewWritten(w)
         \/ Crash(w) /\ UNCHANGED reviewVars
=============================================================================
