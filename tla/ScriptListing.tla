---------------------------- MODULE ScriptListing ----------------------------
(***************************************************************************)
(* One listing of the script market: ListingService (seller and platform)  *)
(* and the conditional updates of ScriptListingMapper (orders).            *)
(*                                                                         *)
(* A method of ListingService reads the row, checks it and writes it back  *)
(* with updateById; the row has no @Version, so what an order or another   *)
(* edit changed in between is overwritten.  An edit is two steps here, its *)
(* read and its write.  The mapper's updates are single statements.        *)
(***************************************************************************)
EXTENDS FiniteSets

CONSTANTS
    Orders,   \* order numbers
    NoOrder,  \* SQL's NULL in a column that names an order
    Edits     \* transactions of ListingService that may be open at once

ASSUME ListingAssumption == NoOrder \notin Orders

VARIABLES
    listing,   \* the row of script_listings
    edits,     \* what each open edit is and the row it has read
    lapsed,    \* orders whose 30 minutes are over
    approvals  \* TRUE once the platform has approved the listing

listingVars == <<listing, edits, lapsed, approvals>>

ListingStatus == {"DRAFT", "LISTED", "EXCLUSIVE_RESERVED", "UNLISTED"}

ReviewStatus == {"DRAFT", "UNDER_REVIEW", "LISTED", "REJECTED"}

\* reservation_expires_at is the end of some order's 30 minutes, "until" that
\* order.
Listings == [status : ListingStatus, review : ReviewStatus,
             holder : Orders \cup {NoOrder}, until : Orders \cup {NoOrder}]

EditOps == {"updateDraft", "submit", "withdraw", "approve", "reject", "unlist"}

NoEdit == [open |-> FALSE]

OpenEdits == [open : {TRUE}, op : EditOps, row : Listings]

ListingTypeOK ==
    /\ listing \in Listings
    /\ edits \in [Edits -> OpenEdits \cup {NoEdit}]
    /\ lapsed \subseteq Orders
    /\ approvals \in BOOLEAN

\* createDraft.
ListingInit ==
    /\ listing = [status |-> "DRAFT", review |-> "DRAFT",
                  holder |-> NoOrder, until |-> NoOrder]
    /\ edits = [e \in Edits |-> NoEdit]
    /\ lapsed = {}
    /\ approvals = FALSE
-----------------------------------------------------------------------------
(* The seller and the platform.                                            *)

Allowed(op, row) ==
    CASE op = "updateDraft" -> row.review # "UNDER_REVIEW"
      [] op = "submit"      -> row.review \in {"DRAFT", "REJECTED"}
      [] op \in {"withdraw", "approve", "reject"} -> row.review = "UNDER_REVIEW"
      [] op = "unlist"      -> row.status \in {"LISTED", "EXCLUSIVE_RESERVED"}

\* A plausible slip: submitting lists at once, before the review.
ListedAtOnce(op, status) ==
    CASE op \in {"submit", "approve"} -> "LISTED"
      [] op = "unlist" -> "UNLISTED"
      [] OTHER -> status

\* A plausible slip: listing_status follows review_status.
StatusOfReview(op, status) ==
    CASE op = "approve" -> "LISTED"
      [] op = "unlist" -> "UNLISTED"
      [] op = "submit" -> "UNDER_REVIEW"
      [] OTHER -> status

\* listing_status is left alone by everything but approve and unlist.
StatusAfter(op, status) ==
    CASE op = "approve" -> "LISTED"
      [] op = "unlist" -> "UNLISTED"
      [] OTHER -> status

ReviewAfter(op, review) ==
    CASE op \in {"updateDraft", "withdraw"} -> "DRAFT"
      [] op = "submit" -> "UNDER_REVIEW"
      [] op = "approve" -> "LISTED"
      [] op = "reject" -> "REJECTED"
      [] op = "unlist" -> review

\* updateById writes the row that was read, with its changes, and leaves out
\* the columns that are null in it.
Edited(op, row) ==
    [status |-> StatusAfter(op, row.status),
     review |-> ReviewAfter(op, row.review),
     holder |-> IF row.holder = NoOrder THEN listing.holder ELSE row.holder,
     until  |-> IF row.until = NoOrder THEN listing.until ELSE row.until]

EditRead(e, op) ==
    /\ ~edits[e].open
    /\ Allowed(op, listing)
    /\ edits' = [edits EXCEPT ![e] = [open |-> TRUE, op |-> op, row |-> listing]]
    /\ UNCHANGED <<listing, lapsed, approvals>>

EditWrite(e) ==
    /\ edits[e].open
    /\ listing' = Edited(edits[e].op, edits[e].row)
    /\ edits' = [edits EXCEPT ![e] = NoEdit]
    /\ approvals' = (approvals \/ edits[e].op = "approve")
    /\ UNCHANGED lapsed

EditStep == \E e \in Edits : EditWrite(e) \/ \E op \in EditOps : EditRead(e, op)
-----------------------------------------------------------------------------
(* The orders.                                                             *)

OnSale == listing.status \in {"LISTED", "EXCLUSIVE_RESERVED"}

\* create passes null for the order number of its reservation.
ReservationOrderNo(o) == NoOrder

CanReserve ==
    /\ listing.status = "LISTED"
    /\ listing.until = NoOrder \/ listing.until \in lapsed

\* A plausible slip: the reservation is made without its deadline.
ReserveWithoutDeadline(o) ==
    /\ CanReserve
    /\ listing' = [listing EXCEPT !.status = "EXCLUSIVE_RESERVED",
                                  !.holder = ReservationOrderNo(o)]

ReserveExclusive(o) ==
    /\ CanReserve
    /\ listing' = [listing EXCEPT !.status = "EXCLUSIVE_RESERVED",
                                  !.holder = ReservationOrderNo(o), !.until = o]

\* In SQL no row's NULL equals an order number.
ReleaseReservation(o) ==
    listing' = IF listing.holder = o /\ listing.status = "EXCLUSIVE_RESERVED"
               THEN [listing EXCEPT !.status = "LISTED", !.holder = NoOrder, !.until = NoOrder]
               ELSE listing

RestoreListed(o) ==
    listing' = IF listing.holder = o
               THEN [listing EXCEPT !.status = "LISTED", !.holder = NoOrder, !.until = NoOrder]
               ELSE listing

\* Half an hour passes.
Lapse(o) ==
    /\ o \notin lapsed
    /\ lapsed' = lapsed \cup {o}
    /\ UNCHANGED <<listing, edits, approvals>>

\* What orders do to the listing, without the orders (TradeOrders has them).
OrderStep ==
    \E o \in Orders :
        \/ o \notin lapsed /\ ReserveExclusive(o) /\ UNCHANGED <<edits, lapsed, approvals>>
        \/ ReleaseReservation(o) /\ UNCHANGED <<edits, lapsed, approvals>>
        \/ RestoreListed(o) /\ UNCHANGED <<edits, lapsed, approvals>>
        \/ Lapse(o)

ListingNext == EditStep \/ OrderStep

ListingSpec == ListingInit /\ [][ListingNext]_listingVars
-----------------------------------------------------------------------------
(* Properties.                                                             *)

\* Whatever overlaps, a listing that buyers can order has been approved by the
\* platform at least once: no stale write brings an unapproved one to market.
OnSaleWasApproved == OnSale => approvals
=============================================================================
