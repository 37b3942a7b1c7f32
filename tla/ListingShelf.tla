---------------------------- MODULE ListingShelf ----------------------------
(***************************************************************************)
(* The versioned listing slots of one seller: publishStandardListing and   *)
(* withAutoAccept of roster/dacs/seller-adapter.ts, tried up to three      *)
(* times by the republishing script (roster/dacs/live/republish-           *)
(* listings.ts).                                                           *)
(* An anchor may fail before or after its slot was written, so a retry     *)
(* meets what an earlier attempt left.  One process publishes for a seller *)
(* at a time; nothing in the code would stop a second one between the read *)
(* of a slot and the anchor.                                               *)
(***************************************************************************)
EXTENDS StandardProfile

CONSTANTS ListingSpecs,    \* the specs a seller may publish: [body, until]
          ShelfHorizon,    \* bound on the clock
          MaxPublishes     \* bound on the number of publications

VARIABLES slots,      \* dacs1:listing, by version
          autos,      \* the auto-accept commitment, by version
          markers,    \* the revocation marker, by version
          publisher,  \* the publication in hand and its attempts
          rows,       \* the script's report
          shelfClock

shelfVars == <<slots, autos, markers, publisher, rows, shelfClock>>

\* A listing and a commitment are artifacts, and validity ends at a time.
ASSUME ShelfAssumption ==
    /\ MaxPublishes \in Nat
    /\ \A spec, other \in ListingSpecs :
          LET l == signListing(spec.body, Seller) IN
          /\ l # None
          /\ other.until # None => /\ other.until \in Nat
                                  /\ createAutoAcceptCommitment(l, Seller, other.until) # None

Versions  == {spec.body.version : spec \in ListingSpecs}
IdleShelf == [at |-> "idle", spec |-> None, tries |-> 0]

ShelfInit ==
    /\ slots = [v \in Versions |-> None]
    /\ autos = [v \in Versions |-> None]
    /\ markers = [v \in Versions |-> None]
    /\ publisher = IdleShelf
    /\ rows = <<>>
    /\ shelfClock = 0

Sought  == publisher.spec
Slot  == Sought.body.version
Fresh == signListing(Sought.body, Seller)

\* topUpIfLow and the key file come first: a failure there reports the seller
\* as blocked before anything is read.
Republish ==
    /\ publisher.at = "idle" /\ Len(rows) < MaxPublishes
    /\ \/ \E spec \in ListingSpecs : publisher' = [at |-> "read", spec |-> spec, tries |-> 1]
          /\ UNCHANGED rows
       \/ rows' = Append(rows, [version |-> 0, status |-> "blocked"]) /\ UNCHANGED publisher
    /\ UNCHANGED <<slots, autos, markers, shelfClock>>

\* publishWithRetry.
Retry ==
    IF publisher.tries < 3
    THEN publisher' = [publisher EXCEPT !.at = "read", !.tries = @ + 1] /\ UNCHANGED rows
    ELSE publisher' = IdleShelf /\ rows' = Append(rows, [version |-> Slot, status |-> "blocked"])

Proceed(at) == publisher' = [publisher EXCEPT !.at = at] /\ UNCHANGED rows

\* What an existing slot is compared on: everything but the presentation
\* and the signature.
sameStaticSpec(l) == standardHash(l, {"identity", "sig"}) = standardHash(Sought.body, {"identity"})
                     /\ l.identity.presentedBy = Seller

ReadSlot ==
    /\ publisher.at = "read"
    /\ IF slots[Slot] # None
       THEN IF verifyListing(slots[Slot], shelfClock, None) /\ sameStaticSpec(slots[Slot]) THEN Proceed("auto") ELSE Retry
       ELSE IF verifyListing(Fresh, shelfClock, None) THEN Proceed("anchor") ELSE Retry
    /\ UNCHANGED <<slots, autos, markers, shelfClock>>

AnchorListing ==
    /\ publisher.at = "anchor"
    /\ \/ Proceed("auto") /\ slots' = [slots EXCEPT ![Slot] = Fresh]
       \/ Retry /\ slots' = [slots EXCEPT ![Slot] = Fresh]
       \/ Retry /\ UNCHANGED slots
    /\ UNCHANGED <<autos, markers, shelfClock>>

\* A slip: the commitment is anchored again with each publication.
withAutoAcceptAnew ==
    /\ publisher.at = "auto"
    /\ IF slots[Slot].auto /\ Sought.until # None
       THEN autos' = [autos EXCEPT ![Slot] = createAutoAcceptCommitment(slots[Slot], Seller, Sought.until)]
       ELSE UNCHANGED autos
    /\ Proceed("readback")
    /\ UNCHANGED <<slots, markers, shelfClock>>

\* withAutoAccept, on the listing the slot holds.
withAutoAccept ==
    /\ publisher.at = "auto"
    /\ LET c == createAutoAcceptCommitment(slots[Slot], Seller, Sought.until) IN
       \/ ~slots[Slot].auto /\ Sought.until = None /\ Proceed("readback") /\ UNCHANGED autos
       \/ slots[Slot].auto # (Sought.until # None) /\ Retry /\ UNCHANGED autos
       \/ /\ slots[Slot].auto /\ Sought.until # None /\ autos[Slot] # None
          /\ IF autos[Slot] = c THEN Proceed("readback") ELSE Retry
          /\ UNCHANGED autos
       \/ /\ slots[Slot].auto /\ Sought.until # None /\ autos[Slot] = None
          /\ \/ Proceed("readback") /\ autos' = [autos EXCEPT ![Slot] = c]
             \/ Retry /\ autos' = [autos EXCEPT ![Slot] = c]
             \/ Retry /\ UNCHANGED autos
    /\ UNCHANGED <<slots, markers, shelfClock>>

\* The script reads the slot back and compares the description; the read may
\* still be empty.
ReadBack ==
    /\ publisher.at = "readback"
    /\ \E seen \in BOOLEAN :
          rows' = Append(rows, [version |-> Slot,
                                status |-> IF seen /\ sameStaticSpec(slots[Slot]) THEN "updated" ELSE "blocked"])
    /\ publisher' = IdleShelf
    /\ UNCHANGED <<slots, autos, markers, shelfClock>>

Revoke(v) ==
    /\ slots[v] # None /\ markers[v] = None
    /\ markers' = [markers EXCEPT ![v] = createListingRevocation(slots[v], Seller)]
    /\ UNCHANGED <<slots, autos, publisher, rows, shelfClock>>

ShelfTick ==
    /\ shelfClock < ShelfHorizon
    /\ shelfClock' = shelfClock + 1
    /\ UNCHANGED <<slots, autos, markers, publisher, rows>>

ShelfNext ==
    \/ Republish \/ ReadSlot \/ AnchorListing \/ withAutoAccept \/ ReadBack
    \/ \E v \in Versions : Revoke(v)
    \/ ShelfTick
----------------------------------------------------------------------------
(* Properties.                                                             *)

\* A listing version, its auto-accept commitment and its revocation never
\* change once anchored, whatever is published again and whichever attempt
\* failed where: an agreement that cites the version keeps its meaning.
VersionIsImmutable ==
    [][\A v \in Versions : /\ slots[v] # None => slots'[v] = slots[v]
                           /\ autos[v] # None => autos'[v] = autos[v]
                           /\ markers[v] # None => markers'[v] = markers[v]]_shelfVars

\* A version reported as updated holds what a buyer accepts: the listing is
\* the seller's, and an auto-accept one has a commitment that binds exactly
\* this listing.
UpdatedIsComplete ==
    \A i \in 1 .. Len(rows) : rows[i].status = "updated" =>
        LET v == rows[i].version IN
        /\ slots[v] # None /\ verifyHash(slots[v].sig, "listing", listingHash(slots[v]))
        /\ slots[v].auto => autos[v] # None /\ verifyAutoAcceptCommitment(autos[v], slots[v], 0)
        /\ markers[v] # None => verifyListingRevocation(markers[v], slots[v])
============================================================================
