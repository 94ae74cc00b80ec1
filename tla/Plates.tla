--------------------------------- MODULE Plates ---------------------------------
(***************************************************************************)
(* The plates of one user on their way to the Pi: plate_service.py, the    *)
(* cap trigger of licence_plate.py, and what reservation_service.create    *)
(* does with the list.  Request workers run READ COMMITTED transactions:   *)
(* each statement sees what is committed and what its own wrote.           *)
(***************************************************************************)
EXTENDS Naturals, FiniteSets

CONSTANTS
  PlateStrings,
  MaxPlates,   \* the limit of the trigger
  Workers

VARIABLES
  plates,     \* licence_plates, committed
  work,       \* per worker: the request it serves and how far it is
  reserved,   \* the user has an open reservation, committed
  cached,     \* the Pi has the reservation
  bound       \* bound_plates on the Pi

vars == <<plates, work, reserved, cached, bound>>

-----------------------------------------------------------------------------
NoWork == [op |-> "none", plate |-> "none", list |-> {}, done |-> "none"]
Does(w, op, plate, list, done) ==
  work' = [work EXCEPT ![w] = [op |-> op, plate |-> plate, list |-> list, done |-> done]]

Idle(w) == work[w] = NoWork
At(w, op, done) == work[w].op = op /\ work[w].done = done
Rest(w) == work' = [work EXCEPT ![w] = NoWork]

\* A row that another transaction has written is waited for.
Locked(p) == \E w \in Workers : work[w].plate = p

\* What a statement of w sees.
Visible(w) ==
  CASE work[w].op = "add"    -> plates \cup {work[w].plate}
    [] work[w].op = "remove" -> plates \ {work[w].plate}
    [] OTHER -> plates

Init ==
  /\ \E first \in SUBSET PlateStrings : Cardinality(first) = 1 /\ plates = first
  /\ work = [w \in Workers |-> NoWork]
  /\ reserved = FALSE /\ cached = FALSE /\ bound = {}

-----------------------------------------------------------------------------
\* add: the flush runs into licence_plates_max_per_user_tg or the unique
\* constraint, or the row is there, uncommitted.
Add(w, p) ==
  /\ Idle(w) /\ ~ Locked(p)
  /\ p \notin plates
  /\ Cardinality(plates) < MaxPlates
  /\ Does(w, "add", p, {}, "flushed")
  /\ UNCHANGED <<plates, reserved, cached, bound>>

Remove(w, p) ==
  /\ Idle(w) /\ ~ Locked(p)
  /\ p \in plates
  /\ Does(w, "remove", p, {}, "flushed")
  /\ UNCHANGED <<plates, reserved, cached, bound>>

\* _publish_plate_update, before the commit: to the Pi of an open reservation,
\* which takes it only if it knows that reservation.
PublishUpdate(w) ==
  /\ At(w, "add", "flushed") \/ At(w, "remove", "flushed")
  /\ Does(w, work[w].op, work[w].plate, {}, "published")
  /\ bound' = IF reserved /\ cached THEN Visible(w) ELSE bound
  /\ UNCHANGED <<plates, reserved, cached>>

CommitPlates(w) ==
  /\ At(w, "add", "published") \/ At(w, "remove", "published")
  /\ plates' = Visible(w)
  /\ Rest(w)
  /\ UNCHANGED <<reserved, cached, bound>>

-----------------------------------------------------------------------------
\* create: reads the list first, commits, and publishes what it has read.
CreateReads(w) ==
  /\ Idle(w) /\ ~ reserved
  /\ plates # {}
  /\ Does(w, "create", "none", plates, "read")
  /\ UNCHANGED <<plates, reserved, cached, bound>>

CreateCommits(w) ==
  /\ At(w, "create", "read") /\ ~ reserved
  /\ reserved' = TRUE
  /\ Does(w, "create", "none", work[w].list, "committed")
  /\ UNCHANGED <<plates, cached, bound>>

CreateFails(w) ==
  /\ At(w, "create", "read") /\ reserved
  /\ Rest(w)
  /\ UNCHANGED <<plates, reserved, cached, bound>>

CreatePublishes(w) ==
  /\ At(w, "create", "committed")
  /\ cached' = TRUE /\ bound' = work[w].list
  /\ Rest(w)
  /\ UNCHANGED <<plates, reserved>>

-----------------------------------------------------------------------------
Next ==
  \E w \in Workers :
    \/ \E p \in PlateStrings : Add(w, p) \/ Remove(w, p)
    \/ PublishUpdate(w) \/ CommitPlates(w)
    \/ CreateReads(w) \/ CreateCommits(w) \/ CreateFails(w) \/ CreatePublishes(w)

Spec == Init /\ [][Next]_vars

-----------------------------------------------------------------------------
(***************************************************************************)
(* What the repository says of the program and the program does not do.    *)
(***************************************************************************)

\* mqtt_publisher.py:3: every command carries the "*current* bound-plate list so
\* the Pi's LPR matcher always has the freshest set".  So when no request is
\* being served, the Pi of a reservation matches against the user's plates.
PiHasFreshestSet ==
  (\A w \in Workers : Idle(w)) /\ cached => bound = plates

=============================================================================
