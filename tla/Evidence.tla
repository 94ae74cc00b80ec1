-------------------------------- MODULE Evidence --------------------------------
(***************************************************************************)
(* Conflict rows and the pictures that prove them: conflict_service.py,    *)
(* the upload endpoint of api/conflicts.py and the purge job.              *)
(*                                                                         *)
(* The conflict_strong event comes over MQTT, its picture over HTTP, each  *)
(* in a transaction of its own and in either order; both look the row up   *)
(* by source_event_id first and insert or update it when they flush.  The  *)
(* disk is no part of a transaction: a file is written before, and deleted *)
(* before, the commit that tells the table of it.                          *)
(*                                                                         *)
(* The uploader is not part of the repository: any client that posts       *)
(* pictures of the strong conflicts, repeatedly, with or without a plate.  *)
(***************************************************************************)
EXTENDS FiniteSets

CONSTANTS
  Strong, Weak,   \* source_event_ids: of the Pi, and the sweeper's uuid5
  Bays, BayOf,
  Uploaders       \* request workers

Events == Strong \cup Weak

ASSUME KindsDiffer == Strong \cap Weak = {}
ASSUME EventsTyped == BayOf \in [Events -> Bays]
ASSUME ThreadsDiffer == Uploaders \cap {"mqtt", "sweeper"} = {}

VARIABLES
  rows,     \* conflicts, by source_event_id
  files,    \* on disk: <source_event_id>.jpg
  old,      \* events whose picture is past its retention
  txn,      \* per thread, the transaction it is in
  purging,  \* rows the purge job has locked
  events,   \* recorded in bay_events, with the reservation found then
  answered, \* history: uploads answered with 201
  stuck     \* history: files that could not be deleted

vars == <<rows, files, old, txn, purging, events, answered, stuck>>

-----------------------------------------------------------------------------
NoRow == [plate |-> "no row", holder |-> "nobody", image |-> FALSE, open |-> FALSE]
Plates == {"none", "of the form", "of the event"}
Holders == {"nobody", "holder"}

\* image stands for evidence_image_url and image_purge_at, set and cleared
\* together.
Row(plate, holder, image) ==
  [plate |-> plate, holder |-> holder, image |-> image, open |-> TRUE]

Rows == [plate : Plates, holder : Holders, image : BOOLEAN, open : BOOLEAN]

Threads == Uploaders \cup {"mqtt", "sweeper"}
NoTxn   == [event |-> "none", plate |-> "none", found |-> FALSE]
Txns    == [event : Events, plate : Plates, found : BOOLEAN]

Idle(t) == txn[t] = NoTxn
Begins(t, e, plate) ==
  /\ Idle(t)
  /\ txn' = [txn EXCEPT ![t] = [event |-> e, plate |-> plate, found |-> rows[e] # NoRow]]
Ends(t) == txn' = [txn EXCEPT ![t] = NoTxn]

InHand(e) == \E t \in Threads : txn[t].event = e

\* conflicts_source_event_unique and conflicts_one_open_per_bay.
Insertable(e) ==
  /\ rows[e] = NoRow
  /\ \A f \in Events : BayOf[f] = BayOf[e] => ~ rows[f].open

-----------------------------------------------------------------------------
Init ==
  /\ rows = [e \in Events |-> NoRow]
  /\ files = {} /\ old = {}
  /\ txn = [t \in Threads |-> NoTxn]
  /\ purging = {}
  /\ events = [e \in Events |-> "no event"]
  /\ answered = {} /\ stuck = {}

-----------------------------------------------------------------------------
\* The handlers of conflict_strong and conflict_weak: an id that is in
\* bay_events is not looked at again, one whose transaction failed may be.
EventBegins(t, e) ==
  /\ t = (IF e \in Strong THEN "mqtt" ELSE "sweeper")
  /\ e \notin old
  /\ events[e] = "no event"
  /\ Begins(t, e, IF e \in Strong THEN "of the event" ELSE "none")
  /\ UNCHANGED <<rows, files, old, purging, events, answered, stuck>>

UpsertAnew(t, e, plate, holder) ==   \* slip: the row is written as if it were new
  /\ txn[t].found \/ Insertable(e)
  /\ rows' = [rows EXCEPT ![e] = Row(plate, holder, FALSE)]

\* upsert_strong and upsert_weak.  A weak row is never found: nothing else
\* is keyed by the sweeper's ids.
Upsert(t, e, plate, holder) ==
  IF txn[t].found
    THEN rows' = [rows EXCEPT ![e].plate = plate,
                              ![e].holder = IF @ = "nobody" THEN holder ELSE @]
    ELSE Insertable(e) /\ rows' = [rows EXCEPT ![e] = Row(plate, holder, FALSE)]

EventEnds(t, holder) ==
  LET e == txn[t].event IN
  /\ t \in {"mqtt", "sweeper"} /\ ~ Idle(t)
  /\ Upsert(t, e, txn[t].plate, holder)
  /\ events' = [events EXCEPT ![e] = holder]
  /\ Ends(t)
  /\ UNCHANGED <<files, old, purging, answered, stuck>>

-----------------------------------------------------------------------------
\* attach_evidence_image writes the file, whatever will become of the rest.
UploadBegins(t, e, plate) ==
  /\ t \in Uploaders
  /\ e \in Strong \ old
  /\ Begins(t, e, plate)
  /\ files' = files \cup {e}
  /\ UNCHANGED <<rows, old, purging, events, answered, stuck>>

AttachWithPlate(t, e, plate) ==   \* slip: the form's plate replaces the event's
  IF txn[t].found
    THEN rows' = [rows EXCEPT ![e].image = TRUE, ![e].plate = plate]
    ELSE /\ plate # "none"
         /\ Insertable(e)
         /\ rows' = [rows EXCEPT ![e] = Row(plate, "nobody", TRUE)]

AttachWithoutPlate(t, e, plate) ==   \* slip: a placeholder may lack its plate
  IF txn[t].found
    THEN rows' = [rows EXCEPT ![e].image = TRUE]
    ELSE Insertable(e) /\ rows' = [rows EXCEPT ![e] = Row(plate, "nobody", TRUE)]

\* A picture that comes first makes a placeholder row, open like any other.
Attach(t, e, plate) ==
  IF txn[t].found
    THEN rows' = [rows EXCEPT ![e].image = TRUE, ![e].plate = IF @ = "none" THEN plate ELSE @]
    ELSE /\ plate # "none"
         /\ Insertable(e)
         /\ rows' = [rows EXCEPT ![e] = Row(plate, "nobody", TRUE)]

UploadEnds(t) ==
  LET e == txn[t].event IN
  /\ t \in Uploaders /\ ~ Idle(t)
  /\ Attach(t, e, txn[t].plate)
  /\ answered' = answered \cup {e}
  /\ Ends(t)
  /\ UNCHANGED <<files, old, purging, events, stuck>>

\* Refused for want of a plate or by an index: everything but the file is
\* rolled back.
Fails(t) ==
  /\ ~ Idle(t)
  /\ ~ txn[t].found
  /\ Insertable(txn[t].event) => t \in Uploaders /\ txn[t].plate = "none"
  /\ Ends(t)
  /\ UNCHANGED <<rows, files, old, purging, events, answered, stuck>>

-----------------------------------------------------------------------------
\* resolve: by an admin, a cancellation, a check-in, or the vehicle's leaving.
Resolve(e) ==
  /\ rows[e].open
  /\ e \notin purging
  /\ rows' = [rows EXCEPT ![e].open = FALSE]
  /\ UNCHANGED <<files, old, txn, purging, events, answered, stuck>>

-----------------------------------------------------------------------------
(***************************************************************************)
(* purge_expired_evidence: select and lock the expired rows, delete their  *)
(* files, commit.  A file that cannot be deleted is logged, and its row    *)
(* forgets it all the same.                                                *)
(***************************************************************************)
ExpiredAndClosed == {e \in old : rows[e].image /\ ~ rows[e].open}   \* slip

Expired == {e \in old : rows[e].image}

PurgeBegins ==
  /\ purging = {} /\ Expired # {}
  /\ purging' = Expired
  /\ \E kept \in SUBSET (Expired \cap files) :
       /\ files' = files \ (Expired \ kept)
       /\ stuck' = stuck \cup kept
  /\ UNCHANGED <<rows, old, txn, events, answered>>

PurgeEnds ==
  /\ purging # {}
  /\ rows' = [e \in Events |->
                IF e \in purging THEN [rows[e] EXCEPT !.image = FALSE] ELSE rows[e]]
  /\ purging' = {}
  /\ UNCHANGED <<files, old, txn, events, answered, stuck>>

-----------------------------------------------------------------------------
\* The process dies: the database rolls back, the disk does not.
Crash ==
  /\ purging # {} \/ \E t \in Threads : ~ Idle(t)
  /\ txn' = [t \in Threads |-> NoTxn]
  /\ purging' = {}
  /\ UNCHANGED <<rows, files, old, events, answered, stuck>>

\* Thirty days pass; no message or transaction takes that long.
RetentionEnds(e) ==
  /\ e \notin old /\ ~ InHand(e)
  /\ old' = old \cup {e}
  /\ UNCHANGED <<rows, files, txn, purging, events, answered, stuck>>

-----------------------------------------------------------------------------
Next ==
  \/ \E t \in Threads, e \in Events :
       \/ EventBegins(t, e)
       \/ \E plate \in {"none", "of the form"} : UploadBegins(t, e, plate)
  \/ \E t \in Threads :
       \/ \E holder \in Holders : EventEnds(t, holder)
       \/ UploadEnds(t)
       \/ Fails(t)
  \/ \E e \in Events : Resolve(e) \/ RetentionEnds(e)
  \/ PurgeBegins \/ PurgeEnds
  \/ Crash

\* The scheduler keeps running the job.
FairSpec == Init /\ [][Next]_vars /\ WF_vars(PurgeBegins) /\ WF_vars(PurgeEnds)
Spec     == Init /\ [][Next]_vars

-----------------------------------------------------------------------------
(***************************************************************************)
(* Properties                                                              *)
(***************************************************************************)

\* The columns' types, and conflicts_evidence_matches_kind: the code never makes
\* a row that the table would refuse.
EvidenceMatchesKind(e) ==
  rows[e] # NoRow =>
    IF e \in Strong THEN rows[e].plate # "none"
                    ELSE rows[e].plate = "none" /\ ~ rows[e].image

TypeOK ==
  /\ rows \in [Events -> Rows \cup {NoRow}]
  /\ \A e \in Events : EvidenceMatchesKind(e)
  /\ files \subseteq Events /\ old \subseteq Events
  /\ txn \in [Threads -> Txns \cup {NoTxn}]
  /\ purging \subseteq Events
  /\ events \in [Events -> Holders \cup {"no event"}]
  /\ answered \subseteq Events /\ stuck \subseteq Events

\* conflict_service.py:10: picture and event "may arrive in either order".  A
\* picture that was accepted is on disk and its row names it until its time is
\* over, whichever event, second upload, failed transaction, resolution, purge
\* of another row or crash comes before or after.
AcceptedImageIsKept ==
  \A e \in answered \ old : rows[e].image /\ e \in files

\* And an event that was accepted has its own plate, and the holder it found, in
\* its row, whether a placeholder was there before or a picture came after.
EventIsRecorded ==
  \A e \in Events : events[e] # "no event" =>
    /\ rows[e] # NoRow
    /\ rows[e].plate = IF e \in Strong THEN "of the event" ELSE "none"
    /\ rows[e].holder = events[e]

\* purge_evidence_images.py:3: a picture that a row names is deleted in the end,
\* crashes of the job between the disk and the table included, unless the
\* operating system refuses to delete it.
NamedImageIsPurged ==
  \A e \in Events :
    e \in old /\ rows[e].image ~> e \notin files \/ e \in stuck

=============================================================================
