---------------------------- MODULE EvidenceProofs ----------------------------
(***************************************************************************)
(* What Evidence.tla says of rows, files and transactions, for any number  *)
(* of conflicts, bays and uploads at once.                                 *)
(***************************************************************************)
EXTENDS Evidence, TLAPS

Accounts(e) ==
  /\ rows[e] \in Rows \cup {NoRow}
  /\ events[e] \in Holders \cup {"no event"}
  /\ EvidenceMatchesKind(e)
  /\ events[e] # "no event" =>
       /\ rows[e] # NoRow
       /\ rows[e].plate = IF e \in Strong THEN "of the event" ELSE "none"
       /\ rows[e].holder = events[e]
  /\ events[e] = "no event" =>
       /\ rows[e] # NoRow => e \in Strong
       /\ rows[e].holder = "nobody"
  /\ e \in answered \ old => rows[e].image /\ e \in files

\* What a transaction has found, and who is in it for what.
InOrder(t) ==
  LET e == txn[t].event IN
  ~ Idle(t) =>
    /\ e \in Events \ old
    /\ txn[t].found \in BOOLEAN
    /\ txn[t].found => rows[e] # NoRow
    /\ t = "mqtt"    => e \in Strong /\ txn[t].plate = "of the event" /\ events[e] = "no event"
    /\ t = "sweeper" => e \in Weak /\ txn[t].plate = "none" /\ events[e] = "no event"
    /\ t \in Uploaders => e \in Strong \cap files /\ txn[t].plate \in {"none", "of the form"}

Shapes ==
  /\ rows = [e \in Events |-> rows[e]] /\ events = [e \in Events |-> events[e]]
  /\ files \subseteq Events /\ old \subseteq Events /\ purging \subseteq old
  /\ txn \in [Threads -> Txns \cup {NoTxn}]
  /\ answered \subseteq Events /\ stuck \subseteq Events

Invariant ==
  /\ Shapes
  /\ \A e \in Events : Accounts(e)
  /\ \A t \in Threads : InOrder(t)

-----------------------------------------------------------------------------
LEMMA NoRowIsNoRow ==
  /\ NoRow \notin Rows
  /\ NoRow.holder = "nobody" /\ NoRow.image = FALSE /\ NoRow.open = FALSE
  BY DEF NoRow, Rows, Plates

LEMMA InvariantTypes == Invariant => TypeOK
  <1> SUFFICES ASSUME Invariant PROVE TypeOK
    OBVIOUS
  <1>1. rows \in [Events -> Rows \cup {NoRow}]
    BY DEF Invariant, Shapes, Accounts
  <1>2. events \in [Events -> Holders \cup {"no event"}]
    BY DEF Invariant, Shapes, Accounts
  <1> QED BY <1>1, <1>2 DEF Invariant, Shapes, Accounts, TypeOK

LEMMA InvariantHoldsAtFirst == Init => Invariant
  <1> SUFFICES ASSUME Init PROVE Invariant
    OBVIOUS
  <1>1. \A e \in Events : Accounts(e)
    BY NoRowIsNoRow DEF Init, Accounts, EvidenceMatchesKind
  <1>2. \A t \in Threads : InOrder(t)
    BY DEF Init, InOrder, Idle
  <1>3. Shapes
    BY DEF Init, Shapes
  <1> QED BY <1>1, <1>2, <1>3 DEF Invariant

-----------------------------------------------------------------------------
\* What a step does not touch stays in order.
LEMMA UntouchedEvent ==
  ASSUME NEW e \in Events, Accounts(e),
         UNCHANGED <<rows[e], events[e]>>,
         e \in answered' \ old' => e \in answered \ old,
         e \in files /\ e \notin old' => e \in files'
  PROVE  Accounts(e)'
  BY DEF Accounts, EvidenceMatchesKind

LEMMA UntouchedTxn ==
  ASSUME NEW t \in Threads, InOrder(t),
         UNCHANGED txn[t],
         ~ Idle(t) => LET e == txn[t].event IN
           /\ rows[e] # NoRow => rows'[e] # NoRow
           /\ t \in {"mqtt", "sweeper"} => events'[e] = events[e]
           /\ e \notin old'
           /\ e \in files => e \in files'
  PROVE  InOrder(t)'
  BY ThreadsDiffer DEF InOrder, Idle, Threads

LEMMA BeginKeeps ==
  ASSUME Invariant, NEW t \in Threads, NEW e \in Events, NEW plate,
         \/ EventBegins(t, e)
         \/ UploadBegins(t, e, plate) /\ plate \in {"none", "of the form"}
  PROVE  Invariant'
  <1>1. PICK p \in Plates :
          /\ Begins(t, e, p)
          /\ t = "mqtt" => p = "of the event" /\ e \in Strong /\ events[e] = "no event"
          /\ t = "sweeper" => p = "none" /\ e \in Weak /\ events[e] = "no event"
          /\ t \in Uploaders => /\ p \in {"none", "of the form"}
                                /\ e \in Strong \cap files'
    BY ThreadsDiffer, KindsDiffer DEF EventBegins, UploadBegins, Plates, Events
  <1>2. /\ e \notin old /\ UNCHANGED <<rows, old, purging, events, answered, stuck>>
        /\ files \subseteq files' /\ files' \subseteq Events
    BY DEF EventBegins, UploadBegins, Invariant, Shapes
  <1> DEFINE x == [event |-> e, plate |-> p, found |-> rows[e] # NoRow]
  <1>3. /\ x \in Txns /\ x.event = e /\ x.plate = p /\ x.found = (rows[e] # NoRow)
    BY DEF Txns
  <1>4. txn' = [txn EXCEPT ![t] = x]
    BY <1>1 DEF Begins
  <1> HIDE DEF x
  <1>5. Shapes'
    BY <1>2, <1>3, <1>4 DEF Invariant, Shapes
  <1>6. \A f \in Events : Accounts(f)'
    BY <1>2, UntouchedEvent DEF Invariant
  <1>7. ASSUME NEW u \in Threads PROVE InOrder(u)'
    <2>1. CASE u = t
      BY <1>1, <1>2, <1>3, <1>4, <2>1 DEF Invariant, Shapes, InOrder, Idle
    <2>2. CASE u # t
      BY <1>2, <1>4, <2>2, UntouchedTxn DEF Invariant, Shapes, InOrder
    <2> QED BY <2>1, <2>2
  <1> QED BY <1>5, <1>6, <1>7 DEF Invariant

\* A transaction that ends has nothing to be in order about.
LEMMA EndedTxn ==
  ASSUME Invariant, NEW t \in Threads, Ends(t)
  PROVE  /\ InOrder(t)'
         /\ \A u \in Threads \ {t} : txn'[u] = txn[u]
         /\ txn' \in [Threads -> Txns \cup {NoTxn}]
  BY DEF Invariant, Shapes, Ends, InOrder, Idle

LEMMA EventEndKeeps ==
  ASSUME Invariant, NEW t \in Threads, NEW holder \in Holders, EventEnds(t, holder)
  PROVE  Invariant'
  <1>0. PICK e, p : e = txn[t].event /\ p = txn[t].plate
    OBVIOUS
  <1>1. /\ e \in Events \ old /\ InOrder(t) /\ Accounts(e)
        /\ events[e] = "no event"
        /\ \/ t = "mqtt" /\ e \in Strong /\ p = "of the event"
           \/ t = "sweeper" /\ e \in Weak /\ p = "none"
        /\ txn[t].found \in BOOLEAN /\ (txn[t].found => rows[e] # NoRow)
    BY <1>0 DEF EventEnds, Invariant, InOrder
  <1>2. /\ events' = [events EXCEPT ![e] = holder]
        /\ UNCHANGED <<files, old, purging, answered, stuck>>
    BY <1>0 DEF EventEnds
  <1>3. \E row \in Rows :
          /\ rows' = [rows EXCEPT ![e] = row]
          /\ row.plate = p /\ row.holder = holder
          /\ row.image = rows[e].image
    <2>1. CASE txn[t].found
      <3> DEFINE row == [rows[e] EXCEPT !.plate = p,
                                        !.holder = IF @ = "nobody" THEN holder ELSE @]
      <3>1. rows[e] \in Rows /\ rows[e].holder = "nobody"
        BY <1>1, <2>1 DEF Accounts
      <3>2. row \in Rows /\ row.plate = p /\ row.holder = holder /\ row.image = rows[e].image
        BY <1>1, <3>1 DEF Rows, Plates
      <3>3. rows' = [rows EXCEPT ![e] = row]
        BY <1>0, <2>1 DEF EventEnds, Upsert
      <3> QED BY <3>2, <3>3
    <2>2. CASE ~ txn[t].found
      <3> DEFINE row == Row(p, holder, FALSE)
      <3>1. row \in Rows /\ row.plate = p /\ row.holder = holder /\ row.image = FALSE
        BY <1>1 DEF Row, Rows, Plates
      <3>2. rows' = [rows EXCEPT ![e] = row] /\ rows[e] = NoRow
        BY <1>0, <2>2 DEF EventEnds, Upsert, Insertable
      <3> QED BY <3>1, <3>2, NoRowIsNoRow
    <2> QED BY <1>1, <2>1, <2>2
  <1>4. PICK row \in Rows :
          /\ rows' = [rows EXCEPT ![e] = row]
          /\ row.plate = p /\ row.holder = holder /\ row.image = rows[e].image
    BY <1>3
  <1>5. /\ rows'[e] = row /\ row # NoRow /\ events'[e] = holder /\ holder # "no event"
        /\ \A f \in Events \ {e} : rows'[f] = rows[f] /\ events'[f] = events[f]
    BY <1>1, <1>2, <1>4, NoRowIsNoRow DEF Invariant, Shapes, Holders
  <1>6. /\ InOrder(t)' /\ \A u \in Threads \ {t} : txn'[u] = txn[u]
        /\ txn' \in [Threads -> Txns \cup {NoTxn}]
    BY EndedTxn DEF EventEnds
  <1>7. Accounts(e)'
    <2>1. e \in Weak => ~ row.image
      <3>1. e \in Weak => rows[e] = NoRow
        BY <1>1, KindsDiffer DEF Accounts
      <3> QED BY <1>4, <3>1, NoRowIsNoRow
    <2> QED BY <1>1, <1>2, <1>4, <1>5, <2>1, KindsDiffer DEF Accounts, EvidenceMatchesKind
  <1>8. ASSUME NEW f \in Events \ {e} PROVE Accounts(f)'
    BY <1>2, <1>5, <1>8, UntouchedEvent DEF Invariant
  <1>9. ASSUME NEW u \in Threads \ {t} PROVE InOrder(u)'
    <2>1. u \in {"mqtt", "sweeper"} /\ ~ Idle(u) => txn[u].event # e
      BY <1>1, <1>9, KindsDiffer DEF Invariant, InOrder
    <2>2. ~ Idle(u) => txn[u].event \in Events \ old
      BY DEF Invariant, InOrder
    <2> QED BY <1>2, <1>5, <1>6, <1>9, <2>1, <2>2, UntouchedTxn DEF Invariant
  <1>10. Shapes'
    BY <1>2, <1>4, <1>6 DEF Invariant, Shapes
  <1> QED BY <1>6, <1>7, <1>8, <1>9, <1>10 DEF Invariant

LEMMA UploadEndKeeps ==
  ASSUME Invariant, NEW t \in Threads, UploadEnds(t)
  PROVE  Invariant'
  <1>0. PICK e, p : e = txn[t].event /\ p = txn[t].plate
    OBVIOUS
  <1>1. /\ e \in Strong \cap files /\ e \in Events \ old /\ Accounts(e)
        /\ p \in {"none", "of the form"}
        /\ txn[t].found \in BOOLEAN /\ (txn[t].found => rows[e] # NoRow)
    BY <1>0 DEF UploadEnds, Invariant, InOrder
  <1>2. /\ answered' = answered \cup {e}
        /\ UNCHANGED <<files, old, purging, events, stuck>>
    BY <1>0 DEF UploadEnds
  <1>3. \E row \in Rows :
          /\ rows' = [rows EXCEPT ![e] = row]
          /\ row.image /\ row.plate # "none" /\ row.holder = rows[e].holder
          /\ events[e] # "no event" => row.plate = rows[e].plate
    <2>1. CASE txn[t].found
      <3> DEFINE row == [rows[e] EXCEPT !.image = TRUE, !.plate = IF @ = "none" THEN p ELSE @]
      <3>1. rows[e] \in Rows /\ rows[e].plate # "none"
        BY <1>1, <2>1 DEF Accounts, EvidenceMatchesKind
      <3>2. row \in Rows /\ row.image /\ row.plate = rows[e].plate /\ row.holder = rows[e].holder
        BY <3>1 DEF Rows
      <3>3. rows' = [rows EXCEPT ![e] = row]
        BY <1>0, <2>1 DEF UploadEnds, Attach
      <3> QED BY <3>1, <3>2, <3>3
    <2>2. CASE ~ txn[t].found
      <3> DEFINE row == Row(p, "nobody", TRUE)
      <3>1. rows' = [rows EXCEPT ![e] = row] /\ rows[e] = NoRow /\ p # "none"
        BY <1>0, <2>2 DEF UploadEnds, Attach, Insertable
      <3>2. row \in Rows /\ row.image /\ row.plate = p /\ row.holder = "nobody"
        BY <1>1, <3>1 DEF Row, Rows, Plates, Holders
      <3>3. events[e] = "no event"
        BY <1>1, <3>1 DEF Accounts
      <3> QED BY <3>1, <3>2, <3>3, NoRowIsNoRow
    <2> QED BY <1>1, <2>1, <2>2
  <1>4. PICK row \in Rows :
          /\ rows' = [rows EXCEPT ![e] = row]
          /\ row.image /\ row.plate # "none" /\ row.holder = rows[e].holder
          /\ events[e] # "no event" => row.plate = rows[e].plate
    BY <1>3
  <1>5. /\ rows'[e] = row /\ row # NoRow
        /\ \A f \in Events \ {e} : rows'[f] = rows[f]
    BY <1>1, <1>4, NoRowIsNoRow DEF Invariant, Shapes
  <1>6. /\ InOrder(t)' /\ \A u \in Threads \ {t} : txn'[u] = txn[u]
        /\ txn' \in [Threads -> Txns \cup {NoTxn}]
    BY EndedTxn DEF UploadEnds
  <1>7. Accounts(e)'
    <2>1. EvidenceMatchesKind(e)'
      BY <1>1, <1>4, <1>5 DEF EvidenceMatchesKind
    <2>2. /\ rows'[e] \in Rows /\ rows'[e].image
          /\ rows'[e].holder = rows[e].holder
          /\ events[e] # "no event" => rows'[e].plate = rows[e].plate
      BY <1>4, <1>5
    <2>3. events'[e] = events[e] /\ e \in files'
      BY <1>1, <1>2
    <2> QED BY <1>1, <1>5, <2>1, <2>2, <2>3 DEF Accounts
  <1>8. ASSUME NEW f \in Events \ {e} PROVE Accounts(f)'
    BY <1>2, <1>5, <1>8, UntouchedEvent DEF Invariant
  <1>9. ASSUME NEW u \in Threads \ {t} PROVE InOrder(u)'
    <2>1. ~ Idle(u) => txn[u].event \in Events \ old
      BY DEF Invariant, InOrder
    <2> QED BY <1>2, <1>5, <1>6, <1>9, <2>1, UntouchedTxn DEF Invariant
  <1>10. Shapes'
    BY <1>1, <1>2, <1>4, <1>6 DEF Invariant, Shapes
  <1> QED BY <1>6, <1>7, <1>8, <1>9, <1>10 DEF Invariant

LEMMA FailKeeps ==
  ASSUME Invariant, NEW t \in Threads, Fails(t)
  PROVE  Invariant'
  <1>1. /\ InOrder(t)' /\ \A u \in Threads \ {t} : txn'[u] = txn[u]
        /\ txn' \in [Threads -> Txns \cup {NoTxn}]
    BY EndedTxn DEF Fails
  <1>2. UNCHANGED <<rows, files, old, purging, events, answered, stuck>>
    BY DEF Fails
  <1>3. \A f \in Events : Accounts(f)'
    BY <1>2, UntouchedEvent DEF Invariant
  <1>4. \A u \in Threads \ {t} : InOrder(u)'
    BY <1>1, <1>2, UntouchedTxn DEF Invariant, InOrder
  <1>5. Shapes'
    BY <1>1, <1>2 DEF Invariant, Shapes
  <1> QED BY <1>1, <1>3, <1>4, <1>5 DEF Invariant

LEMMA ResolveKeeps ==
  ASSUME Invariant, NEW e \in Events, Resolve(e)
  PROVE  Invariant'
  <1> DEFINE row == [rows[e] EXCEPT !.open = FALSE]
  <1>1. rows[e] \in Rows /\ Accounts(e)
    BY NoRowIsNoRow DEF Resolve, Invariant, Accounts
  <1>2. /\ row \in Rows /\ row.plate = rows[e].plate
        /\ row.holder = rows[e].holder /\ row.image = rows[e].image
    BY <1>1 DEF Rows
  <1>3. /\ rows' = [rows EXCEPT ![e] = row]
        /\ UNCHANGED <<files, old, txn, purging, events, answered, stuck>>
    BY DEF Resolve
  <1> HIDE DEF row
  <1>4. /\ rows'[e] = row /\ row # NoRow /\ rows[e] # NoRow
        /\ \A f \in Events \ {e} : rows'[f] = rows[f]
    BY <1>1, <1>2, <1>3, NoRowIsNoRow DEF Invariant, Shapes
  <1>5. Accounts(e)'
    BY <1>1, <1>2, <1>3, <1>4 DEF Accounts, EvidenceMatchesKind
  <1>6. \A f \in Events \ {e} : Accounts(f)'
    BY <1>3, <1>4, UntouchedEvent DEF Invariant
  <1>7. \A u \in Threads : InOrder(u)'
    BY <1>3, <1>4, UntouchedTxn DEF Invariant, InOrder
  <1>8. Shapes'
    BY <1>3 DEF Invariant, Shapes
  <1> QED BY <1>5, <1>6, <1>7, <1>8 DEF Invariant

-----------------------------------------------------------------------------
\* The job deletes files of old events only, and nobody is in hand of one.
LEMMA PurgeBeginKeeps ==
  ASSUME Invariant, PurgeBegins
  PROVE  Invariant'
  <1>1. /\ purging' \subseteq old /\ files' \subseteq files /\ files \ old \subseteq files'
        /\ stuck' \subseteq Events
        /\ UNCHANGED <<rows, old, txn, events, answered>>
    BY DEF PurgeBegins, Expired, Invariant, Shapes
  <1>2. \A f \in Events : Accounts(f)'
    BY <1>1, UntouchedEvent DEF Invariant
  <1>3. \A u \in Threads : InOrder(u)'
    BY <1>1, UntouchedTxn DEF Invariant, InOrder
  <1>4. Shapes'
    BY <1>1 DEF Invariant, Shapes
  <1> QED BY <1>2, <1>3, <1>4 DEF Invariant

LEMMA PurgeEndKeeps ==
  ASSUME Invariant, PurgeEnds
  PROVE  Invariant'
  <1>1. /\ rows' = [e \in Events |->
                      IF e \in purging THEN [rows[e] EXCEPT !.image = FALSE] ELSE rows[e]]
        /\ purging' = {} /\ UNCHANGED <<files, old, txn, events, answered, stuck>>
    BY DEF PurgeEnds
  <1>2. ASSUME NEW e \in Events
        PROVE  /\ rows'[e] \in Rows \cup {NoRow}
               /\ rows'[e] = NoRow <=> rows[e] = NoRow
               /\ rows'[e].plate = rows[e].plate /\ rows'[e].holder = rows[e].holder
               /\ rows'[e].image => rows[e].image
               /\ e \notin old => rows'[e] = rows[e]
    <2>1. CASE e \in purging
      <3> DEFINE row == [rows[e] EXCEPT !.image = FALSE]
      <3>1. rows'[e] = row /\ e \in old
        BY <1>1, <2>1 DEF Invariant, Shapes
      <3>2. CASE rows[e] \in Rows
        <4>1. /\ row \in Rows /\ row.plate = rows[e].plate
              /\ row.holder = rows[e].holder /\ ~ row.image
          BY <3>2 DEF Rows
        <4> HIDE DEF row
        <4> QED BY <3>1, <3>2, <4>1, NoRowIsNoRow
      <3>3. CASE rows[e] = NoRow
        <4>1. [NoRow EXCEPT !.image = FALSE] = NoRow
          <5> DEFINE S == [plate : {"no row"}, holder : Holders, image : BOOLEAN, open : BOOLEAN]
          <5>1. \A x \in S : ~ x.image => [x EXCEPT !.image = FALSE] = x
            OBVIOUS
          <5>2. NoRow \in S /\ ~ NoRow.image
            BY DEF NoRow, Holders
          <5> HIDE DEF S
          <5> QED BY <5>1, <5>2
        <4> QED BY <3>1, <3>3, <4>1
      <3> QED BY <3>2, <3>3 DEF Invariant, Accounts
    <2>2. CASE e \notin purging
      BY <1>1, <2>2 DEF Invariant, Accounts
    <2> QED BY <2>1, <2>2
  <1>3. ASSUME NEW e \in Events PROVE Accounts(e)'
    <2>1. EvidenceMatchesKind(e)'
      BY <1>2 DEF Invariant, Accounts, EvidenceMatchesKind
    <2>2. Accounts(e)
      BY DEF Invariant
    <2> QED BY <1>1, <1>2, <2>1, <2>2 DEF Accounts
  <1>4. \A u \in Threads : InOrder(u)'
    BY <1>1, <1>2, UntouchedTxn DEF Invariant, InOrder
  <1>5. Shapes'
    BY <1>1 DEF Invariant, Shapes
  <1> QED BY <1>3, <1>4, <1>5 DEF Invariant

LEMMA CrashKeeps ==
  ASSUME Invariant, Crash
  PROVE  Invariant'
  <1>1. /\ UNCHANGED <<rows, files, old, events, answered, stuck>>
        /\ purging' = {} /\ txn' = [t \in Threads |-> NoTxn]
    BY DEF Crash
  <1>2. \A f \in Events : Accounts(f)'
    BY <1>1, UntouchedEvent DEF Invariant
  <1>3. \A u \in Threads : InOrder(u)'
    BY <1>1 DEF InOrder, Idle
  <1>4. Shapes'
    BY <1>1 DEF Invariant, Shapes
  <1> QED BY <1>2, <1>3, <1>4 DEF Invariant

LEMMA RetentionEndKeeps ==
  ASSUME Invariant, NEW e \in Events, RetentionEnds(e)
  PROVE  Invariant'
  <1>1. /\ old' = old \cup {e} /\ \A t \in Threads : txn[t].event # e
        /\ UNCHANGED <<rows, files, txn, purging, events, answered, stuck>>
    BY DEF RetentionEnds, InHand
  <1>2. \A f \in Events : Accounts(f)'
    BY <1>1, UntouchedEvent DEF Invariant
  <1>3. \A u \in Threads : InOrder(u)'
    BY <1>1, UntouchedTxn DEF Invariant, InOrder
  <1>4. Shapes'
    BY <1>1 DEF Invariant, Shapes
  <1> QED BY <1>2, <1>3, <1>4 DEF Invariant

LEMMA InvariantHolds == Spec => []Invariant
  <1>1. Invariant /\ [Next]_vars => Invariant'
    <2> SUFFICES ASSUME Invariant, [Next]_vars PROVE Invariant'
      OBVIOUS
    <2>1. CASE \E t \in Threads, e \in Events :
                 \/ EventBegins(t, e)
                 \/ \E plate \in {"none", "of the form"} : UploadBegins(t, e, plate)
      BY <2>1, BeginKeeps
    <2>2. CASE \E t \in Threads :
                 \/ \E holder \in Holders : EventEnds(t, holder)
                 \/ UploadEnds(t)
                 \/ Fails(t)
      BY <2>2, EventEndKeeps, UploadEndKeeps, FailKeeps
    <2>3. CASE \E e \in Events : Resolve(e) \/ RetentionEnds(e)
      BY <2>3, ResolveKeeps, RetentionEndKeeps
    <2>4. CASE PurgeBegins \/ PurgeEnds \/ Crash
      BY <2>4, PurgeBeginKeeps, PurgeEndKeeps, CrashKeeps
    <2>5. CASE UNCHANGED vars
      <3>1. UNCHANGED <<rows, files, old, txn, purging, events, answered, stuck>>
        BY <2>5 DEF vars
      <3>2. \A f \in Events : Accounts(f)'
        BY <3>1, UntouchedEvent DEF Invariant
      <3>3. \A u \in Threads : InOrder(u)'
        BY <3>1, UntouchedTxn DEF Invariant, InOrder
      <3> QED BY <3>1, <3>2, <3>3 DEF Invariant, Shapes
    <2> QED BY <2>1, <2>2, <2>3, <2>4, <2>5 DEF Next
  <1> QED BY <1>1, InvariantHoldsAtFirst, PTL DEF Spec

-----------------------------------------------------------------------------
\* No order of event, upload, purge and crash makes a row that the table's
\* check on plate and picture would refuse.
THEOREM ConflictsTyped == Spec => []TypeOK
  BY InvariantHolds, InvariantTypes, PTL

\* A picture that was accepted stays on disk, named by its row, until its
\* retention is over.
THEOREM AcceptedIsKept == Spec => []AcceptedImageIsKept
  <1>1. Invariant => AcceptedImageIsKept
    BY DEF Invariant, Shapes, Accounts, AcceptedImageIsKept
  <1> QED BY <1>1, InvariantHolds, PTL

\* An event that was accepted has its plate and its holder in its row, whether
\* its picture came before or after.
THEOREM RecordedIsKept == Spec => []EventIsRecorded
  <1>1. Invariant => EventIsRecorded
    BY DEF Invariant, Accounts, EventIsRecorded
  <1> QED BY <1>1, InvariantHolds, PTL

=============================================================================
