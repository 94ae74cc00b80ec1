----------------------------- MODULE BayNodeProofs -----------------------------
(***************************************************************************)
(* Safety of the bay node for any debounce limit and any number of visits: *)
(* nothing is assumed of the readings, the LED commands, the camera, the   *)
(* network or the moments at which the node restarts.                      *)
(***************************************************************************)
EXTENDS BayNode, TLAPS

LEMMA NextCountBounded ==
  ASSUME NEW n \in 0..Limit
  PROVE  NextCount(n) \in 1..Limit
  BY LimitPositive DEF NextCount

LEMMA CountBounded ==
  ASSUME NEW n \in 0..Limit, NEW kind, NEW reading
  PROVE  Count(n, kind, reading) \in 0..Limit
  BY LimitPositive, NextCountBounded DEF Count

LEMMA StreakTyped ==
  ASSUME TypeOK, NEW reading \in Readings, Counted(reading)
  PROVE  /\ streak' \in [kind : Readings, length : 0..Limit]
         /\ streak'.kind = reading /\ streak'.length \in 1..Limit
  BY LimitPositive, NextCountBounded DEF TypeOK, Counted

LEMMA LampsOfTyped ==
  ASSUME NEW s \in LedStates
  PROVE  LampsOf(s) \subseteq {"green", "yellow", "red", "buzzer"}
  BY DEF LampsOf, LedStates

LEMMA AgesTyped ==
  ASSUME NEW dated PROVE Ages(dated) \subseteq {"queued", "stale"}
  BY DEF Ages

LEMMA UploadTyped ==
  ASSUME TypeOK, NEW v \in Visits, NEW file \in {"queued", "stale"}, Upload(v, file)
  PROVE  card' \in [Visits -> Files] /\ old' \subseteq Visits /\ delivered' \subseteq Visits
  BY DEF TypeOK, Upload, Files

LEMMA RestartTyped ==
  /\ 0 \in 0..Limit /\ 0 \in 0..MaxVisits
  /\ [kind |-> "between", length |-> 0] \in [kind : Readings, length : 0..Limit]
  /\ "available" \in LedStates /\ "idle" \in Captures
  BY LimitPositive DEF Readings, LedStates, Captures

\* A request lasts as long as the visit it belongs to: it is made at the arrival
\* and taken back at the departure.
RequestIsOfVisit == capture # "idle" => status = "occupied" /\ visit \in asked

\* The node's variables keep their types; in particular the counters never pass
\* the limit, so that a confirmation is never missed.
THEOREM TypeCorrect == Spec => [](TypeOK /\ RequestIsOfVisit)
  <1>1. Init => TypeOK /\ RequestIsOfVisit
    <2> SUFFICES ASSUME Init PROVE TypeOK /\ RequestIsOfVisit
      OBVIOUS
    <2>1. card \in [Visits -> Files]
      BY DEF Init, Files
    <2> QED BY <2>1, RestartTyped DEF Init, TypeOK, RequestIsOfVisit
  <1>2. TypeOK /\ RequestIsOfVisit /\ [Next]_vars => (TypeOK /\ RequestIsOfVisit)'
    <2> SUFFICES ASSUME TypeOK, RequestIsOfVisit, [Next]_vars
                 PROVE  TypeOK' /\ RequestIsOfVisit'
      OBVIOUS
    <2> USE DEF RequestIsOfVisit, filterVars, lampVars, pictureVars, visitVars, worldVars
    <2>1. ASSUME NEW reading \in Readings, Read(reading)
          PROVE  TypeOK' /\ RequestIsOfVisit'
      <3>1. CASE Arrival(reading)
        <4>1. streak' \in [kind : Readings, length : 0..Limit]
          BY <3>1, StreakTyped DEF Arrival
        <4>2. visit' \in 0..MaxVisits /\ visit' \in Visits
          BY <3>1, LimitPositive DEF Arrival, TypeOK, Visits
        <4>3. asked' \subseteq Visits /\ capture' \in Captures
          BY <3>1, <4>2 DEF Arrival, TypeOK, Captures
        <4>4. RequestIsOfVisit'
          BY <3>1 DEF Arrival
        <4> QED BY <3>1, <4>1, <4>2, <4>3, <4>4, LimitPositive DEF Arrival, TypeOK
      <3>2. CASE Departure(reading)
        BY <3>2, StreakTyped, LimitPositive DEF Departure, TypeOK, Captures
      <3>3. CASE PlainReading(reading)
        <4>1. /\ near' \in 0..Limit /\ far' \in 0..Limit
              /\ streak' \in [kind : Readings, length : 0..Limit]
          BY <3>3, StreakTyped, CountBounded DEF PlainReading, TypeOK
        <4> QED BY <3>3, <4>1 DEF PlainReading, TypeOK
      <3> QED BY <2>1, <3>1, <3>2, <3>3 DEF Read
    <2>2. CASE DelayEnds
      BY <2>2 DEF DelayEnds, TypeOK, Captures
    <2>3. CASE CaptureAndUpload
      <3>1. visit \in Visits
        BY <2>3 DEF CaptureAndUpload, TypeOK
      <3>2. card' \in [Visits -> Files] /\ old' \subseteq Visits /\ delivered' \subseteq Visits
        BY <2>3, <3>1, AgesTyped, UploadTyped DEF CaptureAndUpload, TypeOK
      <3> QED BY <2>3, <3>2 DEF CaptureAndUpload, TypeOK, Captures
    <2>4. CASE TaskRetry
      <3>1. PICK v \in Visits : Retry(v)
        BY <2>4 DEF TaskRetry
      <3>2. card' \in [Visits -> Files] /\ old' \subseteq Visits /\ delivered' \subseteq Visits
        BY <3>1, UploadTyped DEF Retry, TypeOK, Files
      <3> QED BY <3>1, <3>2 DEF Retry, TypeOK
    <2>5. CASE Radio \/ Reconnect
      BY <2>5 DEF Radio, Reconnect, TypeOK
    <2>6. ASSUME NEW v \in Visits, PictureAges(v) \/ Expires(v)
          PROVE  TypeOK' /\ RequestIsOfVisit'
      BY <2>6 DEF PictureAges, Expires, TypeOK, Files
    <2>7. ASSUME NEW s \in LedStates, LedMessage(s)
          PROVE  TypeOK' /\ RequestIsOfVisit'
      BY <2>7 DEF LedMessage, TypeOK
    <2>8. CASE Indicate
      BY <2>8, LampsOfTyped DEF Indicate, TypeOK
    <2>9. CASE Reboot
      <3>1. card' \in [Visits -> Files]
        BY <2>9 DEF Reboot, Files
      <3> QED BY <2>9, <3>1, RestartTyped DEF Reboot, TypeOK
    <2>10. CASE UNCHANGED vars
      BY <2>10 DEF vars, TypeOK
    <2> QED BY <2>1, <2>2, <2>3, <2>4, <2>5, <2>6, <2>7, <2>8, <2>9, <2>10 DEF Next
  <1> QED BY <1>1, <1>2, PTL DEF Spec

\* A picture is of a visit that asked for one.  The request of an earlier visit
\* cannot lead to a picture of a later one because a departure takes it back:
\* while it stands, the current visit is the one that asked.
THEOREM PictureIsAsked == Spec => []PictureWasAsked
  <1>1. Init => PictureWasAsked
    BY DEF Init, PictureWasAsked
  <1>2. TypeOK /\ RequestIsOfVisit /\ PictureWasAsked /\ [Next]_vars => PictureWasAsked'
    <2> SUFFICES ASSUME TypeOK, RequestIsOfVisit, PictureWasAsked, [Next]_vars
                 PROVE  PictureWasAsked'
      OBVIOUS
    <2> USE DEF PictureWasAsked, filterVars, lampVars, pictureVars, visitVars, worldVars
    <2>1. CASE CaptureAndUpload
      BY <2>1 DEF CaptureAndUpload, Upload, RequestIsOfVisit, TypeOK
    <2>2. CASE TaskRetry
      BY <2>2 DEF TaskRetry, Retry, Upload, TypeOK
    <2>3. ASSUME NEW v \in Visits, PictureAges(v) \/ Expires(v)
          PROVE  PictureWasAsked'
      BY <2>3 DEF PictureAges, Expires, TypeOK
    <2>4. CASE Reboot
      BY <2>4 DEF Reboot
    <2>5. ASSUME NEW reading \in Readings, Read(reading)
          PROVE  PictureWasAsked'
      BY <2>5 DEF Read, Arrival, Departure, PlainReading
    <2>6. CASE DelayEnds \/ Radio \/ Reconnect \/ Indicate \/ UNCHANGED vars
      BY <2>6 DEF DelayEnds, Radio, Reconnect, Indicate, vars
    <2>7. ASSUME NEW s \in LedStates, LedMessage(s)
          PROVE  PictureWasAsked'
      BY <2>7 DEF LedMessage
    <2> QED BY <2>1, <2>2, <2>3, <2>4, <2>5, <2>6, <2>7 DEF Next
  <1> QED BY <1>1, <1>2, TypeCorrect, PTL DEF Spec

-----------------------------------------------------------------------------
\* The counters count the end of the history: what they have counted is there.
CountsTheStreak ==
  /\ near > 0 => streak.kind = "near" /\ near <= streak.length
  /\ far > 0  => streak.kind = "far"  /\ far <= streak.length

\* One reading lengthens a count by what it lengthens the streak.
LEMMA CountFollowsStreak ==
  ASSUME TypeOK, NEW reading \in Readings, Counted(reading),
         NEW kind, NEW n \in 0..Limit, Count(n, kind, reading) > 0,
         n > 0 => streak.kind = kind /\ n <= streak.length
  PROVE  reading = kind /\ Count(n, kind, reading) <= streak'.length
  <1>1. reading = kind /\ Count(n, kind, reading) = NextCount(n)
    BY DEF Count
  <1>2. CASE n = 0
    BY <1>1, <1>2, StreakTyped, LimitPositive DEF NextCount
  <1>3. CASE n > 0
    <2>1. streak'.length = NextCount(streak.length) /\ streak.length \in 0..Limit
      BY <1>1, <1>3 DEF Counted, TypeOK
    <2> QED BY <1>1, <1>3, <2>1, LimitPositive DEF NextCount
  <1> QED BY <1>2, <1>3

LEMMA CountsStay == Spec => []CountsTheStreak
  <1>1. Init => CountsTheStreak
    BY DEF Init, CountsTheStreak
  <1>2. TypeOK /\ CountsTheStreak /\ [Next]_vars => CountsTheStreak'
    <2> SUFFICES ASSUME TypeOK, CountsTheStreak, [Next]_vars
                 PROVE  CountsTheStreak'
      OBVIOUS
    <2> USE DEF CountsTheStreak
    <2>1. ASSUME NEW reading \in Readings, Read(reading)
          PROVE  CountsTheStreak'
      <3>1. CASE Arrival(reading) \/ Departure(reading)
        BY <3>1 DEF Arrival, Departure
      <3>2. CASE PlainReading(reading)
        <4>1. streak'.kind = reading
          BY <3>2, StreakTyped DEF PlainReading
        <4>2. near' > 0 => reading = "near" /\ near' <= streak'.length
          BY <3>2, CountFollowsStreak DEF PlainReading, TypeOK
        <4>3. far' > 0 => reading = "far" /\ far' <= streak'.length
          BY <3>2, CountFollowsStreak DEF PlainReading, TypeOK
        <4> QED BY <4>1, <4>2, <4>3
      <3> QED BY <2>1, <3>1, <3>2 DEF Read
    <2>2. CASE Reboot
      BY <2>2 DEF Reboot
    <2>3. CASE UNCHANGED filterVars
      BY <2>3 DEF filterVars
    <2> QED BY <2>1, <2>2, <2>3 DEF Next, DelayEnds, CaptureAndUpload, TaskRetry, Retry, Radio,
            Reconnect, PictureAges, Expires, LedMessage, Indicate, vars, filterVars
  <1> QED BY <1>1, <1>2, TypeCorrect, PTL DEF Spec

\* Every change of the status is backed by Limit equal readings in a row, for
\* any limit: what the counters have seen is the end of the history itself.
THEOREM StatusIsBacked == Spec => StatusIsConfirmed
  <1>1. TypeOK /\ CountsTheStreak /\ [Next]_vars =>
          [status' # status =>
             \/ streak' = [kind |-> IF status' = "occupied" THEN "near" ELSE "far",
                           length |-> Limit]
             \/ Reboot]_vars
    <2> SUFFICES ASSUME TypeOK, CountsTheStreak, Next, status' # status, ~ Reboot
                 PROVE  streak' = [kind |-> IF status' = "occupied" THEN "near" ELSE "far",
                                   length |-> Limit]
      OBVIOUS
    <2>1. PICK reading \in Readings : Arrival(reading) \/ Departure(reading)
      BY DEF Next, Read, PlainReading, DelayEnds, CaptureAndUpload, TaskRetry, Retry, Radio,
             Reconnect, PictureAges, Expires, LedMessage, Indicate, filterVars
    <2>2. /\ streak' = [kind |-> reading, length |-> streak'.length]
          /\ streak'.length \in 0..Limit
      BY <2>1, StreakTyped DEF Arrival, Departure, Counted
    <2>3. CASE Arrival(reading)
      <3>1. reading = "near" /\ Limit <= streak'.length
        BY <2>3, CountFollowsStreak, LimitPositive DEF Arrival, CountsTheStreak, TypeOK
      <3> QED BY <2>2, <2>3, <3>1, LimitPositive DEF Arrival
    <2>4. CASE Departure(reading)
      <3>1. reading = "far" /\ Limit <= streak'.length
        BY <2>4, CountFollowsStreak, LimitPositive DEF Departure, CountsTheStreak, TypeOK
      <3> QED BY <2>2, <2>4, <3>1, LimitPositive DEF Departure
    <2> QED BY <2>1, <2>3, <2>4
  <1> QED BY <1>1, TypeCorrect, CountsStay, PTL DEF Spec, StatusIsConfirmed

\* No lamp and no buzzer outlives the state it was lit for: the callback puts
\* everything out before the new state is shown.
THEOREM LampsAreHonest == Spec => []NoLampLies
  <1>1. Init => NoLampLies
    BY DEF Init, NoLampLies
  <1>2. NoLampLies /\ [Next]_vars => NoLampLies'
    BY DEF NoLampLies, Next, Read, Arrival, Departure, PlainReading, DelayEnds, CaptureAndUpload,
           TaskRetry, Retry, Radio, Reconnect, PictureAges, Expires, LedMessage, Indicate, Reboot,
           vars, lampVars
  <1> QED BY <1>1, <1>2, PTL DEF Spec

-----------------------------------------------------------------------------
\* Visits to come have no picture, nor has the current one as long as its
\* capture is asked for.
NoPictureYet ==
  \A v \in Visits : v > visit \/ (v = visit /\ capture # "idle") => card[v] = "none"

LEMMA PicturesFollowVisits == Spec => []NoPictureYet
  <1>1. Init => NoPictureYet
    BY DEF Init, NoPictureYet
  <1>2. TypeOK /\ RequestIsOfVisit /\ NoPictureYet /\ [Next]_vars => NoPictureYet'
    <2> SUFFICES ASSUME TypeOK, RequestIsOfVisit, NoPictureYet, [Next]_vars,
                        NEW v \in Visits,
                        v > visit' \/ (v = visit' /\ capture' # "idle")
                 PROVE  card'[v] = "none"
      BY DEF NoPictureYet
    <2> visit \in Nat /\ v \in Nat
      BY LimitPositive DEF TypeOK, Visits
    <2> USE DEF NoPictureYet, filterVars, lampVars, pictureVars, visitVars, worldVars
    <2>1. CASE CaptureAndUpload
      <3>1. v > visit /\ card[v] = "none"
        BY <2>1 DEF CaptureAndUpload
      <3>2. ASSUME NEW age, Upload(visit, age)
            PROVE  card'[v] = card[v]
        BY <3>1, <3>2 DEF Upload, TypeOK
      <3> QED BY <2>1, <3>1, <3>2 DEF CaptureAndUpload
    <2>2. ASSUME NEW u \in Visits, Retry(u) \/ PictureAges(u) \/ Expires(u)
          PROVE  card'[v] = "none"
      <3>1. card[v] = "none" /\ card[u] # "none"
        BY <2>2 DEF Retry, PictureAges, Expires, OnCard
      <3>2. \A w \in Visits : w # u => card'[w] = card[w]
        BY <2>2 DEF Retry, PictureAges, Expires, Upload, TypeOK
      <3> QED BY <3>1, <3>2
    <2>3. CASE Reboot
      BY <2>3 DEF Reboot
    <2>4. ASSUME NEW reading \in Readings, Read(reading)
          PROVE  card'[v] = "none"
      BY <2>4 DEF Read, Arrival, Departure, PlainReading, RequestIsOfVisit
    <2>5. CASE DelayEnds \/ Radio \/ Reconnect \/ Indicate \/ UNCHANGED vars
      BY <2>5 DEF DelayEnds, Radio, Reconnect, Indicate, vars
    <2>6. ASSUME NEW s \in LedStates, LedMessage(s)
          PROVE  card'[v] = "none"
      BY <2>6 DEF LedMessage
    <2> QED BY <2>1, <2>2, <2>3, <2>4, <2>5, <2>6 DEF Next, TaskRetry
  <1> QED BY <1>1, <1>2, TypeCorrect, PTL DEF Spec

\* No failed upload, lost response or broken connection takes a picture off the
\* queue that the gateway has not: only a retry that takes it for old does, and a
\* restart.  Whether it is old is another matter, see RetriesNeverUpload.
THEOREM PicturesAreKept == Spec => PictureIsKept
  <1> DEFINE Kept(v) == card'[v] # card[v] =>
               \/ card[v] = "none" /\ card'[v] \in {"queued", "stale"}
               \/ card[v] = "queued" /\ card'[v] = "stale"
               \/ card[v] \in {"none", "queued"} /\ card'[v] = "archived" /\ v \in delivered'
               \/ card[v] = "stale" /\ card'[v] = "deleted"
               \/ Reboot
  <1>1. TypeOK /\ RequestIsOfVisit /\ NoPictureYet /\ [Next]_vars
          => [\A v \in Visits : Kept(v)]_vars
    <2> SUFFICES ASSUME TypeOK, RequestIsOfVisit, NoPictureYet, Next, NEW v \in Visits
                 PROVE  Kept(v)
      OBVIOUS
    <2>1. ASSUME UNCHANGED card PROVE Kept(v)
      BY <2>1
    <2>2. CASE CaptureAndUpload
      <3>1. CASE UNCHANGED pictureVars
        BY <2>1, <3>1 DEF pictureVars
      <3>2. ASSUME NEW age \in {"queued", "stale"}, Upload(visit, age)
            PROVE  Kept(v)
        <4>1. v # visit => card'[v] = card[v]
          BY <3>2 DEF Upload, TypeOK
        <4>2. v = visit => card[v] = "none"
          BY <2>2 DEF CaptureAndUpload, NoPictureYet
        <4>3. v = visit => card'[v] = age \/ (card'[v] = "archived" /\ v \in delivered')
          BY <3>2 DEF Upload, TypeOK
        <4> QED BY <4>1, <4>2, <4>3
      <3> QED BY <2>2, <3>1, <3>2, AgesTyped DEF CaptureAndUpload
    <2>3. ASSUME NEW u \in Visits, Retry(u)
          PROVE  Kept(v)
      BY <2>3 DEF Retry, Upload, TypeOK
    <2>4. ASSUME NEW u \in Visits, PictureAges(u) \/ Expires(u)
          PROVE  Kept(v)
      BY <2>4 DEF PictureAges, Expires, TypeOK
    <2> QED BY <2>1, <2>2, <2>3, <2>4
            DEF Next, Read, Arrival, Departure, PlainReading, DelayEnds, TaskRetry, Radio,
                Reconnect, LedMessage, Indicate, pictureVars
  <1> QED BY <1>1, TypeCorrect, PicturesFollowVisits, PTL DEF Spec, PictureIsKept

-----------------------------------------------------------------------------
\* On every day of this century the date that the retry reads off a picture of
\* today lies centuries back: the year it reads is below 1000.
LEMMA DatesAreMisread == ReadAsPast
  <1>1. PICK y \in 0..99 : Year = 2000 + y
    BY DateTyped
  <1>2. Year % 1000 = y
    BY <1>1
  <1>3. Month \div 10 \in 0..1 /\ Month % 10 \in 0..9 /\ Day \div 10 \in 0..3
    BY DateTyped
  <1>4. YearRead <= 991 /\ YearRead \in Nat
    BY <1>2, <1>3 DEF YearRead
  <1>5. MonthRead <= 93 /\ MonthRead \in Nat
    BY <1>3 DEF MonthRead
  <1> QED BY <1>1, <1>4, <1>5, DateTyped DEF ReadAsPast

\* In a build with 64-bit time no picture is ever one that a retry would upload,
\* on any day of this century: each one that is queued counts as centuries old.
THEOREM RetriesNeverUpload == Spec => []NothingIsRetried
  <1>1. Init => NothingIsRetried
    BY DEF Init, NothingIsRetried
  <1>2. TypeOK /\ NothingIsRetried /\ [Next]_vars => NothingIsRetried'
    <2> SUFFICES ASSUME TypeOK, [Next]_vars, timeBits' = 64,
                        timeBits = 64 => \A v \in Visits : card[v] # "queued"
                 PROVE  \A v \in Visits : card'[v] # "queued"
      BY DEF NothingIsRetried
    <2>1. UNCHANGED timeBits
      BY DEF Next, Read, Arrival, Departure, PlainReading, DelayEnds, CaptureAndUpload, TaskRetry,
             Retry, PictureAges, Expires, Radio, Reconnect, LedMessage, Indicate, Reboot,
             worldVars, vars
    <2>2. \A v \in Visits : card[v] # "queued"
      BY <2>1
    <2>3. \A dated : Ages(dated) = {"stale"}
      BY <2>1, DatesAreMisread DEF Ages
    <2>4. CASE CaptureAndUpload
      BY <2>2, <2>3, <2>4 DEF CaptureAndUpload, Upload, TypeOK, pictureVars
    <2>5. CASE TaskRetry
      BY <2>2, <2>5 DEF TaskRetry, Retry, TypeOK
    <2>6. ASSUME NEW v \in Visits, PictureAges(v) \/ Expires(v)
          PROVE  \A u \in Visits : card'[u] # "queued"
      BY <2>2, <2>6 DEF PictureAges, Expires
    <2>7. CASE Reboot
      BY <2>7 DEF Reboot
    <2>8. CASE UNCHANGED card
      BY <2>2, <2>8
    <2> QED BY <2>4, <2>5, <2>6, <2>7, <2>8
            DEF Next, Read, Arrival, Departure, PlainReading, DelayEnds, Radio, Reconnect,
                LedMessage, Indicate, pictureVars, vars
  <1> QED BY <1>1, <1>2, TypeCorrect, PTL DEF Spec

=============================================================================
