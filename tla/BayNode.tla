-------------------------------- MODULE BayNode --------------------------------
(***************************************************************************)
(* One ESP32 parking node, esp32.ino: the debounced distance sensor, the   *)
(* picture taken a while after an arrival, the pictures on the SD card and *)
(* their retries, the indicator lamps.                                     *)
(*                                                                         *)
(* loop() is one thread; each of its tasks is one action.  Readings, LED   *)
(* commands, the camera, the card, the radio and the gateway's answers are *)
(* the world's.  Arrivals are counted to name the pictures (at most        *)
(* MaxVisits of them, the bound of the model).                             *)
(***************************************************************************)
EXTENDS Naturals

CONSTANTS Limit,     \* FILTER_LIMIT: equal readings that confirm a status
          MaxVisits,
          Builds,    \* widths of time_t: 32 bits in some builds, 64 in others
          NtpMayFail,        \* getLocalTime may have no time to name a picture with
          Year, Month, Day   \* the day on which the node runs

ASSUME LimitPositive == Limit \in Nat \ {0} /\ MaxVisits \in Nat

ASSUME DateTyped ==
  /\ Builds \subseteq {32, 64} /\ NtpMayFail \in BOOLEAN
  /\ Year \in 2000..2099 /\ Month \in 1..12 /\ Day \in 1..31

VARIABLES
  status,    \* currentBayStatus (and lastBayStatus, equal after each reading)
  near,      \* occupiedCount
  far,       \* availableCount
  streak,    \* history: the kind of the last readings and how many agree
  led,       \* currentLedState
  lamps,     \* the outputs that are on
  capture,   \* isWaitingToCapture, and whether CAPTURE_DELAY is over
  visit,     \* history: arrivals confirmed so far
  asked,     \* history: those that found the LED reserved or pending
  card,      \* the picture of each visit on the SD card
  old,       \* history: those that waited there for more than ten seconds
  delivered, \* history: the visits whose picture the gateway has stored
  online,    \* WiFi.status() == WL_CONNECTED
  connected, \* client.connected(): without it loop() stands still in reconnect
  timeBits   \* the width of time_t in this node's build

filterVars  == <<status, near, far, streak>>
lampVars    == <<led, lamps>>
pictureVars == <<card, old, delivered>>
visitVars   == <<visit, asked>>
worldVars   == <<online, connected, timeBits>>
vars == <<filterVars, lampVars, capture, visitVars, pictureVars, worldVars>>

-----------------------------------------------------------------------------
Visits == 1..MaxVisits

Readings == {"near", "between", "far"}
Captures == {"idle", "waiting", "due"}

\* What is queued or stale waits for a retry: stale if diff, the age that the
\* retry computes from its name, is over ten seconds.
Files    == {"none", "queued", "stale", "archived", "deleted"}
OnCard(v) == card[v] \in {"queued", "stale"}

\* getFileTime expects "/img_YYYYMMDD_HHMMSS.jpg", and file.name() gives the retry
\* a name without the slash: the year it reads lacks the millennium and ends with
\* the first digit of the month, the month (which mktime carries over into years)
\* is made of the month's other digit and the first one of the day.
YearRead  == (Year % 1000) * 10 + Month \div 10
MonthRead == (Month % 10) * 10 + Day \div 10

ReadAsPast == YearRead * 12 + MonthRead < Year * 12 + Month

\* How the retry finds a picture taken today.  A name without a date (the fallback
\* of getTimestamp) is read as time 0.  The seconds of the year that is read do
\* not fit into 32 bits: an overflow of signed numbers, with any outcome.
AgesIn32Bits(dated) ==   \* slip: the seconds are added up in an int
  IF dated THEN {"queued", "stale"} ELSE {"stale"}

Ages(dated) ==
  IF dated /\ timeBits = 32 THEN {"queued", "stale"}
  ELSE IF dated /\ ~ ReadAsPast THEN {"queued"}
  ELSE {"stale"}

LedStates == {"available", "reserved", "occupied", "reserved_checked_in",
              "pending_check_in", "conflict_strong", "conflict_weak", "unknown"}

\* The lamps of a state: those that are lit, or lit and dark in turn.
LampsOf(s) ==
  CASE s = "available"                             -> {"green"}
    [] s \in {"reserved", "pending_check_in"}      -> {"yellow"}
    [] s \in {"occupied", "reserved_checked_in"}   -> {"red"}
    [] s \in {"conflict_strong", "conflict_weak"}  -> {"red", "buzzer"}
    [] OTHER                                       -> {}

Blinks(s) == s \in {"pending_check_in", "conflict_strong", "conflict_weak"}

NextCount(n) == IF n < Limit THEN n + 1 ELSE n

CountThatSurvives(count, kind, reading) ==   \* slip: other readings do not reset it
  IF reading = kind THEN NextCount(count) ELSE count

LeakyCount(count, kind, reading) ==   \* slip: another reading takes one off
  IF reading = kind THEN NextCount(count) ELSE count - 1

\* A count goes on with a reading of its own kind and starts again after any
\* other.  (Above Limit it only matters that it is.)
Count(count, kind, reading) == IF reading = kind THEN NextCount(count) ELSE 0

-----------------------------------------------------------------------------
Init ==
  /\ status = "available" /\ near = 0 /\ far = 0
  /\ streak = [kind |-> "between", length |-> 0]
  /\ led = "available" /\ lamps = {}
  /\ capture = "idle"
  /\ visit = 0 /\ asked = {}
  /\ card = [v \in Visits |-> "none"] /\ old = {} /\ delivered = {}
  /\ online \in BOOLEAN /\ connected = FALSE /\ timeBits \in Builds

-----------------------------------------------------------------------------
(***************************************************************************)
(* Task 2, every 200 ms: a reading.  Ten equal ones in a row confirm an    *)
(* arrival or a departure; an arrival in a reserved bay asks for a         *)
(* picture, a departure takes the request back.  A picture that is due is  *)
(* taken before the next reading.                                          *)
(***************************************************************************)
Counted(reading) ==
  streak' = [kind |-> reading,
             length |-> IF reading = streak.kind THEN NextCount(streak.length) ELSE 1]

Arrival(reading) ==
  /\ connected /\ capture # "due"
  /\ status = "available"
  /\ Count(near, "near", reading) = Limit
  /\ visit < MaxVisits
  /\ Counted(reading)
  /\ status' = "occupied" /\ near' = 0 /\ far' = 0
  /\ visit' = visit + 1
  /\ IF led \in {"reserved", "pending_check_in"}
       THEN capture' = "waiting" /\ asked' = asked \cup {visit + 1}
       ELSE UNCHANGED <<capture, asked>>
  /\ UNCHANGED <<lampVars, pictureVars, worldVars>>

DepartureKeepingRequest(reading) ==   \* slip: the picture stays asked for
  /\ connected /\ capture # "due"
  /\ status = "occupied"
  /\ Count(far, "far", reading) = Limit
  /\ Counted(reading)
  /\ status' = "available" /\ near' = 0 /\ far' = 0
  /\ UNCHANGED <<lampVars, capture, visitVars, pictureVars, worldVars>>

Departure(reading) ==
  /\ connected /\ capture # "due"
  /\ status = "occupied"
  /\ Count(far, "far", reading) = Limit
  /\ Counted(reading)
  /\ status' = "available" /\ near' = 0 /\ far' = 0
  /\ capture' = "idle"
  /\ UNCHANGED <<lampVars, visitVars, pictureVars, worldVars>>

PlainReading(reading) ==
  /\ connected /\ capture # "due"
  /\ ~ (status = "available" /\ Count(near, "near", reading) = Limit)
  /\ ~ (status = "occupied" /\ Count(far, "far", reading) = Limit)
  /\ Counted(reading)
  /\ near' = Count(near, "near", reading)
  /\ far' = Count(far, "far", reading)
  /\ UNCHANGED <<status, lampVars, capture, visitVars, pictureVars, worldVars>>

Read(reading) == Arrival(reading) \/ Departure(reading) \/ PlainReading(reading)

-----------------------------------------------------------------------------
(***************************************************************************)
(* Task 3: the capture, CAPTURE_DELAY after the arrival.  The frame may    *)
(* fail, the card may refuse the file, and NTP may have no time to name it *)
(* with.  What is on the card is uploaded at once; what the node hears of  *)
(* the upload is that it succeeded, or not, and in the second case the     *)
(* gateway may have stored the picture nevertheless.                       *)
(***************************************************************************)
DelayEnds ==
  /\ capture = "waiting"
  /\ capture' = "due"
  /\ UNCHANGED <<filterVars, lampVars, visitVars, pictureVars, worldVars>>

ArchivesAnyway(v, queuedAs) ==   \* slip: the response is not looked at
  /\ UNCHANGED old
  /\ card' = [card EXCEPT ![v] = "archived"]
  /\ \/ UNCHANGED delivered
     \/ online /\ delivered' = delivered \cup {v}

\* uploadImageFromSD and the rename that follows a success.
Upload(v, queuedAs) ==
  /\ UNCHANGED old
  /\ \/ /\ online
        /\ card' = [card EXCEPT ![v] = "archived"]
        /\ delivered' = delivered \cup {v}
     \/ /\ card' = [card EXCEPT ![v] = queuedAs]
        /\ \/ UNCHANGED delivered
           \/ online /\ delivered' = delivered \cup {v}

CaptureAndUpload ==
  /\ connected /\ capture = "due"
  /\ capture' = "idle"
  /\ \/ /\ status = "occupied"
        /\ \E dated \in {TRUE, ~ NtpMayFail} : \E age \in Ages(dated) : Upload(visit, age)
     \/ UNCHANGED pictureVars
  /\ UNCHANGED <<filterVars, lampVars, visitVars, worldVars>>

-----------------------------------------------------------------------------
(***************************************************************************)
(* Task 1, every 10 s: processPendingUploads looks at one file, the first  *)
(* of the directory, whichever that is, and goes by the age it computes.   *)
(* What the computed age has to do with the real one is PictureAges' and   *)
(* Expires' business: the clock may come to pass the time that was read    *)
(* (after an overflow), and ten seconds pass whatever was read.            *)
(***************************************************************************)
RetryForEver(v) ==   \* slip: an old file is left where it is
  /\ connected /\ online
  /\ card[v] = "queued"
  /\ Upload(v, "queued")
  /\ UNCHANGED <<filterVars, lampVars, capture, visitVars, worldVars>>

Retry(v) ==
  /\ connected /\ online
  /\ \/ /\ card[v] = "stale"
        /\ card' = [card EXCEPT ![v] = "deleted"]
        /\ UNCHANGED <<old, delivered>>
     \/ card[v] = "queued" /\ Upload(v, "queued")
  /\ UNCHANGED <<filterVars, lampVars, capture, visitVars, worldVars>>

TaskRetry == \E v \in Visits : Retry(v)

PictureAges(v) ==
  /\ OnCard(v)
  /\ old' = old \cup {v}
  /\ UNCHANGED <<filterVars, lampVars, capture, visitVars, card, delivered, worldVars>>

Expires(v) ==
  /\ card[v] = "queued"
  /\ card' = [card EXCEPT ![v] = "stale"]
  /\ UNCHANGED <<filterVars, lampVars, capture, visitVars, old, delivered, worldVars>>

Radio ==
  /\ online' = ~ online
  /\ UNCHANGED <<filterVars, lampVars, capture, visitVars, pictureVars, connected, timeBits>>

\* The MQTT connection breaks, and reconnect() tries until it is there again;
\* the counters and a countdown of the capture are as they were.
Reconnect ==
  /\ connected' = ~ connected
  /\ UNCHANGED <<filterVars, lampVars, capture, visitVars, pictureVars, online, timeBits>>

-----------------------------------------------------------------------------
LeavesLampsOn(s) ==   \* slip: the new state is expected to set them all
  /\ connected
  /\ led' = s
  /\ UNCHANGED <<filterVars, lamps, capture, visitVars, pictureVars, worldVars>>

\* callback: an LED command.  Everything goes dark until task 5.
LedMessage(s) ==
  /\ connected /\ s # led
  /\ led' = s
  /\ lamps' = {}
  /\ UNCHANGED <<filterVars, capture, visitVars, pictureVars, worldVars>>

\* Task 5: the lamps of the state, or the next half of the blinking.  A state
\* the node does not know leaves the outputs as they are.
Indicate ==
  /\ connected /\ led # "unknown"
  /\ \/ lamps' = LampsOf(led)
     \/ Blinks(led) /\ lamps' = {}
  /\ UNCHANGED <<filterVars, led, capture, visitVars, pictureVars, worldVars>>

\* setup: everything in memory starts again and cleanupSD deletes every
\* picture, the queued ones too.
Reboot ==
  /\ status' = "available" /\ near' = 0 /\ far' = 0
  /\ streak' = [kind |-> "between", length |-> 0]
  /\ led' = "available" /\ lamps' = {}
  /\ capture' = "idle"
  /\ card' = [v \in Visits |-> IF card[v] = "none" THEN "none" ELSE "deleted"]
  /\ connected' = FALSE
  /\ UNCHANGED <<visitVars, old, delivered, online, timeBits>>

-----------------------------------------------------------------------------
Next ==
  \/ \E reading \in Readings : Read(reading)
  \/ DelayEnds \/ CaptureAndUpload
  \/ TaskRetry \/ Radio \/ Reconnect
  \/ \E v \in Visits : PictureAges(v) \/ Expires(v)
  \/ \E s \in LedStates : LedMessage(s)
  \/ Indicate
  \/ Reboot

Spec == Init /\ [][Next]_vars

\* The loop comes round to its first task.
Fairness == WF_vars(TaskRetry)

FairSpec == Spec /\ Fairness

-----------------------------------------------------------------------------
(***************************************************************************)
(* Properties                                                              *)
(***************************************************************************)

\* The globals of the sketch and the files on the card.
TypeOK ==
  /\ status \in {"available", "occupied"}
  /\ near \in 0..Limit /\ far \in 0..Limit
  /\ streak \in [kind : Readings, length : 0..Limit]
  /\ led \in LedStates
  /\ lamps \subseteq {"green", "yellow", "red", "buzzer"}
  /\ capture \in Captures
  /\ visit \in 0..MaxVisits /\ asked \subseteq Visits
  /\ card \in [Visits -> Files] /\ old \subseteq Visits /\ delivered \subseteq Visits
  /\ online \in BOOLEAN /\ connected \in BOOLEAN /\ timeBits \in Builds

\* Noise never makes a vehicle come or go: the status changes only when the
\* last Limit readings all were near, or all far, whatever was read before;
\* a restart apart, which claims an empty bay without looking.
StatusIsConfirmed ==
  [][status' # status =>
       \/ streak' = [kind |-> IF status' = "occupied" THEN "near" ELSE "far",
                     length |-> Limit]
       \/ Reboot]_vars

\* No picture is taken of a visit that did not ask for one: neither a change
\* of the LED during the delay nor an earlier visit's request leads to one.
PictureWasAsked == \A v \in Visits : card[v] # "none" => v \in asked

\* A picture leaves the queue in three ways: to the archive, and then the gateway
\* has it; deleted by a retry that takes it for older than ten seconds (and not
\* because an upload failed or was not answered); wiped at a restart.  It does not
\* come back, and no second picture takes its place.
PictureIsKept ==
  [][\A v \in Visits : card'[v] # card[v] =>
       \/ card[v] = "none" /\ card'[v] \in {"queued", "stale"}
       \/ card[v] = "queued" /\ card'[v] = "stale"
       \/ card[v] \in {"none", "queued"} /\ card'[v] = "archived" /\ v \in delivered'
       \/ card[v] = "stale" /\ card'[v] = "deleted"
       \/ Reboot]_vars

\* No lamp and no buzzer is left on from an earlier state, one that the node
\* does not know included.
NoLampLies == lamps \subseteq LampsOf(led)

\* What retries are for never happens in a build with 64-bit time: at no moment
\* is there a picture that a retry would upload.  Every one whose first upload
\* fails is deleted by the first retry that comes to it, for the date that is read
\* off its name is centuries old.
NothingIsRetried == timeBits = 64 => \A v \in Visits : card[v] # "queued"

\* There the queue does not fill up either: whatever comes in between, a picture
\* is taken off it, unless radio or broker is lost meanwhile.
QueueDrains ==
  timeBits = 64 =>
    \A v \in Visits : OnCard(v) ~> ~ OnCard(v) \/ ~ online \/ ~ connected

-----------------------------------------------------------------------------
(***************************************************************************)
(* What the repository says of the program and the program does not do.    *)
(***************************************************************************)

\* What the report says of a failed upload: the picture "remains on the SD card
\* and is retried every 10 seconds for up to about 10 seconds of staleness before
\* being garbage-collected".  So none is deleted that is younger and that the
\* gateway does not have, a restart apart.  (It is checked for names with a date.)
FreshPictureIsKept ==
  [][\A v \in Visits : card[v] # "deleted" /\ card'[v] = "deleted" =>
       v \in old \/ v \in delivered \/ Reboot]_vars

=============================================================================
