----------------------------- MODULE BcpBeacons -----------------------------
(***************************************************************************)
(* The beacons of the TinyOS port (BcpForwardingEngine.c, BEACON_ONLY): a  *)
(* trickle timer, an extra beacon when the backlog has changed a lot, and  *)
(* beacons that ask for routes (RR), all sent by one task.                 *)
(*                                                                         *)
(* The data path is the environment: it changes the backlog by one packet  *)
(* at a time and sets beaconType back to normal when it starts a send.     *)
(* Timers fire at any time after they have been set.                       *)
(***************************************************************************)
EXTENDS Integers

CONSTANTS
  MININTERVAL, MAXINTERVAL,   \* of the trickle timer, in ticks
  DIFF_QUEUE_TH,
  MAX_BACKLOG,
  WORD,         \* 2^16: backlogs are compared in uint16_t
  MAX_EVENTS,   \* bound: events waiting for sendBeaconTask; more are as many
  MAX_FRAMES,   \* beacons that the MAC holds
  NONE          \* nothing announced yet

(* chooseAdvertiseTime divides by MININTERVAL / 2 *)
ASSUME BeaconsAssumption ==
  /\ MININTERVAL \in Nat /\ MININTERVAL >= 2
  /\ MAXINTERVAL \in Nat /\ MAXINTERVAL >= MININTERVAL
  /\ MAX_BACKLOG \in Nat
  /\ DIFF_QUEUE_TH \in Nat \ {0}
  /\ WORD \in Nat /\ WORD >= MAX_BACKLOG + DIFF_QUEUE_TH
  /\ MAX_EVENTS \in Nat \ {0} /\ MAX_FRAMES \in Nat \ {0}
  /\ NONE \notin Int

VARIABLES
  running,      \* isRunningForwardingEngine
  interval,     \* currentInterval
  t, tHasPassed,
  beaconTimer,  \* is beacon_timer running?
  young,        \* beacon_timerTime shows less than BEACON_TH_INTERVAL
  stackTimer,   \* is stack_check_timer running?
  backlog,      \* list_length(send_stack) + sendQeOccupied
  old,          \* oldLocalBackpressure
  bpIncrease,   \* a static of stack_check_timer_fired
  extra,        \* extraBeaconSending
  beaconType,
  posted,       \* events waiting for sendBeaconTask
  inMac,        \* beacons whose sent callback is due
  announced,    \* the backlog in the last beacon that the MAC took
  known         \* the routing table is not empty

trickleVars == <<interval, t, tHasPassed, beaconTimer, young>>
checkVars == <<stackTimer, old, bpIncrease>>
taskVars == <<inMac, announced, extra>>
beaconVars == <<running, trickleVars, checkVars, taskVars, backlog, beaconType, posted, known>>

Backlog == 0 .. MAX_BACKLOG
Type == {"NORMAL", "RR"}

(* Handlers of events and timers run after their own event has left the     *)
(* queue of Contiki: their post has room.                                   *)
Post == posted' = IF posted < MAX_EVENTS THEN posted + 1 ELSE posted

PostNormal == Post /\ beaconType' = "NORMAL"

----------------------------------------------------------------------------
(* The trickle timer *)

(* t += rand % t *)
AdvertiseTimes(i) == {i \div 2 + r : r \in 0 .. (i \div 2) - 1}

(* mutant: the random part may reach the end of the interval *)
ChooseUpToTheEnd(i) ==
  /\ interval' = i
  /\ t' \in {i \div 2 + r : r \in 0 .. i - i \div 2}
  /\ tHasPassed' = FALSE
  /\ beaconTimer' = TRUE
  /\ young' = TRUE

(* mutant: tHasPassed is not cleared *)
ChooseStillPassed(i) ==
  /\ interval' = i
  /\ t' \in AdvertiseTimes(i)
  /\ beaconTimer' = TRUE
  /\ young' = TRUE
  /\ UNCHANGED tHasPassed

ChooseAdvertiseTime(i) ==
  /\ interval' = i
  /\ t' \in AdvertiseTimes(i)
  /\ tHasPassed' = FALSE
  /\ beaconTimer' = TRUE
  /\ young' = TRUE

ResetInterval == ChooseAdvertiseTime(MININTERVAL)

(* mutant: the interval grows without limit *)
DecayForever == ChooseAdvertiseTime(2 * interval)

DecayInterval ==
  ChooseAdvertiseTime(IF 2 * interval > MAXINTERVAL THEN MAXINTERVAL ELSE 2 * interval)

(* mutant: the timer is stopped and not set again *)
RemainingIntervalForgotten ==
  /\ tHasPassed' = TRUE
  /\ beaconTimer' = FALSE
  /\ UNCHANGED <<interval, t, young>>

(* timer_reset alone moves beacon_timerTime on by ULONG_MAX: not at all *)
RemainingInterval ==
  /\ tHasPassed' = TRUE
  /\ beaconTimer' = TRUE
  /\ UNCHANGED <<interval, t, young>>

Start ==
  /\ running' = TRUE
  /\ ResetInterval
  /\ UNCHANGED <<checkVars, taskVars, backlog, beaconType, posted, known>>

Stop ==
  /\ running' = FALSE
  /\ beaconTimer' = FALSE
  /\ UNCHANGED <<interval, t, tHasPassed, young, checkVars, taskVars, backlog,
                 beaconType, posted, known>>

(* beacon_timer_fired; isBeaconTimerPeriodic is always false *)
BeaconTimerFires ==
  /\ beaconTimer
  /\ stackTimer' = TRUE
  /\ IF running
     THEN \/ ~tHasPassed /\ PostNormal /\ RemainingInterval
          \/ tHasPassed /\ DecayInterval /\ UNCHANGED <<beaconType, posted>>
     ELSE /\ beaconTimer' = FALSE
          /\ UNCHANGED <<interval, t, tHasPassed, young, beaconType, posted>>
  /\ UNCHANGED <<running, old, bpIncrease, taskVars, backlog, known>>

IntervalAges ==
  /\ young
  /\ young' = FALSE
  /\ UNCHANGED <<running, interval, t, tHasPassed, beaconTimer, checkVars,
                 taskVars, backlog, beaconType, posted, known>>

----------------------------------------------------------------------------
(* stack_check_timer_fired *)

Rises == bpIncrease \/ old < backlog

(* mutant: the difference is taken the other way round *)
DiffReversed == (IF Rises THEN old - backlog ELSE backlog - old) % WORD

Diff == (IF Rises THEN backlog - old ELSE old - backlog) % WORD

(* mutant: the beacon is left to the trickle timer *)
ReportLater ==
  /\ extra' = TRUE
  /\ old' = backlog
  /\ UNCHANGED <<beaconType, posted>>

Report ==
  /\ extra' = TRUE
  /\ PostNormal
  /\ old' = backlog

StackCheckTimerFires ==
  /\ stackTimer
  /\ stackTimer' = FALSE
  /\ bpIncrease' = (IF young THEN bpIncrease ELSE Rises)
  /\ \/ /\ ~young /\ Diff >= DIFF_QUEUE_TH
        /\ \/ ~extra /\ Report
           \/ extra /\ UNCHANGED <<extra, old, beaconType, posted>>
     \/ /\ young \/ Diff < DIFF_QUEUE_TH
        /\ old' = backlog
        /\ UNCHANGED <<extra, beaconType, posted>>
  /\ UNCHANGED <<running, trickleVars, inMac, announced, backlog, known>>

----------------------------------------------------------------------------
(* sendBeaconTask *)

BeaconTaken ==
  /\ posted > 0 /\ inMac < MAX_FRAMES
  /\ inMac' = inMac + 1
  /\ announced' = backlog
  /\ posted' = posted - 1
  /\ UNCHANGED <<running, trickleVars, checkVars, extra, backlog, beaconType, known>>

(* broadcast_send returns 0: the task posts itself, a request or not *)
BeaconRefused ==
  /\ posted > 0
  /\ beaconType' = "NORMAL"
  /\ UNCHANGED <<running, trickleVars, checkVars, taskVars, backlog, posted, known>>

(* broadcast_sent, whatever beacon it was *)
BeaconSendDone ==
  /\ inMac > 0
  /\ inMac' = inMac - 1
  /\ extra' = FALSE
  /\ UNCHANGED <<running, trickleVars, checkVars, announced, backlog, beaconType,
                 posted, known>>

----------------------------------------------------------------------------
(* What the neighbours and the data path do *)

(* beaconReceive_receive runs in the poll of the radio, with no event taken *)
(* from the queue: the post that answers a request may fail                 *)
RecvBeacon(type) ==
  /\ known' = TRUE
  /\ IF type = "RR"
     THEN PostNormal \/ (beaconType' = "NORMAL" /\ UNCHANGED posted)
     ELSE UNCHANGED <<beaconType, posted>>
  /\ UNCHANGED <<running, trickleVars, checkVars, taskVars, backlog>>

(* mutant: routes are asked for as well where no neighbour is a good option *)
AskAnyway ==
  /\ backlog > 0
  /\ beaconType' = "RR"
  /\ Post
  /\ UNCHANGED <<running, trickleVars, checkVars, taskVars, backlog, known>>

(* sendDataTask, when updateRouting says ESIZE *)
NoRoute ==
  /\ ~known /\ backlog > 0
  /\ beaconType' = "RR"
  /\ Post
  /\ UNCHANGED <<running, trickleVars, checkVars, taskVars, backlog, known>>

(* a packet comes or goes; forwarderActivity and a refused data frame set   *)
(* the type; a packet from a neighbour makes a record of it                 *)
DataPath ==
  /\ \E b \in Backlog : b - backlog \in -1 .. 1 /\ backlog' = b
  /\ beaconType' \in {beaconType, "NORMAL"}
  /\ known' \in {known, known \/ backlog' > backlog}
  /\ UNCHANGED <<running, trickleVars, checkVars, taskVars, posted>>

----------------------------------------------------------------------------
BeaconsInit ==
  /\ running = FALSE
  /\ interval = 0 /\ t = 0 /\ tHasPassed = FALSE
  /\ beaconTimer = FALSE /\ young = FALSE /\ stackTimer = FALSE
  /\ backlog = 0 /\ old = 0 /\ bpIncrease = FALSE
  /\ extra = FALSE /\ beaconType = "NORMAL"
  /\ posted = 0 /\ inMac = 0 /\ announced = NONE
  /\ known = FALSE

BeaconsNext ==
  \/ Start \/ Stop
  \/ BeaconTimerFires \/ IntervalAges \/ StackCheckTimerFires
  \/ BeaconTaken \/ BeaconRefused \/ BeaconSendDone
  \/ \E type \in Type : RecvBeacon(type)
  \/ NoRoute \/ DataPath

BeaconsSpec == BeaconsInit /\ [][BeaconsNext]_beaconVars

(* Contiki runs expired timers and posted events; the MAC does not refuse   *)
(* beacons for ever while it has room, and finishes those that it took      *)
BeaconsFairSpec ==
  /\ BeaconsSpec
  /\ WF_beaconVars(BeaconTimerFires)
  /\ WF_beaconVars(BeaconTaken)
  /\ WF_beaconVars(BeaconSendDone)

----------------------------------------------------------------------------
(* Properties *)

(* Every variable holds a value of its type, the intervals within their     *)
(* limit however often they have been doubled.                              *)
BeaconsTypeOK ==
  /\ running \in BOOLEAN /\ tHasPassed \in BOOLEAN /\ beaconTimer \in BOOLEAN
  /\ young \in BOOLEAN /\ stackTimer \in BOOLEAN
  /\ bpIncrease \in BOOLEAN /\ extra \in BOOLEAN /\ known \in BOOLEAN
  /\ interval \in 0 .. MAXINTERVAL /\ t \in 0 .. MAXINTERVAL
  /\ backlog \in Backlog /\ old \in Backlog
  /\ beaconType \in Type
  /\ posted \in 0 .. MAX_EVENTS /\ inMac \in 0 .. MAX_FRAMES
  /\ announced \in Backlog \cup {NONE}

(* As long as the engine runs its beacon timer does, through doubled, cut   *)
(* off and reset intervals: no handler leaves a node without beacons, and   *)
(* the branch of forwarderActivity that starts the timer again at a root    *)
(* has nothing to do.                                                       *)
TimerRuns == running <=> beaconTimer

(* The beacon falls into the second half of an interval within the limits,  *)
(* and before its end: remainingInterval never sets the timer to 0 or, in   *)
(* unsigned numbers, to nearly for ever, and chooseAdvertiseTime never      *)
(* divides by 0.                                                            *)
TimesInInterval ==
  running =>
    /\ interval \in MININTERVAL .. MAXINTERVAL
    /\ interval \div 2 > 0
    /\ interval \div 2 <= t /\ t < interval

(* extraBeaconSending, which keeps the check of the stack from looking,     *)
(* holds only while a beacon is due: some sent callback will clear it.      *)
ExtraHasBeacon == extra => posted > 0 \/ inMac > 0

(* The check of the stack reports a change of DIFF_QUEUE_TH packets and     *)
(* never takes it for seen without a beacon, except in a young interval;    *)
(* it reports a smaller change only as a fall after an earlier rise, which  *)
(* bpIncrease, never cleared, turns into a huge unsigned difference.        *)
DifferencesReported ==
  [][LET change == old' - old
         reports == extra' /\ ~extra
     IN  /\ ~young /\ (change >= DIFF_QUEUE_TH \/ -change >= DIFF_QUEUE_TH) => reports
         /\ reports =>
              \/ change >= DIFF_QUEUE_TH \/ -change >= DIFF_QUEUE_TH
              \/ bpIncrease /\ change < 0]_beaconVars

(* A backlog that does not change any more is in every beacon from some     *)
(* time on, however stale the last one was and whatever was refused.        *)
BacklogAnnounced ==
  \A q \in Backlog : <>[](running /\ backlog = q) => <>[](announced = q)

(* Once a neighbour is known the beacons stop asking for routes: beaconType *)
(* is one variable for all beacons that wait, and a request left in it      *)
(* would make all neighbours answer.                                        *)
RequestsEnd == known ~> [](posted > 0 => beaconType = "NORMAL")
=============================================================================
