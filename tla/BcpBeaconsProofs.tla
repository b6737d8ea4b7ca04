-------------------------- MODULE BcpBeaconsProofs --------------------------
(* Proofs about BcpBeacons, for every pair of interval limits, threshold,   *)
(* bound on the backlog and word.                                           *)
EXTENDS BcpBeacons, TLAPS

(* Inductive as a whole: the interval is doubled only while the engine      *)
(* runs, which is when the timer does.                                      *)
BeaconsInv == BeaconsTypeOK /\ TimerRuns /\ TimesInInterval /\ ExtraHasBeacon

(* rand % t is taken of a positive number and ends within the interval.     *)
LEMMA Halves ==
  ASSUME NEW i \in Nat, i >= 2
  PROVE  /\ i \div 2 \in Nat /\ i \div 2 > 0
         /\ \A s \in AdvertiseTimes(i) : s \in Nat /\ i \div 2 <= s /\ s < i
<1> DEFINE h == i \div 2
<1>1. h \in Nat /\ h > 0 /\ 2 * h <= i
  OBVIOUS
<1> HIDE DEF h
<1>2. \A s \in {h + r : r \in 0 .. h - 1} : s \in Nat /\ h <= s /\ s < i
  BY <1>1
<1> QED
  BY <1>1, <1>2 DEF h, AdvertiseTimes

(* An interval within the limits leaves all timer variables in order.       *)
LEMMA ChooseStep ==
  ASSUME NEW i \in MININTERVAL .. MAXINTERVAL, running', ChooseAdvertiseTime(i)
  PROVE  /\ interval' \in 0 .. MAXINTERVAL /\ t' \in 0 .. MAXINTERVAL
         /\ tHasPassed' \in BOOLEAN /\ young' \in BOOLEAN
         /\ beaconTimer' = TRUE
         /\ TimesInInterval'
<1> USE BeaconsAssumption
<1>1. i \in Nat /\ i >= 2
  OBVIOUS
<1>2. interval' = i /\ t' \in AdvertiseTimes(i) /\ tHasPassed' = FALSE
      /\ beaconTimer' = TRUE /\ young' = TRUE
  BY DEF ChooseAdvertiseTime
<1>3. i \div 2 > 0 /\ t' \in Nat /\ i \div 2 <= t' /\ t' < i
  BY <1>1, <1>2, Halves
<1>4. interval' \in 0 .. MAXINTERVAL /\ t' \in 0 .. MAXINTERVAL
  BY <1>2, <1>3
<1>5. TimesInInterval'
  BY <1>2, <1>3 DEF TimesInInterval
<1> QED
  BY <1>2, <1>4, <1>5

(* A post never takes an event away and leaves at least one.                *)
LEMMA PostStep ==
  ASSUME posted \in 0 .. MAX_EVENTS, Post
  PROVE  posted' \in 0 .. MAX_EVENTS /\ posted' > 0 /\ posted' >= posted
BY BeaconsAssumption DEF Post

LEMMA StartStep ==
  ASSUME BeaconsInv, Start
  PROVE  BeaconsInv'
<1> USE BeaconsAssumption
<1>1. running' = TRUE /\ ChooseAdvertiseTime(MININTERVAL)
      /\ UNCHANGED <<checkVars, taskVars, backlog, beaconType, posted, known>>
  BY DEF Start, ResetInterval
<1>2. MININTERVAL \in MININTERVAL .. MAXINTERVAL
  OBVIOUS
<1>3. /\ interval' \in 0 .. MAXINTERVAL /\ t' \in 0 .. MAXINTERVAL
      /\ tHasPassed' \in BOOLEAN /\ young' \in BOOLEAN
      /\ beaconTimer' = TRUE /\ TimesInInterval'
  BY <1>1, <1>2, ChooseStep
<1>4. BeaconsTypeOK'
  BY <1>1, <1>3 DEF BeaconsInv, BeaconsTypeOK, checkVars, taskVars
<1>5. TimerRuns' /\ ExtraHasBeacon'
  BY <1>1, <1>3 DEF BeaconsInv, TimerRuns, ExtraHasBeacon, taskVars
<1> QED
  BY <1>3, <1>4, <1>5 DEF BeaconsInv

LEMMA StopStep ==
  ASSUME BeaconsInv, Stop
  PROVE  BeaconsInv'
<1>1. BeaconsTypeOK'
  BY DEF Stop, checkVars, taskVars, BeaconsInv, BeaconsTypeOK
<1>2. TimerRuns' /\ TimesInInterval' /\ ExtraHasBeacon'
  BY DEF Stop, checkVars, taskVars, BeaconsInv, TimerRuns, TimesInInterval, ExtraHasBeacon
<1> QED
  BY <1>1, <1>2 DEF BeaconsInv

(* The beacon timer: the engine runs, so one of its two halves is taken.    *)
LEMMA BeaconTimerStep ==
  ASSUME BeaconsInv, BeaconTimerFires
  PROVE  BeaconsInv'
<1> USE BeaconsAssumption
<1>1. running /\ running' /\ running' = running
  BY DEF BeaconTimerFires, BeaconsInv, TimerRuns
<1>2. stackTimer' = TRUE /\ UNCHANGED <<old, bpIncrease, taskVars, backlog, known>>
  BY DEF BeaconTimerFires
<1>3. CASE PostNormal /\ RemainingInterval
  <2>1. posted' \in 0 .. MAX_EVENTS /\ posted' > 0 /\ beaconType' = "NORMAL"
    BY <1>3, PostStep DEF PostNormal, BeaconsInv, BeaconsTypeOK
  <2>2. tHasPassed' = TRUE /\ beaconTimer' = TRUE /\ UNCHANGED <<interval, t, young>>
    BY <1>3 DEF RemainingInterval
  <2>3. BeaconsTypeOK'
    BY <1>1, <1>2, <2>1, <2>2 DEF BeaconsInv, BeaconsTypeOK, Type, taskVars
  <2>4. TimerRuns' /\ TimesInInterval'
    BY <1>1, <2>2 DEF BeaconsInv, TimerRuns, TimesInInterval
  <2>5. ExtraHasBeacon'
    BY <2>1 DEF ExtraHasBeacon
  <2> QED
    BY <2>3, <2>4, <2>5 DEF BeaconsInv
<1>4. CASE DecayInterval /\ UNCHANGED <<beaconType, posted>>
  <2> DEFINE i == IF 2 * interval > MAXINTERVAL THEN MAXINTERVAL ELSE 2 * interval
  <2>1. i \in MININTERVAL .. MAXINTERVAL
    BY <1>1 DEF BeaconsInv, TimesInInterval
  <2>2. ChooseAdvertiseTime(i)
    BY <1>4 DEF DecayInterval
  <2> HIDE DEF i
  <2>3. /\ interval' \in 0 .. MAXINTERVAL /\ t' \in 0 .. MAXINTERVAL
        /\ tHasPassed' \in BOOLEAN /\ young' \in BOOLEAN
        /\ beaconTimer' = TRUE /\ TimesInInterval'
    BY <1>1, <2>1, <2>2, ChooseStep
  <2>4. BeaconsTypeOK'
    BY <1>1, <1>2, <1>4, <2>3 DEF BeaconsInv, BeaconsTypeOK, taskVars
  <2>5. TimerRuns'
    BY <1>1, <2>3 DEF TimerRuns
  <2>6. ExtraHasBeacon'
    BY <1>2, <1>4 DEF BeaconsInv, ExtraHasBeacon, taskVars
  <2> QED
    BY <2>3, <2>4, <2>5, <2>6 DEF BeaconsInv
<1> QED
  BY <1>1, <1>3, <1>4 DEF BeaconTimerFires

(* The check of the stack sets extraBeaconSending only with a post.         *)
LEMMA StackCheckStep ==
  ASSUME BeaconsInv, StackCheckTimerFires
  PROVE  BeaconsInv'
<1>1. stackTimer' = FALSE /\ bpIncrease' = (IF young THEN bpIncrease ELSE Rises)
      /\ UNCHANGED <<running, trickleVars, inMac, announced, backlog, known>>
  BY DEF StackCheckTimerFires
<1>2. stackTimer' \in BOOLEAN /\ bpIncrease' \in BOOLEAN
  BY <1>1 DEF Rises, BeaconsInv, BeaconsTypeOK
<1>3. \/ Report
      \/ old' \in {old, backlog} /\ UNCHANGED <<extra, beaconType, posted>>
  BY DEF StackCheckTimerFires
<1>4. TimerRuns' /\ TimesInInterval'
  BY <1>1 DEF BeaconsInv, TimerRuns, TimesInInterval, trickleVars
<1>5. CASE Report
  <2>1. posted' \in 0 .. MAX_EVENTS /\ posted' > 0 /\ beaconType' = "NORMAL"
        /\ extra' = TRUE /\ old' = backlog
    BY <1>5, PostStep DEF Report, PostNormal, BeaconsInv, BeaconsTypeOK
  <2>2. BeaconsTypeOK'
    BY <1>1, <1>2, <2>1 DEF BeaconsInv, BeaconsTypeOK, Type, trickleVars
  <2>3. ExtraHasBeacon'
    BY <2>1 DEF ExtraHasBeacon
  <2> QED
    BY <1>4, <2>2, <2>3 DEF BeaconsInv
<1>6. CASE old' \in {old, backlog} /\ UNCHANGED <<extra, beaconType, posted>>
  <2>1. BeaconsTypeOK'
    BY <1>1, <1>2, <1>6 DEF BeaconsInv, BeaconsTypeOK, trickleVars
  <2>2. ExtraHasBeacon'
    BY <1>1, <1>6 DEF BeaconsInv, ExtraHasBeacon
  <2> QED
    BY <1>4, <2>1, <2>2 DEF BeaconsInv
<1> QED
  BY <1>3, <1>5, <1>6

(* The steps of the beacons themselves: one that leaves the queue enters    *)
(* the MAC, and one that leaves the MAC clears the flag.                    *)
LEMMA TaskStep ==
  ASSUME BeaconsInv, BeaconTaken \/ BeaconRefused \/ BeaconSendDone
  PROVE  BeaconsInv'
<1> USE BeaconsAssumption
<1>1. UNCHANGED <<running, trickleVars, checkVars, backlog, known>>
  BY DEF BeaconTaken, BeaconRefused, BeaconSendDone, taskVars
<1>2. TimerRuns' /\ TimesInInterval'
  BY <1>1 DEF BeaconsInv, TimerRuns, TimesInInterval, trickleVars
<1>3. posted' \in 0 .. MAX_EVENTS /\ inMac' \in 0 .. MAX_FRAMES
  BY DEF BeaconTaken, BeaconRefused, BeaconSendDone, taskVars, BeaconsInv, BeaconsTypeOK
<1>4. extra' \in BOOLEAN /\ beaconType' \in Type /\ announced' \in Backlog \cup {NONE}
  BY DEF BeaconTaken, BeaconRefused, BeaconSendDone, taskVars, BeaconsInv, BeaconsTypeOK, Type
<1>5. BeaconsTypeOK'
  BY <1>1, <1>3, <1>4 DEF BeaconsInv, BeaconsTypeOK, trickleVars, checkVars
<1>6. ExtraHasBeacon'
  <2>1. CASE BeaconTaken
    <3>1. inMac' > 0
      BY <2>1 DEF BeaconTaken, BeaconsInv, BeaconsTypeOK
    <3> QED
      BY <3>1 DEF ExtraHasBeacon
  <2>2. CASE BeaconRefused
    BY <2>2 DEF BeaconRefused, ExtraHasBeacon
  <2>3. CASE BeaconSendDone
    BY <2>3 DEF BeaconSendDone, ExtraHasBeacon
  <2> QED
    BY <2>1, <2>2, <2>3
<1> QED
  BY <1>2, <1>5, <1>6 DEF BeaconsInv

(* What others do: they post or leave the queue alone.                      *)
LEMMA OutsideStep ==
  ASSUME BeaconsInv, IntervalAges \/ NoRoute \/ DataPath \/ (\E type \in Type : RecvBeacon(type))
  PROVE  BeaconsInv'
<1>1. /\ UNCHANGED <<running, interval, t, tHasPassed, beaconTimer, checkVars, taskVars>>
      /\ young' \in {young, FALSE}
  BY DEF IntervalAges, NoRoute, DataPath, RecvBeacon, trickleVars
<1>2. Post \/ posted' = posted
  BY DEF IntervalAges, NoRoute, DataPath, RecvBeacon, PostNormal
<1>3. posted' \in 0 .. MAX_EVENTS /\ posted' >= posted
  <2>1. CASE Post
    BY <2>1, PostStep DEF BeaconsInv, BeaconsTypeOK
  <2>2. CASE posted' = posted
    BY <2>2, BeaconsAssumption DEF BeaconsInv, BeaconsTypeOK
  <2> QED
    BY <1>2, <2>1, <2>2
<1>4. backlog' \in Backlog
  BY DEF IntervalAges, NoRoute, DataPath, RecvBeacon, BeaconsInv, BeaconsTypeOK
<1>5. beaconType' \in Type
  BY DEF IntervalAges, NoRoute, DataPath, RecvBeacon, PostNormal, BeaconsInv, BeaconsTypeOK, Type
<1>6. known' \in BOOLEAN
  <2>1. CASE DataPath
    <3>1. known' \in {known, known \/ backlog' > backlog}
      BY <2>1 DEF DataPath
    <3>2. known \in BOOLEAN /\ (known \/ backlog' > backlog) \in BOOLEAN
      BY DEF BeaconsInv, BeaconsTypeOK
    <3> QED
      BY <3>1, <3>2
  <2>2. CASE ~DataPath
    BY <2>2 DEF IntervalAges, NoRoute, RecvBeacon, BeaconsInv, BeaconsTypeOK
  <2> QED
    BY <2>1, <2>2
<1>7. BeaconsTypeOK'
  BY <1>1, <1>3, <1>4, <1>5, <1>6 DEF BeaconsInv, BeaconsTypeOK, checkVars, taskVars
<1>8. TimerRuns' /\ TimesInInterval'
  BY <1>1 DEF BeaconsInv, TimerRuns, TimesInInterval
<1>9. ExtraHasBeacon'
  BY <1>1, <1>3 DEF BeaconsInv, BeaconsTypeOK, ExtraHasBeacon, taskVars
<1> QED
  BY <1>7, <1>8, <1>9 DEF BeaconsInv

LEMMA BeaconsInvInductive == BeaconsSpec => []BeaconsInv
<1>1. BeaconsInit => BeaconsInv
  <2> SUFFICES ASSUME BeaconsInit PROVE BeaconsInv
    OBVIOUS
  <2> USE BeaconsAssumption DEF BeaconsInit
  <2>1. BeaconsTypeOK
    <3>1. 0 \in 0 .. MAXINTERVAL /\ 0 \in 0 .. MAX_EVENTS /\ 0 \in 0 .. MAX_FRAMES /\ 0 \in Backlog
      BY DEF Backlog
    <3>2. announced \in Backlog \cup {NONE} /\ beaconType \in Type
      BY DEF Type
    <3>3. /\ interval \in 0 .. MAXINTERVAL /\ t \in 0 .. MAXINTERVAL
          /\ posted \in 0 .. MAX_EVENTS /\ inMac \in 0 .. MAX_FRAMES
          /\ backlog \in Backlog /\ old \in Backlog
      BY <3>1
    <3> QED
      BY <3>2, <3>3 DEF BeaconsTypeOK
  <2>2. TimerRuns /\ TimesInInterval /\ ExtraHasBeacon
    BY DEF TimerRuns, TimesInInterval, ExtraHasBeacon
  <2> QED
    BY <2>1, <2>2 DEF BeaconsInv
<1>2. BeaconsInv /\ [BeaconsNext]_beaconVars => BeaconsInv'
  <2> SUFFICES ASSUME BeaconsInv, [BeaconsNext]_beaconVars
               PROVE  BeaconsInv'
    OBVIOUS
  <2>1. CASE UNCHANGED beaconVars
    BY <2>1 DEF beaconVars, trickleVars, checkVars, taskVars, BeaconsInv, BeaconsTypeOK,
                TimerRuns, TimesInInterval, ExtraHasBeacon
  <2> QED
    BY <2>1, StartStep, StopStep, BeaconTimerStep, StackCheckStep, TaskStep, OutsideStep
    DEF BeaconsNext
<1> QED
  BY <1>1, <1>2, PTL DEF BeaconsSpec

(* Types, the limit on intervals that are doubled included.                 *)
THEOREM BeaconsTypeCorrect == BeaconsSpec => []BeaconsTypeOK
BY BeaconsInvInductive, PTL DEF BeaconsInv

(* No handler leaves a running engine without its beacon timer.             *)
THEOREM TimerKeepsRunning == BeaconsSpec => []TimerRuns
BY BeaconsInvInductive, PTL DEF BeaconsInv

(* For any limits of at least two ticks, odd ones included, the beacon is   *)
(* sent inside its interval and no division is by 0.                        *)
THEOREM BeaconsInTime == BeaconsSpec => []TimesInInterval
BY BeaconsInvInductive, PTL DEF BeaconsInv

(* The check of the stack is never switched off for good.                   *)
THEOREM ExtraIsDue == BeaconsSpec => []ExtraHasBeacon
BY BeaconsInvInductive, PTL DEF BeaconsInv

(* The difference in uint16_t.                                              *)
LEMMA Differences ==
  ASSUME NEW x \in Int, -MAX_BACKLOG <= x, x <= MAX_BACKLOG
  PROVE  /\ x >= 0 => x % WORD = x
         /\ x < 0 => x % WORD >= DIFF_QUEUE_TH
<1> USE BeaconsAssumption
<1>1. CASE x >= 0
  <2>1. x < WORD /\ WORD > 0
    OBVIOUS
  <2> QED
    BY <1>1, <2>1
<1>2. CASE x < 0
  <2>1. -WORD <= x /\ WORD > 0
    OBVIOUS
  <2>2. x % WORD = x + WORD
    BY <1>2, <2>1
  <2> QED
    BY <1>2, <2>2
<1> QED
  BY <1>1, <1>2

(* In a run of any length the check of the stack misses no large change     *)
(* that it looks at, and a small one sets it off only as a fall after a     *)
(* rise.                                                                    *)
THEOREM DifferencesAreReported == BeaconsSpec => DifferencesReported
<1> DEFINE change == old' - old
           large == change >= DIFF_QUEUE_TH \/ -change >= DIFF_QUEUE_TH
           reports == extra' /\ ~extra
           Reported == /\ ~young /\ large => reports
                       /\ reports => large \/ (bpIncrease /\ change < 0)
<1>1. BeaconsInv /\ [BeaconsNext]_beaconVars => [Reported]_beaconVars
  <2> SUFFICES ASSUME BeaconsInv, BeaconsNext
               PROVE  Reported
    OBVIOUS
  <2> USE BeaconsAssumption
  <2>1. old \in 0 .. MAX_BACKLOG /\ backlog \in 0 .. MAX_BACKLOG
    BY DEF BeaconsInv, BeaconsTypeOK, Backlog
  <2>2. CASE old' = old /\ (extra' => extra)
    <3>1. change = 0
      BY <2>1, <2>2
    <3> QED
      BY <2>2, <3>1
  <2>3. CASE StackCheckTimerFires /\ old' # old
    <3>1. old' = backlog
      BY <2>3 DEF StackCheckTimerFires, Report
    <3>2. CASE young
      BY <2>3, <3>2 DEF StackCheckTimerFires
    <3>3. CASE ~young
      <4>1. \/ Diff >= DIFF_QUEUE_TH /\ extra' /\ ~extra
            \/ Diff < DIFF_QUEUE_TH /\ (extra' <=> extra)
        BY <2>3, <3>3, Zenon DEF StackCheckTimerFires, Report
      <4>2. CASE old < backlog
        <5>1. Diff = backlog - old
          BY <2>1, <4>2, Differences DEF Diff, Rises
        <5> QED
          BY <2>1, <3>1, <3>3, <4>1, <4>2, <5>1
      <4>3. CASE backlog < old /\ ~bpIncrease
        <5>1. Diff = old - backlog
          BY <2>1, <4>3, Differences DEF Diff, Rises
        <5> QED
          BY <2>1, <3>1, <3>3, <4>1, <4>3, <5>1
      <4>4. CASE backlog < old /\ bpIncrease
        <5>1. Diff = (backlog - old) % WORD
          BY <4>4 DEF Diff, Rises
        <5>2. ~(Diff < DIFF_QUEUE_TH)
          <6> DEFINE x == backlog - old
          <6>1. x \in Int /\ -MAX_BACKLOG <= x /\ x < 0 /\ x <= MAX_BACKLOG
            BY <2>1, <4>4
          <6>2. x % WORD >= DIFF_QUEUE_TH /\ x % WORD \in Int
            BY <6>1, Differences
          <6> QED
            BY <5>1, <6>2
        <5>3. extra' /\ ~extra
          BY <4>1, <5>2, Zenon
        <5>4. change < 0
          BY <2>1, <3>1, <4>4
        <5> QED
          BY <4>4, <5>3, <5>4
      <4> QED
        BY <2>1, <2>3, <3>1, <4>2, <4>3, <4>4
    <3> QED
      BY <3>2, <3>3
  <2>4. CASE StackCheckTimerFires /\ old' = old
    <3>1. CASE Report /\ ~young /\ Diff >= DIFF_QUEUE_TH
      <4>1. old = backlog
        BY <2>4, <3>1 DEF Report
      <4>2. Diff = 0
        BY <2>1, <4>1, Differences DEF Diff, Rises
      <4> QED
        BY <3>1, <4>2
    <3>2. CASE UNCHANGED extra
      BY <2>2, <2>4, <3>2
    <3> QED
      BY <2>4, <3>1, <3>2 DEF StackCheckTimerFires
  <2>5. CASE ~StackCheckTimerFires
    <3>1. old' = old /\ (extra' => extra)
      BY <2>5 DEF BeaconsNext, Start, Stop, BeaconTimerFires, IntervalAges, BeaconTaken,
                  BeaconRefused, BeaconSendDone, RecvBeacon, NoRoute, DataPath, checkVars,
                  taskVars
    <3> QED
      BY <2>2, <3>1
  <2> QED
    BY <2>3, <2>4, <2>5
<1> QED
  BY <1>1, BeaconsInvInductive, PTL DEF BeaconsSpec, DifferencesReported

=============================================================================
