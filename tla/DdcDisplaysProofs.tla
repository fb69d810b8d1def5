-------------------------- MODULE DdcDisplaysProofs --------------------------
(***************************************************************************)
(* Theorems about external monitors, for any buses and any number of       *)
(* requests, detections and failures.  The last part shows that each of    *)
(* them implements BrightnessPromise.                                      *)
(***************************************************************************)
EXTENDS DdcDisplays, TLAPS

Monitors == [on : BOOLEAN, brightness : Values, touched : BOOLEAN]

\* The displays that are offered to KWin, and those that did not answer yet.
Offered == [ref : Nat, brightness : Values, pendingBrightness : Values \cup {NoBrightness},
            retryCounter : Nat, timer : BOOLEAN,
            requests : Seq(Values), results : Seq(BOOLEAN), failed : Nat]

Tried == [ref : Nat, brightness : {NoBrightness}, pendingBrightness : {NoBrightness},
          retryCounter : Nat, timer : BOOLEAN,
          requests : Seq(Values), results : Seq(BOOLEAN), failed : Nat]

TypeOK ==
    /\ monitor \in [Buses -> Monitors]
    /\ refs \in Nat /\ statusEvents \in Seq([what : {"added", "removed"}, id : Buses])
    /\ performedDetection \in BOOLEAN /\ active \in BOOLEAN
    /\ DOMAIN displays \subseteq Buses /\ displays \in [DOMAIN displays -> Offered]
    /\ DOMAIN pendingDisplays \subseteq Buses /\ pendingDisplays \in [DOMAIN pendingDisplays -> Tried]
    /\ events \in Nat

\* Nothing is listed before the first detection.
DetectionFirst == ~performedDetection => displays = <<>> /\ pendingDisplays = <<>>

Last(s) == s[Len(s)]

\* A display d on a monitor m: the value that is pending is the one requested,
\* and the last one the worker got.  If no buttons were used, it is shown when
\* the last result is a success and the worker has nothing to do; with all
\* results handled the timer runs, and a display at rest shows the brightness.
FollowsRequests(d, m) ==
    /\ d.pendingBrightness \in {NoBrightness, d.brightness}
    /\ d.pendingBrightness # NoBrightness /\ d.requests # <<>>
           => Last(d.requests) = d.pendingBrightness
    /\ ~m.touched =>
           /\ d.pendingBrightness # NoBrightness /\ d.requests = <<>> =>
                  IF d.results = <<>>
                  THEN d.timer /\ (d.retryCounter = 0 => m.brightness = d.pendingBrightness)
                  ELSE Last(d.results) => m.brightness = d.pendingBrightness
           /\ Idle(d) => m.brightness = d.brightness

\* Sound: moreover retries are failures in a row; earlier failures may count.
Sound(d, m) == d \in Offered /\ d.failed >= d.retryCounter /\ FollowsRequests(d, m)

DisplaysSound == \A b \in DOMAIN displays : Sound(displays[b], monitor[b])

IInv == TypeOK /\ DetectionFirst /\ DisplaysSound /\ KWinReachesDisplays

-----------------------------------------------------------------------------
(* One display.                                                            *)

LEMMA NoBrightnessIsNone == NoBrightness \notin Values
  BY DdcAssumption DEF NoBrightness, Values

LEMMA Sent ==
    ASSUME NEW S, NEW q \in Seq(S), NEW e \in S
    PROVE  Append(q, e) \in Seq(S) /\ Append(q, e) # <<>> /\ Last(Append(q, e)) = e
  <1> DEFINE t == Append(q, e)
  <1>1. t \in Seq(S) /\ Len(t) = Len(q) + 1 /\ t[Len(q) + 1] = e /\ Len(q) \in Nat
    OBVIOUS
  <1> HIDE DEF t
  <1>2. t # <<>> /\ t[Len(t)] = e
    BY <1>1
  <1>3. Last(t) = e
    BY <1>2, Zenon DEF Last
  <1> QED BY <1>1, <1>2, <1>3 DEF t

LEMMA Read ==
    ASSUME NEW S, NEW q \in Seq(S), q # <<>>
    PROVE  /\ q[1] \in S /\ Tail(q) \in Seq(S) /\ Tail(q) # q
           /\ Tail(q) # <<>> => Last(Tail(q)) = Last(q)
           /\ Tail(q) = <<>> => Last(q) = q[1]
  <1>1. q[1] \in S /\ Tail(q) \in Seq(S) /\ Len(Tail(q)) = Len(q) - 1 /\ Len(q) \in Nat
    OBVIOUS
  <1>2. Tail(q) # q
    <2> SUFFICES ASSUME Tail(q) = q PROVE FALSE
      BY Zenon
    <2>1. Len(q) = Len(q) - 1
      BY <1>1
    <2> QED
      BY <1>1, <2>1
  <1>3. ASSUME Tail(q) # <<>>
        PROVE  Last(Tail(q)) = Last(q)
    BY <1>1, <1>3 DEF Last
  <1>4. ASSUME Tail(q) = <<>>
        PROVE  Last(q) = q[1]
    <2> DEFINE rest == Tail(q)
               n == Len(q)
    <2>1. rest = <<>> /\ Len(rest) = n - 1 /\ n \in Nat
      BY <1>1, <1>4
    <2> HIDE DEF rest, n
    <2>2. n = 1
      BY <2>1
    <2> USE DEF n
    <2> QED
      BY <2>2 DEF Last
  <1> QED
    BY <1>1, <1>2, <1>3, <1>4

LEMMA SetBrightnessOffers ==
    ASSUME NEW d \in Offered, NEW m \in Monitors, NEW value \in Values, d.failed >= d.retryCounter
    PROVE  LET e == setBrightness(d, value)
           IN  /\ e \in Offered /\ e.ref = d.ref /\ e.failed >= e.retryCounter
               /\ FollowsRequests(e, m)
  <1> DEFINE e == setBrightness(d, value)
  <1>1. /\ e \in Offered /\ e.ref = d.ref /\ e.retryCounter = 0 /\ e.failed = d.failed
        /\ e.timer = TRUE /\ e.pendingBrightness = NoBrightness
    BY DEF setBrightness, Offered
  <1>2. e.failed >= e.retryCounter
    BY <1>1 DEF Offered
  <1>3. FollowsRequests(e, m)
    <2> HIDE DEF e
    <2> QED
      BY <1>1 DEF FollowsRequests, Idle
  <1> QED
    BY <1>1, <1>2, <1>3

LEMMA TimeoutKeepsSound ==
    ASSUME NEW d, NEW m \in Monitors, Sound(d, m)
    PROVE  /\ onSetBrightnessTimeout(d).ref = d.ref
           /\ Sound(onSetBrightnessTimeout(d), m)
  <1>1. d \in Offered /\ d.failed >= d.retryCounter /\ FollowsRequests(d, m)
    BY DEF Sound
  <1> DEFINE value == d.brightness
             e == onSetBrightnessTimeout(d)
             sent == Append(d.requests, value)
  <1>2. /\ value \in Values /\ d.requests \in Seq(Values) /\ d.failed \in Nat
        /\ sent \in Seq(Values) /\ sent # <<>> /\ Last(sent) = value
    BY <1>1, Sent DEF Offered
  <1>3. CASE d.pendingBrightness # value
    <2>1. e = [d EXCEPT !.timer = FALSE, !.pendingBrightness = value, !.retryCounter = 0,
                        !.requests = sent]
      BY <1>1, <1>3 DEF onSetBrightnessTimeout, Requests, Offered
    <2>0. d.brightness = value
      OBVIOUS
    <2> HIDE DEF sent, value, e
    <2>2. /\ e \in Offered /\ e.ref = d.ref /\ e.retryCounter = 0 /\ e.failed = d.failed
          /\ e.pendingBrightness = value /\ e.brightness = value /\ e.requests = sent
      BY <1>1, <1>2, <2>1, <2>0 DEF Offered
    <2> HIDE DEF e, value
    <2>3. FollowsRequests(e, m)
      BY <1>2, <2>2 DEF FollowsRequests, Idle
    <2> QED
      BY <1>2, <2>2, <2>3 DEF Sound, e
  <1>4. CASE d.pendingBrightness = value /\ d.retryCounter = 0
    <2>1. e = [d EXCEPT !.timer = FALSE, !.pendingBrightness = NoBrightness]
      BY <1>1, <1>4 DEF onSetBrightnessTimeout, Requests, Offered
    <2>2. /\ e \in Offered /\ e.ref = d.ref /\ e.retryCounter = 0 /\ e.failed = d.failed
          /\ e.pendingBrightness = NoBrightness /\ e.brightness = value
          /\ e.requests = d.requests /\ e.results = d.results
      BY <1>1, <1>4, <2>1 DEF Offered
    <2>3. d.pendingBrightness # NoBrightness
      BY <1>2, <1>4, NoBrightnessIsNone
    <2>4. ~m.touched /\ d.requests = <<>> /\ d.results = <<>> => m.brightness = value
      BY <1>1, <1>4, <2>3 DEF FollowsRequests
    <2> HIDE DEF e, value
    <2>5. FollowsRequests(e, m)
      BY <2>2, <2>4 DEF FollowsRequests, Idle
    <2> QED
      BY <1>2, <2>2, <2>5 DEF Sound, e
  <1>5. CASE d.pendingBrightness = value /\ d.retryCounter # 0
    <2>1. e = [d EXCEPT !.timer = FALSE, !.requests = sent]
      BY <1>1, <1>5 DEF onSetBrightnessTimeout, Requests, Offered
    <2> HIDE DEF sent
    <2>2. /\ e \in Offered /\ e.ref = d.ref /\ e.retryCounter = d.retryCounter
          /\ e.failed = d.failed
          /\ e.pendingBrightness = value /\ e.brightness = value /\ e.requests = sent
      BY <1>1, <1>2, <1>5, <2>1 DEF Offered
    <2> HIDE DEF e, value
    <2>3. FollowsRequests(e, m)
      BY <1>2, <2>2 DEF FollowsRequests, Idle
    <2> QED
      BY <1>1, <2>2, <2>3 DEF Sound, e
  <1> QED
    BY <1>3, <1>4, <1>5

\* A request has been written, or has failed with or without being written.
Worked(d, success) == [d EXCEPT !.requests = Tail(@), !.results = Append(@, success)]

LEMMA WorkerKeepsSound ==
    ASSUME NEW d, NEW m \in Monitors, Sound(d, m), d.requests # <<>>,
           NEW success \in BOOLEAN,
           NEW n \in Monitors, n.touched = m.touched,
           success = FALSE \/ n.brightness = d.requests[1]
    PROVE  Worked(d, success).ref = d.ref /\ Sound(Worked(d, success), n)
  <1> DEFINE e == Worked(d, success)
             rest == Tail(d.requests)
             results == Append(d.results, success)
  <1>1. /\ d \in Offered /\ d.failed >= d.retryCounter /\ FollowsRequests(d, m)
        /\ d.requests \in Seq(Values) /\ d.results \in Seq(BOOLEAN)
    BY DEF Sound, Offered
  <1>2. /\ rest \in Seq(Values) /\ results \in Seq(BOOLEAN)
        /\ results # <<>> /\ Last(results) = success
        /\ rest # <<>> => Last(rest) = Last(d.requests)
        /\ rest = <<>> => Last(d.requests) = d.requests[1]
    <2>1. results \in Seq(BOOLEAN) /\ results # <<>> /\ Last(results) = success
      BY <1>1, Sent
    <2>2. /\ rest \in Seq(Values)
          /\ rest # <<>> => Last(rest) = Last(d.requests)
          /\ rest = <<>> => Last(d.requests) = d.requests[1]
      BY <1>1, Read
    <2> QED
      BY <2>1, <2>2
  <1>3. e = [d EXCEPT !.requests = rest, !.results = results]
    BY <1>1 DEF Offered, Worked
  <1>4. /\ e \in Offered /\ e.ref = d.ref /\ e.failed = d.failed /\ e.retryCounter = d.retryCounter
        /\ e.pendingBrightness = d.pendingBrightness /\ e.brightness = d.brightness
        /\ e.requests = rest /\ e.results = results
    <2> HIDE DEF rest, results, e
    <2> QED
      BY <1>1, <1>2, <1>3 DEF Offered
  <1> HIDE DEF rest, results, e
  <1>5. /\ e.pendingBrightness \in {NoBrightness, e.brightness}
        /\ e.pendingBrightness # NoBrightness => Last(d.requests) = e.pendingBrightness
    BY <1>1, <1>4 DEF FollowsRequests
  <1>6. e.pendingBrightness # NoBrightness /\ e.requests = <<>> /\ success
            => n.brightness = e.pendingBrightness
    BY <1>2, <1>4, <1>5
  <1>7. FollowsRequests(e, n)
    BY <1>2, <1>4, <1>5, <1>6 DEF FollowsRequests, Idle
  <1> QED
    BY <1>1, <1>4, <1>7 DEF Sound, e

\* A result that does not make the display give up.
LEMMA FinishedKeepsSound ==
    ASSUME NEW d, NEW m \in Monitors, Sound(d, m), d.results # <<>>,
           NEW e, NEW success, success = d.results[1],
           e = ddcBrightnessChangeFinished(
                   [d EXCEPT !.results = Tail(@), !.failed = IF success THEN 0 ELSE @ + 1],
                   success)
    PROVE  e.ref = d.ref /\ Sound(e, m)
  <1> DEFINE rest == Tail(d.results)
             failed == IF success THEN 0 ELSE d.failed + 1
             retries == IF success THEN 0 ELSE d.retryCounter + 1
  <1>1. /\ d \in Offered /\ d.failed >= d.retryCounter /\ FollowsRequests(d, m)
        /\ d.results \in Seq(BOOLEAN) /\ d.failed \in Nat /\ d.retryCounter \in Nat
    BY DEF Sound, Offered
  <1>2. /\ rest \in Seq(BOOLEAN) /\ success \in BOOLEAN
        /\ rest # <<>> => Last(rest) = Last(d.results)
        /\ rest = <<>> => Last(d.results) = success
    BY <1>1, Read
  <1>3. failed \in Nat /\ retries \in Nat /\ failed >= retries /\ (retries = 0 => success)
    BY <1>1, <1>2
  <1>4. e = [d EXCEPT !.results = rest, !.failed = failed, !.retryCounter = retries, !.timer = TRUE]
    <2>1. CASE success
      BY <1>1, <2>1 DEF ddcBrightnessChangeFinished, Offered
    <2>2. CASE ~success
      BY <1>1, <2>2 DEF ddcBrightnessChangeFinished, Offered
    <2> QED
      BY <2>1, <2>2
  <1> HIDE DEF rest, failed, retries
  <1>5. /\ e \in Offered /\ e.ref = d.ref /\ e.failed = failed /\ e.retryCounter = retries
        /\ e.pendingBrightness = d.pendingBrightness /\ e.brightness = d.brightness
        /\ e.requests = d.requests /\ e.results = rest /\ e.timer = TRUE
    BY <1>1, <1>2, <1>3, <1>4 DEF Offered
  <1>6. /\ e.pendingBrightness \in {NoBrightness, e.brightness}
        /\ e.pendingBrightness # NoBrightness /\ e.requests # <<>>
               => Last(e.requests) = e.pendingBrightness
    BY <1>1, <1>5 DEF FollowsRequests
  <1>7. e.pendingBrightness # NoBrightness /\ e.requests = <<>> /\ ~m.touched
            => (Last(d.results) => m.brightness = e.pendingBrightness)
    BY <1>1, <1>5 DEF FollowsRequests
  <1>8. FollowsRequests(e, m)
    BY <1>2, <1>3, <1>5, <1>6, <1>7 DEF FollowsRequests, Idle
  <1> QED
    BY <1>3, <1>5, <1>8 DEF Sound

\* A display that has just been found shows what its monitor does.
LEMMA FoundIsSound ==
    ASSUME NEW d \in Offered, NEW m \in Monitors, d.brightness = m.brightness,
           d.pendingBrightness = NoBrightness, d.retryCounter = 0
    PROVE  Sound(d, m)
  <1>1. d.failed \in Nat
    BY DEF Offered
  <1> QED
    BY <1>1 DEF Sound, FollowsRequests

-----------------------------------------------------------------------------
(* The list of displays.                                                   *)

LEMMA NothingListed ==
    ASSUME NEW S, S = {}, NEW f \in [S -> Nat]
    PROVE  f = <<>>
  OBVIOUS

\* One display changes, and perhaps what its monitor shows.
LEMMA OneDisplay ==
    ASSUME IInv, NEW b \in DOMAIN displays, NEW e,
           displays' = [displays EXCEPT ![b] = e], e.ref = displays[b].ref, Sound(e, monitor'[b]),
           monitor' \in [Buses -> Monitors], \A i \in Buses \ {b} : monitor'[i] = monitor[i],
           UNCHANGED <<refs, statusEvents, performedDetection, pendingDisplays, active,
                       waylandObjects>>,
           events' \in Nat
    PROVE  IInv'
  <1>1. TypeOK'
    BY DEF IInv, TypeOK, Sound
  <1>2. DetectionFirst'
    BY DEF IInv, DetectionFirst
  <1>3. DisplaysSound'
    <2> SUFFICES ASSUME NEW i \in DOMAIN displays'
                 PROVE  Sound(displays'[i], monitor'[i])
      BY DEF DisplaysSound
    <2>1. i \in DOMAIN displays /\ i \in Buses
      BY DEF IInv, TypeOK
    <2>2. CASE i = b
      BY <2>1, <2>2 DEF IInv, TypeOK
    <2>3. CASE i # b
      <3>1. displays'[i] = displays[i] /\ monitor'[i] = monitor[i]
        BY <2>1, <2>3 DEF IInv, TypeOK
      <3>2. Sound(displays[i], monitor[i])
        BY <2>1 DEF IInv, DisplaysSound
      <3> QED
        BY <3>1, <3>2
    <2> QED
      BY <2>2, <2>3
  <1>4. KWinReachesDisplays'
    <2>1. /\ DOMAIN displays' = DOMAIN displays
          /\ \A i \in DOMAIN displays : displays'[i].ref = displays[i].ref
      BY DEF IInv, TypeOK
    <2>2. [i \in DOMAIN displays' |-> displays'[i].ref] = [i \in DOMAIN displays |-> displays[i].ref]
      BY <2>1
    <2> QED
      BY <2>2 DEF IInv, KWinReachesDisplays
  <1> QED
    BY <1>1, <1>2, <1>3, <1>4 DEF IInv

\* The list that KWin is given.
LEMMA ListIsGiven ==
    ASSUME TypeOK', DetectionFirst', setDisplays(displays')
    PROVE  KWinReachesDisplays'
  <1> DEFINE list == [i \in DOMAIN displays' |-> displays'[i].ref]
  <1>1. CASE performedDetection'
    BY <1>1 DEF setDisplays, KWinReachesDisplays
  <1>2. CASE ~performedDetection'
    <2>1. displays' = <<>>
      BY <1>2 DEF DetectionFirst
    <2>2. DOMAIN displays' = {}
      BY <2>1
    <2>3. list \in [DOMAIN displays' -> Nat]
      BY <2>2
    <2>4. list = <<>>
      BY <2>2, <2>3, NothingListed
    <2> QED
      BY <1>2, <2>4 DEF setDisplays, KWinReachesDisplays
  <1> QED
    BY <1>1, <1>2

LEMMA RemovedKeepsSound ==
    ASSUME IInv, NEW b, removeDisplay(b),
           UNCHANGED <<monitor, refs, performedDetection, active, events>>,
           statusEvents' \in Seq([what : {"added", "removed"}, id : Buses])
    PROVE  IInv'
  <1>1. /\ displays \in [DOMAIN displays -> Offered] /\ DOMAIN displays \subseteq Buses
        /\ pendingDisplays \in [DOMAIN pendingDisplays -> Tried]
        /\ DOMAIN pendingDisplays \subseteq Buses
    BY DEF IInv, TypeOK
  <1>2. displays' = Without(displays, {b}) /\ pendingDisplays' = Without(pendingDisplays, {b})
    BY DEF removeDisplay
  <1>3. /\ DOMAIN displays' = DOMAIN displays \ {b}
        /\ displays' \in [DOMAIN displays' -> Offered]
        /\ \A i \in DOMAIN displays' : displays'[i] = displays[i]
        /\ b \notin DOMAIN displays => displays' = displays
    BY <1>1, <1>2 DEF Without, Restrict
  <1>4. /\ DOMAIN pendingDisplays' = DOMAIN pendingDisplays \ {b}
        /\ pendingDisplays' \in [DOMAIN pendingDisplays' -> Tried]
        /\ b \notin DOMAIN pendingDisplays => pendingDisplays' = pendingDisplays
    BY <1>1, <1>2 DEF Without, Restrict
  <1>5. TypeOK'
    BY <1>1, <1>3, <1>4 DEF IInv, TypeOK
  <1>6. DetectionFirst'
    <2> SUFFICES ASSUME ~performedDetection PROVE displays' = <<>> /\ pendingDisplays' = <<>>
      BY DEF DetectionFirst
    <2>1. displays = <<>> /\ pendingDisplays = <<>>
      BY DEF IInv, DetectionFirst
    <2>2. DOMAIN displays = {} /\ DOMAIN pendingDisplays = {}
      BY <2>1
    <2> QED
      BY <1>3, <1>4, <2>1, <2>2
  <1>7. DisplaysSound'
    BY <1>3 DEF IInv, DisplaysSound
  <1>8. KWinReachesDisplays'
    <2>1. CASE b \in DOMAIN displays
      BY <1>5, <1>6, <2>1, ListIsGiven DEF removeDisplay
    <2>2. CASE b \notin DOMAIN displays
      BY <1>3, <2>2 DEF removeDisplay, IInv, KWinReachesDisplays
    <2> QED
      BY <2>1, <2>2
  <1> QED
    BY <1>5, <1>6, <1>7, <1>8 DEF IInv

\* A new display shows what its monitor does, and one that did not answer is
\* being tried.
LEMMA NewDisplay ==
    ASSUME NEW b \in Buses, monitor \in [Buses -> Monitors], refs' \in Nat
    PROVE  Sound(newDisplay(b), monitor[b]) /\ newPending(b) \in Tried
  <1> DEFINE d == newDisplay(b)
  <1>1. monitor[b] \in Monitors /\ monitor[b].brightness \in Values
    BY DEF Monitors
  <1>2. /\ d \in Offered /\ d.brightness = monitor[b].brightness
        /\ d.pendingBrightness = NoBrightness /\ d.retryCounter = 0
    <2>1. <<>> \in Seq(Values) /\ <<>> \in Seq(BOOLEAN) /\ 0 \in Nat
      OBVIOUS
    <2> QED
      BY <1>1, <2>1 DEF newDisplay, Offered
  <1>3. newPending(b) \in Tried
    <2>1. <<>> \in Seq(Values) /\ <<>> \in Seq(BOOLEAN) /\ 0 \in Nat
      OBVIOUS
    <2> QED
      BY <2>1 DEF newPending, newDisplay, Tried
  <1> QED
    BY <1>1, <1>2, <1>3, FoundIsSound

LEMMA DetectedIsSound ==
    ASSUME IInv, refs' \in Nat, detect, setDisplays(displays'), UNCHANGED <<monitor, active, events>>,
           statusEvents' \in Seq([what : {"added", "removed"}, id : Buses])
    PROVE  IInv'
  <1>1. /\ monitor \in [Buses -> Monitors]
        /\ pendingDisplays \in [DOMAIN pendingDisplays -> Tried]
        /\ DOMAIN pendingDisplays \subseteq Buses
    BY DEF IInv, TypeOK
  <1>2. PICK found \in SUBSET Buses, silent \in SUBSET Buses :
            /\ displays' = [b \in found |-> newDisplay(b)]
            /\ pendingDisplays' = PendingAfter(found, silent)
    BY DEF detect
  <1>3. \A b \in Buses : Sound(newDisplay(b), monitor[b]) /\ newPending(b) \in Tried
    BY <1>1, NewDisplay
  <1>4. /\ DOMAIN displays' = found
        /\ \A b \in found : displays'[b] = newDisplay(b) /\ displays'[b] \in Offered
    BY <1>2, <1>3 DEF Sound
  <1>5. displays' \in [DOMAIN displays' -> Offered]
    BY <1>2, <1>4
  <1>6. /\ DOMAIN pendingDisplays' \subseteq Buses
        /\ pendingDisplays' \in [DOMAIN pendingDisplays' -> Tried]
    BY <1>1, <1>2, <1>3 DEF PendingAfter
  <1>7. TypeOK' /\ DetectionFirst'
    BY <1>1, <1>4, <1>5, <1>6 DEF IInv, TypeOK, DetectionFirst, detect
  <1>8. DisplaysSound'
    BY <1>3, <1>4 DEF DisplaysSound
  <1> QED
    BY <1>7, <1>8, ListIsGiven DEF IInv

\* The display that answers in the end is offered, unless there is one.
LEMMA AnsweredIsSound ==
    ASSUME IInv, NEW b \in DOMAIN pendingDisplays, NEW d, Sound(d, monitor[b]),
           retryInitFinished(b, d), UNCHANGED <<world, performedDetection>>
    PROVE  IInv'
  <1>1. /\ displays \in [DOMAIN displays -> Offered] /\ DOMAIN displays \subseteq Buses
        /\ pendingDisplays \in [DOMAIN pendingDisplays -> Tried]
        /\ DOMAIN pendingDisplays \subseteq Buses /\ d \in Offered
    BY DEF IInv, TypeOK, Sound
  <1>2. /\ pendingDisplays' = Without(pendingDisplays, {b})
        /\ displays' = [i \in DOMAIN displays \cup {b} |->
                           IF i \in DOMAIN displays THEN displays[i] ELSE d]
    BY DEF retryInitFinished
  <1>3. /\ DOMAIN displays' \subseteq Buses /\ displays' \in [DOMAIN displays' -> Offered]
        /\ \A i \in DOMAIN displays' :
              \/ i \in DOMAIN displays /\ displays'[i] = displays[i]
              \/ i = b /\ displays'[i] = d
    <2>1. DOMAIN displays' = DOMAIN displays \cup {b}
      BY <1>2
    <2>2. \A i \in DOMAIN displays' :
              displays'[i] = IF i \in DOMAIN displays THEN displays[i] ELSE d
      BY <1>2
    <2>3. \A i \in DOMAIN displays : displays[i] \in Offered
      BY <1>1
    <2>4. \A i \in DOMAIN displays' : displays'[i] \in Offered
      BY <1>1, <2>2, <2>3
    <2>5. displays' = [i \in DOMAIN displays' |-> displays'[i]]
      BY <1>2
    <2> QED
      BY <1>1, <2>1, <2>2, <2>4, <2>5
  <1>4. /\ DOMAIN pendingDisplays' \subseteq Buses
        /\ pendingDisplays' \in [DOMAIN pendingDisplays' -> Tried]
    BY <1>1, <1>2 DEF Without, Restrict
  <1>5. performedDetection
    <2> SUFFICES ASSUME ~performedDetection PROVE FALSE
      OBVIOUS
    <2>1. pendingDisplays = <<>>
      BY DEF IInv, DetectionFirst
    <2> QED
      BY <2>1
  <1>6. TypeOK' /\ DetectionFirst'
    BY <1>3, <1>4, <1>5 DEF IInv, TypeOK, DetectionFirst, world
  <1>7. DisplaysSound'
    BY <1>3 DEF IInv, DisplaysSound, world
  <1> QED
    BY <1>6, <1>7, ListIsGiven DEF IInv, retryInitFinished

\* A display is tried again, or answers.
Answered(t, value) == [t EXCEPT !.brightness = value, !.retryCounter = 0, !.timer = FALSE]

LEMMA TriedAgain ==
    ASSUME NEW t \in Tried, NEW value \in Values
    PROVE  /\ Retries(t) \in Tried
           /\ Answered(t, value) \in Offered /\ Answered(t, value).brightness = value
           /\ Answered(t, value).pendingBrightness = NoBrightness
           /\ Answered(t, value).retryCounter = 0
  <1>1. /\ t.retryCounter \in Nat /\ t.pendingBrightness = NoBrightness
        /\ t.requests \in Seq(Values) /\ t.results \in Seq(BOOLEAN)
    BY DEF Tried
  <1>2. Retries(t) \in Tried
    BY <1>1 DEF Retries, Tried
  <1>3. /\ Answered(t, value).brightness = value
        /\ Answered(t, value).pendingBrightness = NoBrightness
        /\ Answered(t, value).retryCounter = 0
    BY <1>1 DEF Answered, Tried
  <1>4. Answered(t, value) \in Offered
    BY <1>1 DEF Answered, Tried, Offered
  <1> QED
    BY <1>2, <1>3, <1>4

\* A display that does not answer is tried again, or given up.
LEMMA TriesKeepSound ==
    ASSUME IInv, NEW b \in DOMAIN pendingDisplays,
           \/ pendingDisplays' = [pendingDisplays EXCEPT ![b] = Retries(pendingDisplays[b])]
           \/ pendingDisplays' = Without(pendingDisplays, {b}),
           UNCHANGED <<world, performedDetection, displays, waylandObjects>>
    PROVE  IInv'
  <1>1. /\ pendingDisplays \in [DOMAIN pendingDisplays -> Tried]
        /\ DOMAIN pendingDisplays \subseteq Buses /\ pendingDisplays[b] \in Tried
    BY DEF IInv, TypeOK
  <1>2. Retries(pendingDisplays[b]) \in Tried
    <2>1. 0 \in Values
      BY DdcAssumption DEF Values
    <2> QED
      BY <1>1, <2>1, TriedAgain
  <1>3. /\ DOMAIN pendingDisplays' \subseteq Buses
        /\ pendingDisplays' \in [DOMAIN pendingDisplays' -> Tried]
    BY <1>1, <1>2 DEF Without, Restrict
  <1>4. performedDetection
    <2> SUFFICES ASSUME ~performedDetection PROVE FALSE
      OBVIOUS
    <2>1. pendingDisplays = <<>>
      BY DEF IInv, DetectionFirst
    <2> QED
      BY <2>1
  <1> QED
    BY <1>3, <1>4 DEF IInv, TypeOK, DetectionFirst, DisplaysSound, KWinReachesDisplays, world

-----------------------------------------------------------------------------
(* The steps.                                                              *)

LEMMA InitIsSound == Init => IInv
  <1> SUFFICES ASSUME Init PROVE IInv
    OBVIOUS
  <1>1. 0 \in Values
    BY DdcAssumption DEF Values
  <1>2. monitor \in [Buses -> Monitors]
    BY <1>1 DEF Init, Monitors
  <1>3. displays = <<>> /\ pendingDisplays = <<>>
    BY DEF Init
  <1>4. TypeOK
    <2>1. statusEvents \in Seq([what : {"added", "removed"}, id : Buses])
      BY DEF Init
    <2>2. DOMAIN displays = {} /\ DOMAIN pendingDisplays = {}
      BY <1>3
    <2>3. displays \in [{} -> Offered] /\ pendingDisplays \in [{} -> Tried]
      BY <1>3, <2>2
    <2> QED
      BY <1>2, <2>1, <2>2, <2>3 DEF Init, TypeOK
  <1> QED
    BY <1>3, <1>4 DEF Init, IInv, DetectionFirst, DisplaysSound, KWinReachesDisplays

LEMMA WorldKeepsSound == ASSUME IInv, World PROVE IInv'
  <1> USE DEF IInv
  <1>0. /\ monitor \in [Buses -> Monitors] /\ DOMAIN displays \subseteq Buses
        /\ statusEvents \in Seq([what : {"added", "removed"}, id : Buses])
        /\ events \in Nat /\ active \in BOOLEAN
    BY DEF TypeOK
  <1>1. ASSUME NEW b \in Buses, displayStatusChanged(b) PROVE IInv'
    <2>1. /\ monitor' = [monitor EXCEPT ![b].on = ~monitor[b].on] /\ events' \in Nat
          /\ UNCHANGED <<unshown, refs, active>>
      BY <1>0, <1>1 DEF displayStatusChanged, Happens
    <2>2. /\ monitor' \in [Buses -> Monitors]
          /\ \A i \in Buses : /\ monitor'[i].brightness = monitor[i].brightness
                              /\ monitor'[i].touched = monitor[i].touched
      BY <1>0, <2>1 DEF Monitors
    <2>3. statusEvents' \in Seq([what : {"added", "removed"}, id : Buses])
      BY <1>0, <1>1 DEF displayStatusChanged
    <2>4. TypeOK' /\ DetectionFirst' /\ KWinReachesDisplays'
      BY <2>1, <2>2, <2>3 DEF TypeOK, DetectionFirst, KWinReachesDisplays, unshown
    <2>5. DisplaysSound'
      <3> SUFFICES ASSUME NEW i \in DOMAIN displays PROVE Sound(displays[i], monitor'[i])
        BY <2>1 DEF DisplaysSound, unshown
      <3>1. i \in Buses /\ Sound(displays[i], monitor[i])
        BY <1>0 DEF DisplaysSound
      <3> QED
        BY <2>2, <3>1 DEF Sound, FollowsRequests
    <2> QED
      BY <2>4, <2>5
  <1>2. ASSUME NEW b \in Buses, NEW value \in Values, MonitorButtons(b, value) PROVE IInv'
    <2>1. /\ monitor' = [monitor EXCEPT ![b].brightness = value, ![b].touched = TRUE]
          /\ events' \in Nat /\ UNCHANGED <<unshown, refs, statusEvents, active>>
      BY <1>0, <1>2 DEF MonitorButtons, Happens
    <2>2. /\ monitor' \in [Buses -> Monitors] /\ monitor'[b].touched = TRUE
          /\ \A i \in Buses : monitor'[i].touched = TRUE \/ monitor'[i] = monitor[i]
      BY <1>0, <2>1 DEF Monitors
    <2>4. TypeOK' /\ DetectionFirst' /\ KWinReachesDisplays'
      BY <2>1, <2>2 DEF TypeOK, DetectionFirst, KWinReachesDisplays, unshown
    <2>5. DisplaysSound'
      <3> SUFFICES ASSUME NEW i \in DOMAIN displays PROVE Sound(displays[i], monitor'[i])
        BY <2>1 DEF DisplaysSound, unshown
      <3>1. i \in Buses /\ Sound(displays[i], monitor[i])
        BY <1>0 DEF DisplaysSound
      <3> QED
        BY <2>2, <3>1 DEF Sound, FollowsRequests
    <2> QED
      BY <2>4, <2>5
  <1>3. ASSUME NEW b \in Buses, NEW value \in Values, requested_brightness(b, value) PROVE IInv'
    <2> DEFINE e == setBrightness(displays[b], value)
    <2>1. /\ displays' = [displays EXCEPT ![b] = e] /\ events' \in Nat
          /\ monitor' = [monitor EXCEPT ![b].touched = FALSE]
          /\ UNCHANGED <<refs, statusEvents, performedDetection, pendingDisplays, active,
                         waylandObjects>>
      BY <1>0, <1>3 DEF requested_brightness, Happens
    <2>2. b \in DOMAIN displays
      BY <1>3 DEF requested_brightness, KWinReachesDisplays
    <2>3. monitor' \in [Buses -> Monitors] /\ \A i \in Buses \ {b} : monitor'[i] = monitor[i]
      BY <1>0, <2>1 DEF Monitors
    <2>4. Sound(displays[b], monitor[b])
      BY <2>2 DEF DisplaysSound
    <2>5. e.ref = displays[b].ref /\ Sound(e, monitor'[b])
      <3>1. monitor'[b] \in Monitors
        BY <2>3
      <3> QED
        BY <2>4, <3>1, SetBrightnessOffers DEF Sound
    <2> HIDE DEF e, IInv
    <2> QED
      BY <2>1, <2>2, <2>3, <2>5, OneDisplay
  <1>4. ASSUME activeChanged PROVE IInv'
    <2>1. /\ active' \in BOOLEAN /\ events' \in Nat
          /\ setDisplays(displays)
          /\ UNCHANGED <<monitor, refs, statusEvents, performedDetection, displays,
                         pendingDisplays>>
      BY <1>0, <1>4 DEF activeChanged, Happens
    <2>2. TypeOK' /\ DetectionFirst' /\ DisplaysSound'
      BY <2>1 DEF TypeOK, DetectionFirst, DisplaysSound
    <2>3. setDisplays(displays')
      BY <2>1 DEF setDisplays
    <2> QED
      BY <2>2, <2>3, ListIsGiven
  <1> QED
    BY <1>1, <1>2, <1>3, <1>4 DEF World

LEMMA DetectorKeepsSound == ASSUME IInv, Detector PROVE IInv'
  <1>0. /\ refs \in Nat
        /\ statusEvents \in Seq([what : {"added", "removed"}, id : Buses])
        /\ statusEvents # <<>> =>
               Tail(statusEvents) \in Seq([what : {"added", "removed"}, id : Buses])
    BY Read DEF IInv, TypeOK
  <1>1. CASE Detect
    BY <1>0, <1>1, DetectedIsSound DEF Detect, world
  <1>2. CASE redetect
    <2>1. /\ statusEvents' \in Seq([what : {"added", "removed"}, id : Buses])
          /\ UNCHANGED <<monitor, active, events>>
      BY <1>0, <1>2 DEF redetect
    <2>2. CASE refs' = refs + 1 /\ detect /\ setDisplays(displays')
      BY <1>0, <2>1, <2>2, DetectedIsSound
    <2>3. CASE /\ performedDetection
               /\ displays' = <<>> /\ setDisplays(displays')
               /\ UNCHANGED <<refs, performedDetection, pendingDisplays>>
      <3>1. TypeOK' /\ DetectionFirst' /\ DisplaysSound'
        BY <2>1, <2>3 DEF IInv, TypeOK, DetectionFirst, DisplaysSound
      <3> QED
        BY <2>3, <3>1, ListIsGiven DEF IInv
    <2>4. CASE ~performedDetection /\ UNCHANGED <<refs, unshown>>
      BY <2>1, <2>4 DEF IInv, TypeOK, DetectionFirst, DisplaysSound, KWinReachesDisplays, unshown
    <2> QED
      BY <1>2, <2>2, <2>3, <2>4 DEF redetect
  <1>3. CASE displayRemoved
    BY <1>0, <1>3, RemovedKeepsSound DEF displayRemoved
  <1> QED
    BY <1>1, <1>2, <1>3 DEF Detector

LEMMA WritingKeepsSound ==
    ASSUME IInv, NEW b \in Buses,
           RetryInit(b) \/ SetBrightnessTimeout(b) \/ ddcSetBrightness(b)
                        \/ BrightnessChangeFinished(b)
    PROVE  IInv'
  <1>0. /\ monitor \in [Buses -> Monitors] /\ monitor[b] \in Monitors
        /\ refs \in Nat /\ events \in Nat
        /\ statusEvents \in Seq([what : {"added", "removed"}, id : Buses])
        /\ displays \in [DOMAIN displays -> Offered]
        /\ pendingDisplays \in [DOMAIN pendingDisplays -> Tried]
        /\ b \in DOMAIN displays => Sound(displays[b], monitor[b]) /\ displays[b] \in Offered
    BY DEF IInv, TypeOK, DisplaysSound
  <1>1. CASE RetryInit(b)
    <2> DEFINE tried == pendingDisplays[b]
               value == monitor[b].brightness
               d == Answered(tried, value)
    <2>1. b \in DOMAIN pendingDisplays /\ UNCHANGED <<world, performedDetection>>
      BY <1>1 DEF RetryInit
    <2>2. CASE retryInitFinished(b, d)
      <3>1. tried \in Tried /\ value \in Values /\ value = monitor[b].brightness
        BY <1>0, <2>1 DEF Monitors
      <3> HIDE DEF tried, value
      <3>2. /\ d \in Offered /\ d.brightness = value
            /\ d.pendingBrightness = NoBrightness /\ d.retryCounter = 0
        BY <3>1, TriedAgain
      <3> HIDE DEF d
      <3>3. Sound(d, monitor[b])
        BY <1>0, <3>1, <3>2, FoundIsSound
      <3> QED
        BY <2>1, <2>2, <3>3, AnsweredIsSound
    <2>3. CASE /\ \/ pendingDisplays' = [pendingDisplays EXCEPT ![b] = Retries(tried)]
                  \/ pendingDisplays' = Without(pendingDisplays, {b})
               /\ UNCHANGED <<displays, waylandObjects>>
      BY <2>1, <2>3, TriesKeepSound
    <2> QED
      BY <1>1, <2>2, <2>3 DEF RetryInit, Answered
  <1>2. CASE SetBrightnessTimeout(b)
    <2> DEFINE e == onSetBrightnessTimeout(displays[b])
    <2>1. /\ b \in DOMAIN displays /\ displays' = [displays EXCEPT ![b] = e]
          /\ UNCHANGED <<detected, monitor, waylandObjects>>
      BY <1>2 DEF SetBrightnessTimeout
    <2>2. e.ref = displays[b].ref /\ Sound(e, monitor'[b])
      BY <1>0, <2>1, TimeoutKeepsSound
    <2> HIDE DEF e
    <2> QED
      BY <1>0, <2>1, <2>2, OneDisplay DEF detected
  <1>3. CASE ddcSetBrightness(b)
    <2>1. b \in DOMAIN displays /\ displays[b].requests # <<>> /\ UNCHANGED <<detected, waylandObjects>>
      BY <1>3 DEF ddcSetBrightness
    <2>2. PICK success \in BOOLEAN :
              /\ displays' = [displays EXCEPT ![b].requests = Tail(@),
                                              ![b].results = Append(@, success)]
              /\ \/ monitor' = [monitor EXCEPT ![b].brightness = displays[b].requests[1]]
                 \/ ~success /\ monitor' = monitor
      BY <1>3 DEF ddcSetBrightness
    <2> DEFINE e == Worked(displays[b], success)
    <2>3. displays' = [displays EXCEPT ![b] = e]
      BY <1>0, <2>1, <2>2 DEF Offered, Worked
    <2>4. displays[b].requests[1] \in Values
      BY <1>0, <2>1 DEF Offered
    <2>5. /\ monitor' \in [Buses -> Monitors] /\ \A i \in Buses \ {b} : monitor'[i] = monitor[i]
          /\ monitor'[b].touched = monitor[b].touched
          /\ success => monitor'[b].brightness = displays[b].requests[1]
      BY <1>0, <2>2, <2>4 DEF Monitors
    <2>6. e.ref = displays[b].ref /\ Sound(e, monitor'[b])
      <3> DEFINE d == displays[b]
                 m == monitor[b]
                 n == monitor'[b]
      <3>1. n \in Monitors /\ m \in Monitors /\ Sound(d, m) /\ d.requests # <<>>
        BY <1>0, <2>1, <2>5
      <3>2. n.touched = m.touched /\ (success = FALSE \/ n.brightness = d.requests[1])
        BY <2>5
      <3> HIDE DEF d, m, n
      <3>3. Worked(d, success).ref = d.ref /\ Sound(Worked(d, success), n)
        BY <3>1, <3>2, WorkerKeepsSound
      <3> QED
        BY <3>3 DEF d, n
    <2> HIDE DEF e
    <2> QED
      BY <1>0, <2>1, <2>3, <2>5, <2>6, OneDisplay DEF detected
  <1>4. CASE BrightnessChangeFinished(b)
    <2> DEFINE success == displays[b].results[1]
               d == [displays[b] EXCEPT !.results = Tail(@),
                                        !.failed = IF success THEN 0 ELSE @ + 1]
               e == ddcBrightnessChangeFinished(d, success)
    <2>1. /\ b \in DOMAIN displays /\ displays[b].results # <<>>
          /\ UNCHANGED <<world, performedDetection>>
      BY <1>4 DEF BrightnessChangeFinished
    <2>2. CASE removeDisplay(b)
      BY <1>0, <2>1, <2>2, RemovedKeepsSound DEF world
    <2>3. CASE displays' = [displays EXCEPT ![b] = e] /\ UNCHANGED <<pendingDisplays, waylandObjects>>
      <3>1. e.ref = displays[b].ref /\ Sound(e, monitor[b])
        BY <1>0, <2>1, FinishedKeepsSound
      <3> HIDE DEF e
      <3> QED
        BY <1>0, <2>1, <2>3, <3>1, OneDisplay DEF world
    <2> QED
      BY <1>4, <2>2, <2>3 DEF BrightnessChangeFinished
  <1> QED
    BY <1>1, <1>2, <1>3, <1>4

LEMMA AlwaysSound == Spec => []IInv
  <1>1. IInv /\ [Next]_vars => IInv'
    <2> SUFFICES ASSUME IInv, [Next]_vars PROVE IInv'
      OBVIOUS
    <2>1. CASE UNCHANGED vars
      BY <2>1 DEF vars, IInv, TypeOK, DetectionFirst, DisplaysSound, KWinReachesDisplays
    <2> QED
      BY <2>1, WorldKeepsSound, DetectorKeepsSound, WritingKeepsSound DEF Next
  <1> QED
    BY <1>1, InitIsSound, PTL DEF Spec

-----------------------------------------------------------------------------
\* Displays are objects of some detection on known buses, their values are
\* in range and their queues hold what the worker may be sent and answer.
THEOREM TypeCorrect == Spec => []TypeOK
  BY AlwaysSound, PTL DEF IInv

\* KWin's requests go to the displays of today's list: setDisplays is called
\* wherever the list of the detector changes, the late answers of retryInit,
\* the removals and the failed detections included.
THEOREM AlwaysKWinReaches == Spec => []KWinReachesDisplays
  BY AlwaysSound, PTL DEF IInv

\* A display with nothing left to do has written what KWin requested last:
\* the pending brightness and the timer of ddcBrightnessChangeFinished lose no
\* request, however requests, results, failures and retries cross.
THEOREM AlwaysLastWritten == Spec => []LastRequestWritten
  <1>1. IInv => LastRequestWritten
    BY DEF IInv, DisplaysSound, Sound, FollowsRequests, LastRequestWritten
  <1> QED
    BY <1>1, AlwaysSound, PTL

\* The lists of the detector and of the retries never share a bus: a
\* detection drops the tries of what it found, and a try ends when its
\* display joins the list.
THEOREM AlwaysOfferedOrTried == Spec => []OfferedOrTried
  <1>1. Init => OfferedOrTried
    <2> SUFFICES ASSUME Init PROVE DOMAIN displays = {}
      BY DEF OfferedOrTried
    <2>1. displays = <<>>
      BY DEF Init
    <2> QED
      BY <2>1
  <1>2. ASSUME OfferedOrTried, IInv, [Next]_vars PROVE OfferedOrTried'
    <2> USE DEF OfferedOrTried
    <2>1. ASSUME \/ DOMAIN displays' = DOMAIN displays /\ pendingDisplays' = pendingDisplays
                 \/ displays' = <<>> /\ pendingDisplays' = pendingDisplays
          PROVE  OfferedOrTried'
      BY <1>2, <2>1
    <2>2. ASSUME detect PROVE OfferedOrTried'
      <3>1. PICK on \in SUBSET Buses, found \in SUBSET Buses :
                /\ displays' = [b \in found |-> newDisplay(b)]
                /\ pendingDisplays' = PendingAfter(found, on \ found)
        BY <2>2 DEF detect
      <3>2. DOMAIN displays' = found
        BY <3>1
      <3>3. DOMAIN pendingDisplays' \subseteq (DOMAIN pendingDisplays \ found) \cup (on \ found)
        BY <3>1 DEF PendingAfter
      <3> QED
        BY <3>2, <3>3
    <2>3. ASSUME NEW b, removeDisplay(b) PROVE OfferedOrTried'
      BY <1>2, <2>3 DEF removeDisplay, Without, Restrict
    <2>4. ASSUME NEW b \in Buses, RetryInit(b) PROVE OfferedOrTried'
      <3>1. ASSUME NEW d, retryInitFinished(b, d) PROVE OfferedOrTried'
        BY <1>2, <3>1 DEF retryInitFinished, Without, Restrict
      <3>2. CASE /\ displays' = displays
                 /\ \/ DOMAIN pendingDisplays' = DOMAIN pendingDisplays
                    \/ pendingDisplays' = Without(pendingDisplays, {b})
        BY <1>2, <3>2 DEF Without, Restrict
      <3> QED
        BY <2>4, <3>1, <3>2 DEF RetryInit
    <2>5. CASE World
      BY <1>2, <2>1, <2>5 DEF World, displayStatusChanged, MonitorButtons, requested_brightness,
                              activeChanged, unshown, IInv, TypeOK
    <2>6. CASE Detector
      BY <2>1, <2>2, <2>3, <2>6 DEF Detector, Detect, redetect, displayRemoved, unshown
    <2>7. ASSUME NEW b \in Buses,
                 SetBrightnessTimeout(b) \/ ddcSetBrightness(b) \/ BrightnessChangeFinished(b)
          PROVE  OfferedOrTried'
      <3>1. \/ DOMAIN displays' = DOMAIN displays /\ pendingDisplays' = pendingDisplays
            \/ removeDisplay(b)
        BY <1>2, <2>7 DEF SetBrightnessTimeout, ddcSetBrightness, BrightnessChangeFinished,
                          detected, IInv, TypeOK
      <3> QED
        BY <2>1, <2>3, <3>1
    <2> QED
      BY <1>2, <2>1, <2>4, <2>5, <2>6, <2>7 DEF Next, vars
  <1> QED
    BY <1>1, <1>2, AlwaysSound, PTL DEF Spec

\* What a step may never do: drop a display that no event of the library
\* removes and that has not failed MaxRetries times in a row, as removal is
\* the answer of ddcBrightnessChangeFinished to the last failure only.
THEOREM AlwaysGivenUpAfterFailures == Spec => GivenUpAfterFailures
  <1> DEFINE A == \A b \in DOMAIN displays :
                     b \notin DOMAIN displays' /\ statusEvents' = statusEvents
                         => displays[b].failed >= MaxRetries
  <1>1. ASSUME IInv, [Next]_vars PROVE A
    <2> SUFFICES ASSUME NEW b \in DOMAIN displays,
                        b \notin DOMAIN displays', statusEvents' = statusEvents
                 PROVE  displays[b].failed >= MaxRetries
      OBVIOUS
    <2>0. /\ displays \in [DOMAIN displays -> Offered]
          /\ statusEvents \in Seq([what : {"added", "removed"}, id : Buses])
          /\ Sound(displays[b], monitor[b]) /\ displays # <<>>
      BY <1>1 DEF IInv, TypeOK, DisplaysSound
    <2>1. CASE UNCHANGED vars
      BY <2>1 DEF vars
    <2>2. CASE World
      BY <2>0, <2>2 DEF World, displayStatusChanged, MonitorButtons, requested_brightness,
                        activeChanged, unshown
    <2>3. CASE Detector
      <3>1. performedDetection
        BY <1>1, <2>0 DEF IInv, DetectionFirst
      <3>2. statusEvents # <<>> => Tail(statusEvents) # statusEvents
        BY <2>0, Read
      <3> QED
        BY <2>3, <3>1, <3>2 DEF Detector, Detect, redetect, displayRemoved
    <2>4. ASSUME NEW i \in Buses, RetryInit(i) PROVE FALSE
      BY <2>4 DEF RetryInit, retryInitFinished
    <2>5. ASSUME NEW i \in Buses, SetBrightnessTimeout(i) \/ ddcSetBrightness(i) PROVE FALSE
      BY <2>0, <2>5 DEF SetBrightnessTimeout, ddcSetBrightness
    <2>6. ASSUME NEW i \in Buses, BrightnessChangeFinished(i)
          PROVE  displays[b].failed >= MaxRetries
      <3> DEFINE d == [displays[i] EXCEPT !.results = Tail(@),
                           !.failed = IF displays[i].results[1] THEN 0 ELSE @ + 1]
      <3>1. removeDisplay(i) /\ GivesUp(d, displays[i].results[1])
        BY <2>0, <2>6 DEF BrightnessChangeFinished
      <3>2. b = i
        BY <3>1 DEF removeDisplay, Without, Restrict
      <3>3. displays[b].retryCounter = MaxRetries /\ displays[b].failed >= displays[b].retryCounter
        BY <2>0, <3>1, <3>2 DEF GivesUp, Sound, Offered
      <3> QED
        BY <3>3 DEF MaxRetries
    <2> QED
      BY <1>1, <2>1, <2>2, <2>3, <2>4, <2>5, <2>6 DEF Next
  <1> QED
    BY <1>1, AlwaysSound, PTL DEF Spec, GivenUpAfterFailures

-----------------------------------------------------------------------------
(* Each display implements BrightnessPromise.                              *)

\* The object of a display belongs to a detection there has been, and a
\* display that does not answer is sent nothing.
Fresh ==
    /\ \A b \in DOMAIN displays : displays[b].ref <= refs
    /\ \A b \in DOMAIN pendingDisplays :
           pendingDisplays[b].requests = <<>> /\ pendingDisplays[b].results = <<>>

Kept(b) == Promise(b)!PromiseNext \/ UNCHANGED Promise(b)!promiseVars

LEMMA InitPromise == ASSUME NEW b \in Buses PROVE Init => Promise(b)!PromiseInit
<1> SUFFICES ASSUME Init PROVE Promise(b)!PromiseInit
  OBVIOUS
<1>1. DOMAIN displays = {}
  <2>1. displays = <<>>
    BY DEF Init
  <2> QED BY <2>1
<1>2. monitor[b].brightness \in Values /\ monitor[b].touched \in BOOLEAN
  <2>1. 0 \in Values
    BY DdcAssumption DEF Values
  <2>2. monitor[b] \in [on : BOOLEAN, brightness : {0}, touched : {FALSE}]
    BY DEF Init
  <2> QED BY <2>1, <2>2
<1> QED BY <1>1, <1>2 DEF Promise!PromiseInit, Underway

\* Nothing that the promise is about.
LEMMA Apart ==
    ASSUME NEW b, b \in DOMAIN displays' <=> b \in DOMAIN displays,
           b \in DOMAIN displays => displays'[b] = displays[b],
           monitor'[b].brightness = monitor[b].brightness, monitor'[b].touched = monitor[b].touched
    PROVE  Kept(b)
<1>1. Underway(b)' = Underway(b)
  BY DEF Underway
<1>2. b \in DOMAIN displays => Idle(displays[b])' = Idle(displays[b])
  BY DEF Idle
<1> QED BY <1>1, <1>2 DEF Kept, Promise!promiseVars

LEMMA Removal ==
    ASSUME IInv, NEW b, b \notin DOMAIN displays', monitor' = monitor
    PROVE  Kept(b)
<1>1. CASE b \notin DOMAIN displays
  BY <1>1, Apart
<1>2. CASE b \in DOMAIN displays
  <2>1. Underway(b)' = <<>>
    BY DEF Underway
  <2>2. displays[b].ref \in Nat
    BY <1>2 DEF IInv, TypeOK, Offered
  <2>3. Promise(b)!GiveUp
    BY <1>2, <2>1, <2>2 DEF Promise!GiveUp
  <2> QED BY <2>3 DEF Kept, Promise!PromiseNext
<1> QED BY <1>1, <1>2

LEMMA NewObject ==
    ASSUME IInv, NEW b \in Buses, b \in DOMAIN displays', monitor' = monitor,
           b \in DOMAIN displays => displays[b].ref # displays'[b].ref,
           displays'[b] \in Offered, displays'[b].brightness = monitor[b].brightness,
           Idle(displays'[b])
    PROVE  Kept(b)
<1>1. Underway(b)' = <<monitor[b].brightness>>
  BY DEF Underway, Idle
<1>2. displays'[b].ref \in Nat /\ (b \in DOMAIN displays => displays[b].ref \in Nat)
  BY DEF IInv, TypeOK, Offered
<1>3. monitor[b].touched \in BOOLEAN
  BY DEF IInv, TypeOK, Monitors
<1>4. Idle(displays[b])' = TRUE
  BY DEF Idle
<1>5. Promise(b)!Offer
  BY <1>1, <1>2, <1>3, <1>4 DEF Promise!Offer
<1> QED BY <1>5 DEF Kept, Promise!PromiseNext

\* A display d with another one, e, in its place.
LEMMA SameObject ==
    ASSUME IInv, NEW b \in DOMAIN displays, NEW e, displays' = [displays EXCEPT ![b] = e],
           e.ref = displays[b].ref
    PROVE  /\ b \in Buses /\ b \in DOMAIN displays' /\ displays'[b] = e
           /\ Underway(b) = Append(displays[b].requests, displays[b].brightness)
           /\ Underway(b)' = Append(e.requests, e.brightness)
           /\ \A i : i # b => (i \in DOMAIN displays' <=> i \in DOMAIN displays)
                              /\ (i \in DOMAIN displays => displays'[i] = displays[i])
           /\ UNCHANGED (IF b \in DOMAIN displays THEN displays[b].ref + 1 ELSE 0)
<1>1. /\ b \in Buses /\ displays \in [DOMAIN displays -> Offered]
      /\ DOMAIN displays' = DOMAIN displays /\ displays'[b] = e
      /\ \A i \in DOMAIN displays : i # b => displays'[i] = displays[i]
  BY DEF IInv, TypeOK
<1> QED BY <1>1 DEF Underway

\* Sequences with a last element.
LEMMA Sequel ==
    ASSUME NEW S, NEW s \in Seq(S), NEW a \in S
    PROVE  /\ Append(s, a) \in Seq(S) /\ Append(s, a) # <<>>
           /\ Append(s, a)[Len(Append(s, a))] = a
           /\ SubSeq(Append(s, a), 1, Len(s)) = s /\ Len(s) \in 0 .. Len(Append(s, a))
           /\ s # <<>> => /\ Head(Append(s, a)) = s[1] /\ Tail(Append(s, a)) = Append(Tail(s), a)
                          /\ Len(Append(s, a)) > 1
<1> DEFINE t == Append(s, a)
           n == Len(s)
<1>1. /\ t \in Seq(S) /\ n \in Nat /\ Len(t) = n + 1 /\ t[n + 1] = a
      /\ \A i \in 1 .. n : t[i] = s[i]
  OBVIOUS
<1>3. SubSeq(t, 1, n) = s
  <2> DEFINE u == SubSeq(t, 1, n)
  <2> HIDE DEF t
  <2>1. u \in Seq(S) /\ Len(u) = n /\ \A i \in 1 .. n : u[i] = t[i]
    BY <1>1
  <2> HIDE DEF u
  <2> QED BY <1>1, <2>1
<1>4. ASSUME s # <<>>
      PROVE  Head(t) = s[1] /\ Tail(t) = Append(Tail(s), a) /\ Len(t) > 1
  <2> DEFINE v == Tail(t)
             w == Append(Tail(s), a)
  <2>1. n >= 1 /\ Tail(s) \in Seq(S) /\ Len(Tail(s)) = n - 1 /\ \A i \in 1 .. n - 1 : Tail(s)[i] = s[i + 1]
    BY <1>4
  <2>2. w \in Seq(S) /\ Len(w) = n /\ w[n] = a /\ \A i \in 1 .. n - 1 : w[i] = s[i + 1]
    BY <1>1, <2>1
  <2> HIDE DEF t, w
  <2>3. v \in Seq(S) /\ Len(v) = n /\ \A i \in 1 .. n : v[i] = t[i + 1]
    BY <1>1, <2>1
  <2>4. Head(t) = s[1] /\ Len(t) > 1
    BY <1>1, <2>1
  <2> HIDE DEF v
  <2>5. \A i \in 1 .. n : v[i] = w[i]
    <3>1. ASSUME NEW i \in 1 .. n - 1 PROVE v[i] = w[i]
      <4>1. i \in 1 .. n /\ i + 1 \in 1 .. n
        BY <1>1
      <4> QED BY <1>1, <2>2, <2>3, <4>1
    <3>2. v[n] = w[n]
      BY <1>1, <2>1, <2>2, <2>3
    <3>3. \A i \in 1 .. n : i \in 1 .. n - 1 \/ i = n
      BY <1>1
    <3> QED BY <3>1, <3>2, <3>3
  <2>6. v = w
    BY <1>1, <2>2, <2>3, <2>5
  <2> QED BY <2>4, <2>6 DEF v, w
<1> HIDE DEF t
<1>5. t[Len(t)] = a /\ n \in 0 .. Len(t) /\ t # <<>>
  BY <1>1
<1> QED BY <1>1, <1>3, <1>4, <1>5 DEF t

LEMMA TimeoutPromise ==
    ASSUME IInv, IInv', NEW b, SetBrightnessTimeout(b)
    PROVE  Kept(b)
<1> DEFINE d == displays[b]
           e == onSetBrightnessTimeout(d)
<1>1. b \in DOMAIN displays /\ b \in Buses /\ d \in Offered /\ d.timer
      /\ displays' = [displays EXCEPT ![b] = e] /\ monitor' = monitor
  BY DEF SetBrightnessTimeout, IInv, TypeOK
<1> HIDE DEF d
<1>2. d.requests \in Seq(Values) /\ d.brightness \in Values
  BY <1>1 DEF Offered
<1>3. /\ e.ref = d.ref /\ e.brightness = d.brightness
      /\ e.requests \in {d.requests, Append(d.requests, d.brightness)}
      /\ e.requests = d.requests => e.timer = FALSE /\ e.results = d.results
  BY <1>1, <1>2 DEF onSetBrightnessTimeout, Requests, Offered
<1> HIDE DEF e
<1>4. /\ displays'[b] = e /\ b \in DOMAIN displays'
      /\ Underway(b) = Append(d.requests, d.brightness)
      /\ Underway(b)' = Append(e.requests, d.brightness)
      /\ UNCHANGED (IF b \in DOMAIN displays THEN displays[b].ref + 1 ELSE 0)
  <2>1. e.ref = displays[b].ref
    BY <1>3 DEF d
  <2>2. /\ b \in DOMAIN displays' /\ displays'[b] = e
        /\ Underway(b) = Append(displays[b].requests, displays[b].brightness)
        /\ Underway(b)' = Append(e.requests, e.brightness)
        /\ UNCHANGED (IF b \in DOMAIN displays THEN displays[b].ref + 1 ELSE 0)
    BY <1>1, <2>1, SameObject
  <2> QED BY <1>3, <2>2 DEF d
<1>5. Underway(b) # <<>> /\ Promise(b)!Newest = d.brightness
  BY <1>2, <1>4, Sequel DEF Promise!Newest
<1>6. Idle(displays[b]) = FALSE
  BY <1>1 DEF Idle, d
<1>7. CASE e.requests = Append(d.requests, d.brightness)
  <2>1. e.requests # <<>>
    BY <1>2, <1>7, Sequel
  <2>2. Idle(displays[b])' = FALSE
    BY <1>4, <2>1 DEF Idle
  <2>3. Promise(b)!Repeat
    BY <1>1, <1>4, <1>5, <1>6, <1>7, <2>2 DEF Promise!Repeat
  <2> QED BY <2>3 DEF Kept, Promise!PromiseNext
<1>8. CASE e.requests = d.requests
  <2>1. Underway(b)' = Underway(b)
    BY <1>4, <1>8
  <2>2. CASE Idle(e) /\ ~monitor[b].touched
    <3>1. monitor[b].brightness = d.brightness
      BY <1>1, <1>3, <1>4, <2>2 DEF IInv, DisplaysSound, Sound, FollowsRequests
    <3>2. Promise(b)!Settle
      BY <1>1, <1>4, <1>5, <2>1, <2>2, <3>1 DEF Promise!Settle
    <3> QED BY <3>2 DEF Kept, Promise!PromiseNext
  <2>3. CASE ~(Idle(e) /\ ~monitor[b].touched)
    <3>1. UNCHANGED Promise(b)!promiseVars
      BY <1>1, <1>4, <1>6, <2>1, <2>3 DEF Promise!promiseVars
    <3> QED BY <3>1 DEF Kept
  <2> QED BY <2>2, <2>3
<1> QED BY <1>3, <1>7, <1>8

\* A request takes the place of the one that has not been sent.
LEMMA RequestPromise ==
    ASSUME IInv, NEW b \in Buses, NEW value \in Values, requested_brightness(b, value)
    PROVE  Kept(b)
<1> DEFINE d == displays[b]
           e == setBrightness(d, value)
<1>1. /\ b \in DOMAIN displays /\ d \in Offered /\ displays' = [displays EXCEPT ![b] = e]
      /\ monitor'[b].brightness = monitor[b].brightness /\ monitor'[b].touched = FALSE
  BY DEF requested_brightness, IInv, TypeOK, Monitors, KWinReachesDisplays
<1> HIDE DEF d
<1>2. d.requests \in Seq(Values) /\ d.brightness \in Values
  BY <1>1 DEF Offered
<1>3. e.ref = d.ref /\ e.brightness = value /\ e.requests = d.requests /\ e.timer = TRUE
  BY <1>1 DEF setBrightness, Offered
<1> HIDE DEF e
<1>4. /\ displays'[b] = e /\ b \in DOMAIN displays'
      /\ Underway(b) = Append(d.requests, d.brightness)
      /\ Underway(b)' = Append(d.requests, value)
      /\ UNCHANGED (IF b \in DOMAIN displays THEN displays[b].ref + 1 ELSE 0)
  <2>1. e.ref = displays[b].ref
    BY <1>3 DEF d
  <2>2. /\ b \in DOMAIN displays' /\ displays'[b] = e
        /\ Underway(b) = Append(displays[b].requests, displays[b].brightness)
        /\ Underway(b)' = Append(e.requests, e.brightness)
        /\ UNCHANGED (IF b \in DOMAIN displays THEN displays[b].ref + 1 ELSE 0)
    BY <1>1, <2>1, SameObject
  <2> QED BY <1>3, <2>2 DEF d
<1>5. displays[b].ref \in Nat
  BY <1>1 DEF Offered, d
<1>6. \E v \in Values, n \in 0 .. Len(Underway(b)) :
          Underway(b)' = Append(SubSeq(Underway(b), 1, n), v)
  <2>1. SubSeq(Underway(b), 1, Len(d.requests)) = d.requests /\ Len(d.requests) \in 0 .. Len(Underway(b))
    BY <1>2, <1>4, Sequel
  <2> QED BY <1>4, <2>1
<1>7. Idle(displays[b])' = FALSE
  BY <1>3, <1>4 DEF Idle
<1>8. (b \in DOMAIN displays /\ Idle(displays[b]) /\ ~monitor[b].touched)' = FALSE
  BY <1>7
<1>9. (IF b \in DOMAIN displays THEN displays[b].ref + 1 ELSE 0) # 0
  BY <1>1, <1>5
<1>10. Promise(b)!Ask
  BY <1>1, <1>4, <1>6, <1>8, <1>9, Zenon DEF Promise!Ask
<1> QED BY <1>10 DEF Kept, Promise!PromiseNext

\* The worker takes the oldest, and writes it or fails to.
LEMMA WorkerPromise ==
    ASSUME IInv, NEW b, ddcSetBrightness(b)
    PROVE  Kept(b)
<1> DEFINE d == displays[b]
<1>1. PICK success \in BOOLEAN :
        /\ displays' = [displays EXCEPT ![b].requests = Tail(@), ![b].results = Append(@, success)]
        /\ \/ monitor' = [monitor EXCEPT ![b].brightness = displays[b].requests[1]]
           \/ monitor' = monitor
  BY DEF ddcSetBrightness
<1> DEFINE e == Worked(d, success)
<1>2. b \in DOMAIN displays /\ b \in Buses /\ d \in Offered /\ d.requests # <<>>
      /\ displays' = [displays EXCEPT ![b] = e] /\ monitor \in [Buses -> Monitors]
  BY <1>1 DEF ddcSetBrightness, IInv, TypeOK, Worked, Offered
<1>3. /\ monitor'[b].brightness \in {monitor[b].brightness, d.requests[1]}
      /\ monitor'[b].touched = monitor[b].touched
  BY <1>1, <1>2 DEF Monitors
<1> HIDE DEF d
<1>4. d.requests \in Seq(Values) /\ d.brightness \in Values /\ d.results \in Seq(BOOLEAN)
  BY <1>2 DEF Offered
<1>5. /\ e.ref = d.ref /\ e.brightness = d.brightness /\ e.requests = Tail(d.requests)
      /\ e.results = Append(d.results, success)
  BY <1>2 DEF Worked, Offered
<1> HIDE DEF e
<1>6. /\ displays'[b] = e /\ b \in DOMAIN displays'
      /\ Underway(b) = Append(d.requests, d.brightness)
      /\ Underway(b)' = Append(Tail(d.requests), d.brightness)
      /\ UNCHANGED (IF b \in DOMAIN displays THEN displays[b].ref + 1 ELSE 0)
  <2>1. e.ref = displays[b].ref
    BY <1>5 DEF d
  <2>2. /\ b \in DOMAIN displays' /\ displays'[b] = e
        /\ Underway(b) = Append(displays[b].requests, displays[b].brightness)
        /\ Underway(b)' = Append(e.requests, e.brightness)
        /\ UNCHANGED (IF b \in DOMAIN displays THEN displays[b].ref + 1 ELSE 0)
    BY <1>2, <2>1, SameObject
  <2> QED BY <1>5, <2>2 DEF d
<1>7. Idle(displays[b]) = FALSE /\ Idle(displays[b])' = FALSE
  <2>1. e.results # <<>>
    BY <1>4, <1>5, SMTT(30)
  <2> QED BY <1>2, <1>6, <2>1 DEF Idle, d
<1>8. /\ Underway(b) # <<>> /\ Head(Underway(b)) = d.requests[1]
      /\ Underway(b)' = Tail(Underway(b)) /\ Len(Underway(b)) > 1
  <2> DEFINE t == Append(d.requests, d.brightness)
             u == Append(Tail(d.requests), d.brightness)
  <2>1. d.requests # <<>>
    BY <1>2
  <2>2. t # <<>> /\ Head(t) = d.requests[1] /\ Tail(t) = u /\ Len(t) > 1
    BY <1>4, <2>1, Sequel
  <2>3. Underway(b) = t /\ Underway(b)' = u
    BY <1>6
  <2> HIDE DEF t, u
  <2> QED BY <2>2, <2>3, Zenon
<1>9. Promise(b)!Proceed
  BY <1>8 DEF Promise!Proceed
<1>10. /\ UNCHANGED (IF b \in DOMAIN displays THEN displays[b].ref + 1 ELSE 0)
       /\ UNCHANGED (b \in DOMAIN displays /\ Idle(displays[b]) /\ ~monitor[b].touched)
       /\ ~(b \in DOMAIN displays /\ Idle(displays[b]) /\ ~monitor[b].touched)
  BY <1>6, <1>7, Zenon
<1>11. CASE monitor'[b].brightness = monitor[b].brightness
  <2>1. Promise(b)!Fail
    BY <1>3, <1>8, <1>9, <1>10, <1>11 DEF Promise!Fail
  <2> QED BY <2>1 DEF Kept, Promise!PromiseNext
<1>12. CASE monitor'[b].brightness = d.requests[1]
  <2>1. Promise(b)!Write
    BY <1>3, <1>8, <1>9, <1>10, <1>12 DEF Promise!Write
  <2> QED BY <2>1 DEF Kept, Promise!PromiseNext
<1> QED BY <1>3, <1>11, <1>12, Zenon

\* A result changes nothing, unless it is the last failure.
LEMMA ResultPromise ==
    ASSUME IInv, NEW b, BrightnessChangeFinished(b)
    PROVE  Kept(b)
<1> DEFINE success == displays[b].results[1]
           d == [displays[b] EXCEPT !.results = Tail(@), !.failed = IF success THEN 0 ELSE @ + 1]
           e == ddcBrightnessChangeFinished(d, success)
<1>1. b \in DOMAIN displays /\ displays[b].results # <<>> /\ monitor' = monitor /\ b \in Buses
      /\ displays[b] \in Offered
  BY DEF BrightnessChangeFinished, world, IInv, TypeOK
<1>2. CASE removeDisplay(b)
  <2>1. b \notin DOMAIN displays'
    BY <1>2 DEF removeDisplay, Without, Restrict
  <2> QED BY <1>1, <2>1, Removal
<1>3. CASE displays' = [displays EXCEPT ![b] = e]
  <2>1. /\ e.ref = displays[b].ref /\ e.brightness = displays[b].brightness
        /\ e.requests = displays[b].requests /\ e.timer = TRUE
    BY <1>1 DEF ddcBrightnessChangeFinished, Offered
  <2> HIDE DEF e, d, success
  <2>2. /\ displays'[b] = e /\ b \in DOMAIN displays' /\ Underway(b)' = Underway(b)
        /\ UNCHANGED (IF b \in DOMAIN displays THEN displays[b].ref + 1 ELSE 0)
    <3>1. /\ b \in DOMAIN displays' /\ displays'[b] = e
          /\ Underway(b) = Append(displays[b].requests, displays[b].brightness)
          /\ Underway(b)' = Append(e.requests, e.brightness)
          /\ UNCHANGED (IF b \in DOMAIN displays THEN displays[b].ref + 1 ELSE 0)
      BY <1>1, <1>3, <2>1, SameObject
    <3> QED BY <2>1, <3>1
  <2>3. Idle(displays[b]) = FALSE /\ Idle(displays[b])' = FALSE
    BY <1>1, <2>1, <2>2 DEF Idle
  <2>4. UNCHANGED Promise(b)!promiseVars
    BY <1>1, <2>2, <2>3 DEF Promise!promiseVars
  <2> QED BY <2>4 DEF Kept
<1> QED BY <1>2, <1>3 DEF BrightnessChangeFinished

\* A detection makes new objects, of the displays that answered.
LEMMA DetectPromise ==
    ASSUME IInv, Fresh, NEW b \in Buses, detect, monitor' = monitor, refs' \in Nat,
           refs' > refs \/ DOMAIN displays = {}
    PROVE  Kept(b)
<1>1. PICK found \in SUBSET Buses : displays' = [i \in found |-> newDisplay(i)]
  BY DEF detect
<1>2. CASE b \notin found
  <2>1. b \notin DOMAIN displays'
    BY <1>1, <1>2
  <2> QED BY <2>1, Removal
<1>3. CASE b \in found
  <2>1. b \in DOMAIN displays' /\ displays'[b] = newDisplay(b)
    BY <1>1, <1>3
  <2>2. newDisplay(b) \in Offered
    BY NewDisplay DEF IInv, TypeOK, Sound
  <2>3. /\ newDisplay(b).brightness = monitor[b].brightness /\ newDisplay(b).ref = refs'
        /\ Idle(newDisplay(b))
    BY DEF newDisplay, Idle
  <2>4. b \in DOMAIN displays => displays[b].ref # refs'
    <3>1. refs \in Nat /\ (b \in DOMAIN displays => displays[b].ref \in Nat /\ displays[b].ref <= refs)
      BY DEF IInv, TypeOK, Offered, Fresh
    <3> QED BY <3>1
  <2>5. Idle(displays'[b])
    BY <2>1, <2>3
  <2> QED BY <2>1, <2>2, <2>3, <2>4, <2>5, NewObject
<1> QED BY <1>2, <1>3

\* A display that answers in the end is a new object, unless there is one.
LEMMA AnswerPromise ==
    ASSUME IInv, Fresh, NEW b \in DOMAIN pendingDisplays, monitor' = monitor,
           retryInitFinished(b, Answered(pendingDisplays[b], monitor[b].brightness))
    PROVE  Kept(b)
<1> DEFINE t == pendingDisplays[b]
           value == monitor[b].brightness
           d == Answered(t, value)
<1>1. t \in Tried /\ value \in Values /\ b \in Buses /\ t.requests = <<>> /\ t.results = <<>>
  BY DEF IInv, TypeOK, Monitors, Fresh
<1>2. displays' = [i \in DOMAIN displays \cup {b} |-> IF i \in DOMAIN displays THEN displays[i] ELSE d]
  BY DEF retryInitFinished
<1>3. b \in DOMAIN displays' /\ displays'[b] = IF b \in DOMAIN displays THEN displays[b] ELSE d
  BY <1>2
<1>4. CASE b \in DOMAIN displays
  BY <1>3, <1>4, Apart
<1>5. CASE b \notin DOMAIN displays
  <2>1. displays'[b] = d
    BY <1>3, <1>5
  <2> HIDE DEF t, value
  <2>2. d \in Offered /\ d.brightness = value
    BY <1>1, TriedAgain
  <2>3. d.requests = <<>> /\ d.results = <<>> /\ d.timer = FALSE
    BY <1>1 DEF Answered, Tried
  <2> HIDE DEF d
  <2>4. Idle(displays'[b]) /\ displays'[b] \in Offered /\ displays'[b].brightness = monitor[b].brightness
    BY <2>1, <2>2, <2>3 DEF Idle, value
  <2> QED BY <1>1, <1>3, <1>5, <2>4, NewObject
<1> QED BY <1>4, <1>5

\* What is done to one display leaves the others alone.
LEMMA OneAtATime ==
    ASSUME IInv, NEW b \in Buses, NEW i \in Buses, i # b,
           \/ \E value \in Values : requested_brightness(b, value)
           \/ RetryInit(b) \/ SetBrightnessTimeout(b) \/ ddcSetBrightness(b)
           \/ BrightnessChangeFinished(b)
    PROVE  Kept(i)
<1>1. displays \in [DOMAIN displays -> Offered] /\ monitor \in [Buses -> Monitors]
  BY DEF IInv, TypeOK
<1>2. monitor'[i].brightness = monitor[i].brightness /\ monitor'[i].touched = monitor[i].touched
  BY <1>1 DEF requested_brightness, RetryInit, SetBrightnessTimeout, ddcSetBrightness,
              BrightnessChangeFinished, world
<1>3. ASSUME NEW e, displays' = [displays EXCEPT ![b] = e]
      PROVE  Kept(i)
  BY <1>1, <1>2, <1>3, Apart
<1>4. ASSUME removeDisplay(b)
      PROVE  Kept(i)
  BY <1>1, <1>2, <1>4, Apart DEF removeDisplay, Without, Restrict
<1>5. ASSUME NEW d, retryInitFinished(b, d)
      PROVE  Kept(i)
  BY <1>1, <1>2, <1>5, Apart DEF retryInitFinished
<1>6. CASE displays' = displays
  BY <1>2, <1>6, Apart
<1>7. ASSUME NEW value \in Values, requested_brightness(b, value) PROVE Kept(i)
  BY <1>3, <1>7 DEF requested_brightness
<1>8. CASE RetryInit(b)
  BY <1>5, <1>6, <1>8 DEF RetryInit
<1>9. CASE SetBrightnessTimeout(b)
  BY <1>3, <1>9 DEF SetBrightnessTimeout
<1>10. CASE ddcSetBrightness(b)
  <2>1. PICK success \in BOOLEAN :
          displays' = [displays EXCEPT ![b].requests = Tail(@), ![b].results = Append(@, success)]
    BY <1>10 DEF ddcSetBrightness
  <2>2. DOMAIN displays' = DOMAIN displays /\ (i \in DOMAIN displays => displays'[i] = displays[i])
    BY <1>1, <2>1
  <2> QED BY <1>2, <2>2, Apart
<1>11. CASE BrightnessChangeFinished(b)
  BY <1>3, <1>4, <1>11 DEF BrightnessChangeFinished
<1> QED BY <1>7, <1>8, <1>9, <1>10, <1>11

LEMMA WorldPromise == ASSUME IInv, World, NEW i \in Buses PROVE Kept(i)
<1>1. monitor \in [Buses -> Monitors]
  BY DEF IInv, TypeOK
<1>2. ASSUME NEW b \in Buses, displayStatusChanged(b) PROVE Kept(i)
  BY <1>1, <1>2, Apart DEF displayStatusChanged, unshown
<1>3. ASSUME NEW b \in Buses, NEW value \in Values, MonitorButtons(b, value) PROVE Kept(i)
  <2>1. /\ monitor' = [monitor EXCEPT ![b].brightness = value, ![b].touched = TRUE]
        /\ displays' = displays
    BY <1>3 DEF MonitorButtons, unshown
  <2>2. CASE i # b
    BY <1>1, <2>1, <2>2, Apart
  <2>3. CASE i = b
    <3>1. monitor'[i].brightness = value /\ monitor'[i].touched = TRUE
      BY <1>1, <2>1, <2>3 DEF Monitors
    <3>2. Underway(i)' = Underway(i)
      BY <2>1 DEF Underway
    <3>3. Promise(i)!Interfere
      BY <2>1, <3>1, <3>2 DEF Promise!Interfere
    <3> QED BY <3>3 DEF Kept, Promise!PromiseNext
  <2> QED BY <2>2, <2>3
<1>4. ASSUME NEW b \in Buses, NEW value \in Values, requested_brightness(b, value) PROVE Kept(i)
  BY <1>4, RequestPromise, OneAtATime
<1>5. ASSUME activeChanged PROVE Kept(i)
  BY <1>5, Apart DEF activeChanged
<1> QED BY <1>2, <1>3, <1>4, <1>5 DEF World

LEMMA DetectorPromise == ASSUME IInv, Fresh, Detector, NEW i \in Buses PROVE Kept(i)
<1>1. refs \in Nat
  BY DEF IInv, TypeOK
<1>2. CASE Detect
  <2>1. DOMAIN displays = {}
    <3>1. displays = <<>>
      BY <1>2 DEF Detect, IInv, DetectionFirst
    <3> QED BY <3>1
  <2> QED BY <1>1, <1>2, <2>1, DetectPromise DEF Detect, world
<1>3. CASE redetect
  <2>1. monitor' = monitor
    BY <1>3 DEF redetect
  <2>2. CASE refs' = refs + 1 /\ detect
    BY <1>1, <2>1, <2>2, DetectPromise
  <2>3. CASE displays' = <<>>
    <3>1. DOMAIN displays' = {}
      BY <2>3
    <3> QED BY <2>1, <3>1, Removal
  <2>4. CASE displays' = displays
    BY <2>1, <2>4, Apart
  <2> QED BY <1>3, <2>2, <2>3, <2>4 DEF redetect, unshown
<1>4. CASE displayRemoved
  <2> DEFINE b == statusEvents[1].id
  <2>1. removeDisplay(b) /\ monitor' = monitor
    BY <1>4 DEF displayRemoved
  <2> HIDE DEF b
  <2>2. /\ DOMAIN displays' = DOMAIN displays \ {b}
        /\ \A j \in DOMAIN displays' : displays'[j] = displays[j]
    BY <2>1 DEF removeDisplay, Without, Restrict
  <2>3. CASE i = b
    BY <2>1, <2>2, <2>3, Removal
  <2>4. CASE i # b
    BY <2>1, <2>2, <2>4, Apart
  <2> QED BY <2>3, <2>4
<1> QED BY <1>2, <1>3, <1>4 DEF Detector

LEMMA WritingPromise ==
    ASSUME IInv, IInv', Fresh, NEW b \in Buses,
           RetryInit(b) \/ SetBrightnessTimeout(b) \/ ddcSetBrightness(b)
                        \/ BrightnessChangeFinished(b)
    PROVE  Kept(b)
<1>1. CASE RetryInit(b)
  <2>1. b \in DOMAIN pendingDisplays /\ monitor' = monitor
    BY <1>1 DEF RetryInit, world
  <2>2. CASE retryInitFinished(b, Answered(pendingDisplays[b], monitor[b].brightness))
    BY <2>1, <2>2, AnswerPromise
  <2>3. CASE displays' = displays
    BY <2>1, <2>3, Apart
  <2> QED BY <1>1, <2>2, <2>3 DEF RetryInit, Answered
<1> QED BY <1>1, TimeoutPromise, WorkerPromise, ResultPromise

LEMMA StepPromise ==
    ASSUME IInv, IInv', Fresh, [Next]_vars, NEW i \in Buses
    PROVE  Kept(i)
<1>1. CASE UNCHANGED vars
  BY <1>1, Apart DEF vars
<1>2. CASE Next
  <2>1. ASSUME NEW b \in Buses, RetryInit(b) \/ SetBrightnessTimeout(b) \/ ddcSetBrightness(b)
                                             \/ BrightnessChangeFinished(b)
        PROVE  Kept(i)
    <3>1. CASE i = b
      BY <2>1, <3>1, WritingPromise
    <3>2. CASE i # b
      BY <2>1, <3>2, OneAtATime
    <3> QED BY <3>1, <3>2
  <2> QED BY <1>2, <2>1, WorldPromise, DetectorPromise DEF Next
<1> QED BY <1>1, <1>2

\* Fewer displays, or others with the same objects; no new tries.
LEMMA StaysFresh ==
    ASSUME IInv, Fresh, refs' \in Nat, refs' >= refs,
           \A b \in DOMAIN displays' : \/ b \in DOMAIN displays /\ displays'[b].ref = displays[b].ref
                                       \/ displays'[b].ref = refs',
           \A b \in DOMAIN pendingDisplays' :
               /\ pendingDisplays'[b].requests = <<>>
               /\ pendingDisplays'[b].results = <<>>
    PROVE  Fresh'
<1>1. refs \in Nat /\ \A b \in DOMAIN displays : displays[b].ref \in Nat /\ displays[b].ref <= refs
  BY DEF IInv, TypeOK, Offered, Fresh
<1>2. \A b \in DOMAIN displays' : displays'[b].ref <= refs'
  BY <1>1
<1> QED BY <1>2 DEF Fresh

LEMMA DetectedIsFresh ==
    ASSUME IInv, Fresh, refs' \in Nat, refs' >= refs, detect
    PROVE  Fresh'
<1>1. PICK found \in SUBSET Buses, silent \in SUBSET Buses :
        /\ displays' = [b \in found |-> newDisplay(b)]
        /\ pendingDisplays' = PendingAfter(found, silent)
  BY DEF detect
<1>2. \A b \in DOMAIN displays' : displays'[b].ref = refs'
  BY <1>1 DEF newDisplay
<1>3. \A b : newPending(b).requests = <<>> /\ newPending(b).results = <<>>
  BY DEF newPending, newDisplay
<1>4. \A b \in DOMAIN pendingDisplays' :
          pendingDisplays'[b] = IF b \in DOMAIN pendingDisplays THEN pendingDisplays[b] ELSE newPending(b)
  BY <1>1 DEF PendingAfter
<1>5. \A b \in DOMAIN pendingDisplays' :
          pendingDisplays'[b].requests = <<>> /\ pendingDisplays'[b].results = <<>>
  BY <1>3, <1>4 DEF Fresh
<1> QED BY <1>2, <1>5, StaysFresh

LEMMA FreshKept == ASSUME IInv, Fresh, [Next]_vars PROVE Fresh'
<1>0. /\ refs \in Nat /\ displays \in [DOMAIN displays -> Offered]
      /\ pendingDisplays \in [DOMAIN pendingDisplays -> Tried]
  BY DEF IInv, TypeOK
<1>1. ASSUME UNCHANGED <<refs, pendingDisplays>>,
             \A b \in DOMAIN displays' : b \in DOMAIN displays /\ displays'[b].ref = displays[b].ref
      PROVE  Fresh'
  BY <1>0, <1>1, StaysFresh DEF Fresh
<1>2. ASSUME NEW b, removeDisplay(b), refs' = refs
      PROVE  Fresh'
  BY <1>0, <1>2, StaysFresh DEF Fresh, removeDisplay, Without, Restrict
<1>3. CASE UNCHANGED vars
  BY <1>1, <1>3 DEF vars
<1>4. CASE World
  <2>1. ASSUME NEW b \in Buses, NEW value \in Values, requested_brightness(b, value) PROVE Fresh'
    <3>1. /\ UNCHANGED <<refs, pendingDisplays>>
          /\ displays' = [displays EXCEPT ![b] = setBrightness(displays[b], value)]
      BY <2>1 DEF requested_brightness
    <3>2. b \in DOMAIN displays => setBrightness(displays[b], value).ref = displays[b].ref
      BY <1>0 DEF setBrightness, Offered
    <3> QED BY <1>0, <1>1, <3>1, <3>2
  <2> QED
    BY <1>1, <1>4, <2>1 DEF World, displayStatusChanged, MonitorButtons, activeChanged, unshown
<1>5. CASE Detector
  <2>1. CASE Detect
    BY <1>0, <2>1, DetectedIsFresh DEF Detect, world
  <2>2. CASE redetect
    <3>1. CASE refs' = refs + 1 /\ detect
      BY <1>0, <3>1, DetectedIsFresh
    <3>2. CASE UNCHANGED <<refs, pendingDisplays>> /\ displays' \in {<<>>, displays}
      BY <1>1, <3>2
    <3> QED BY <2>2, <3>1, <3>2 DEF redetect, unshown
  <2>3. CASE displayRemoved
    BY <1>2, <2>3 DEF displayRemoved
  <2> QED BY <1>5, <2>1, <2>2, <2>3 DEF Detector
<1>6. ASSUME NEW b \in Buses, RetryInit(b) PROVE Fresh'
  <2> DEFINE d == Answered(pendingDisplays[b], monitor[b].brightness)
  <2>1. b \in DOMAIN pendingDisplays /\ refs' = refs /\ pendingDisplays[b] \in Tried
    BY <1>0, <1>6 DEF RetryInit, world
  <2>2. CASE pendingDisplays[b].ref = refs /\ retryInitFinished(b, d)
    <3>1. d.ref = pendingDisplays[b].ref
      BY <2>1 DEF Answered, Tried
    <3> HIDE DEF d
    <3> QED BY <1>0, <2>1, <2>2, <3>1, StaysFresh DEF Fresh, retryInitFinished, Without, Restrict
  <2>3. CASE displays' = displays /\ pendingDisplays' = Without(pendingDisplays, {b})
    BY <1>0, <2>1, <2>3, StaysFresh DEF Fresh, Without, Restrict
  <2>4. CASE displays' = displays
             /\ pendingDisplays' = [pendingDisplays EXCEPT ![b] = Retries(pendingDisplays[b])]
    <3>1. /\ Retries(pendingDisplays[b]).requests = pendingDisplays[b].requests
          /\ Retries(pendingDisplays[b]).results = pendingDisplays[b].results
      BY <2>1 DEF Retries, Tried
    <3> QED BY <1>0, <2>1, <2>4, <3>1, StaysFresh DEF Fresh
  <2> QED BY <1>6, <2>2, <2>3, <2>4 DEF RetryInit, Answered
<1>7. ASSUME NEW b \in Buses, SetBrightnessTimeout(b) PROVE Fresh'
  <2>1. /\ b \in DOMAIN displays /\ UNCHANGED <<refs, pendingDisplays>>
        /\ displays' = [displays EXCEPT ![b] = onSetBrightnessTimeout(displays[b])]
    BY <1>7 DEF SetBrightnessTimeout, detected
  <2>2. onSetBrightnessTimeout(displays[b]).ref = displays[b].ref
    BY <1>0, <2>1 DEF onSetBrightnessTimeout, Requests, Offered
  <2> QED BY <1>0, <1>1, <2>1, <2>2
<1>8. ASSUME NEW b \in Buses, ddcSetBrightness(b) PROVE Fresh'
  <2>1. PICK success \in BOOLEAN :
          /\ displays' = [displays EXCEPT ![b].requests = Tail(@), ![b].results = Append(@, success)]
          /\ b \in DOMAIN displays /\ UNCHANGED <<refs, pendingDisplays>>
    BY <1>8 DEF ddcSetBrightness, detected
  <2>2. /\ DOMAIN displays' = DOMAIN displays
        /\ \A i \in DOMAIN displays : displays'[i].ref = displays[i].ref
    <3>1. DOMAIN displays' = DOMAIN displays
          /\ \A i \in DOMAIN displays : i # b => displays'[i] = displays[i]
      BY <1>0, <2>1
    <3>2. displays'[b].ref = displays[b].ref
      <4>1. displays'[b] = [displays[b] EXCEPT !.requests = Tail(@), !.results = Append(@, success)]
        BY <2>1
      <4>2. displays[b] \in Offered
        BY <1>0, <2>1
      <4> QED BY <4>1, <4>2 DEF Offered
    <3> QED BY <3>1, <3>2
  <2> QED BY <1>1, <2>1, <2>2
<1>9. ASSUME NEW b \in Buses, BrightnessChangeFinished(b) PROVE Fresh'
  <2> DEFINE success == displays[b].results[1]
             d == [displays[b] EXCEPT !.results = Tail(@), !.failed = IF success THEN 0 ELSE @ + 1]
             e == ddcBrightnessChangeFinished(d, success)
  <2>1. b \in DOMAIN displays /\ refs' = refs /\ displays[b] \in Offered
    BY <1>0, <1>9 DEF BrightnessChangeFinished, world
  <2>2. CASE removeDisplay(b)
    BY <1>2, <2>1, <2>2
  <2>3. CASE displays' = [displays EXCEPT ![b] = e] /\ pendingDisplays' = pendingDisplays
    <3>1. e.ref = displays[b].ref
      BY <2>1 DEF ddcBrightnessChangeFinished, Offered
    <3> HIDE DEF e
    <3> QED BY <1>0, <1>1, <2>1, <2>3, <3>1
  <2> QED BY <1>9, <2>2, <2>3 DEF BrightnessChangeFinished
<1> QED BY <1>3, <1>4, <1>5, <1>6, <1>7, <1>8, <1>9 DEF Next

LEMMA AlwaysFresh == Spec => []Fresh
<1>1. Init => Fresh
  <2> SUFFICES ASSUME Init PROVE DOMAIN displays = {} /\ DOMAIN pendingDisplays = {}
    BY DEF Fresh
  <2>1. displays = <<>> /\ pendingDisplays = <<>>
    BY DEF Init
  <2> QED BY <2>1
<1> QED BY <1>1, FreshKept, AlwaysSound, PTL DEF Spec

\* For each monitor, the timer, worker and retries of its display and the
\* detections implement BrightnessPromise: KWin's requests are written in their
\* order, some left out, and an idle display shows the last.
THEOREM EachKeepsPromise == ASSUME NEW b \in Buses PROVE Spec => Promise(b)!PromiseSpec
<1>1. ASSUME IInv, IInv', Fresh, [Next]_vars
      PROVE  [Promise(b)!PromiseNext]_(Promise(b)!promiseVars)
  BY <1>1, StepPromise DEF Kept
<1> QED BY <1>1, InitPromise, AlwaysSound, AlwaysFresh, PTL DEF Spec, Promise!PromiseSpec

\* The same of all monitors at once: a step keeps every monitor's promise, also
\* a detection, which replaces the objects of all.
THEOREM AlwaysKeepsPromise == Spec => KeepsPromise
<1>1. ASSUME IInv, IInv', Fresh, [Next]_vars
      PROVE  \A b \in Buses : [Promise(b)!PromiseNext]_(Promise(b)!promiseVars)
  BY <1>1, StepPromise DEF Kept
<1> QED BY <1>1, AlwaysSound, AlwaysFresh, PTL DEF Spec, KeepsPromise
=============================================================================
