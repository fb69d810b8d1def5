------------------------ MODULE ScreenBrightnessProofs ------------------------
(***************************************************************************)
(* Proofs about ScreenBrightness: for any outputs, any range of brightness *)
(* and any number of announcements under way, the controller comes to      *)
(* track what KWin shows and KWin to dim what the controller wants.        *)
(*                                                                         *)
(* The daemon reads KWin's announcements one by one, late, and compares    *)
(* each with a copy it writes to itself.  The inductive invariant says of  *)
(* the announcements under way what reading them will lead to:             *)
(*                                                                         *)
(*   NewsInv   the last one is what KWin has; with none under way the copy *)
(*             is, except for a dimming that is about to be sent;          *)
(*   ValueInv  what is tracked is what the displays want, which is what    *)
(*             the copy has unless it is about to be sent;                 *)
(*   OpAlone   during an operation all of them list the outputs of the     *)
(*             copy, and what was sent is what is wanted;                  *)
(*   DimInv    an output that is not dimmed as wanted will be sent a       *)
(*             configuration, or is a new display by the time they are     *)
(*             read (Anew), when the daemon compares its dimming with what *)
(*             it wants; by then that dimming is KWin's (Steady);          *)
(*   UndimInv  one that lists an output without brightness control as      *)
(*             dimmed follows one in which the output had it, so that the  *)
(*             daemon undims it when it reads the two.                     *)
(*                                                                         *)
(* All but NewsInv hold as long as the outputs do not change under an      *)
(* operation (overlapped).  The applet takes no part in this: what it asks *)
(* for is a brightness (CallsInv), and nothing it does touches `core`.     *)
(*                                                                         *)
(* The second half is about the applet, for any number of displays, names  *)
(* and messages under way:                                                 *)
(*                                                                         *)
(*   NumbersInv  a name on the bus is given to one display, ever, so that  *)
(*               what is read late is never taken for another display's;   *)
(*   QueryInv    one question is under way, the one that is waited for;    *)
(*   NamesInv    the applet has the names, or they are on their way to it, *)
(*               or it will ask for them (Ahead);                          *)
(*   ShownInv    it shows the names it has data of, and will ask for the   *)
(*               data of the others;                                       *)
(*   SetsInv     it sets only what it shows, and a setting fails only for  *)
(*               a display that is gone;                                   *)
(*   ValuesInv   what it shows, after the changes under way to it and with *)
(*               its own under way to the daemon, is what is tracked       *)
(*               (Agrees), unless it was told of a change while it made    *)
(*               one, or will be (Doomed).                                 *)
(*                                                                         *)
(* That its list of rows comes out right is an induction over the names    *)
(* (updateRows is a fold), which the provers cannot do on data: the proofs *)
(* take the least number at which the claim would fail (LeastNumber).      *)
(***************************************************************************)
EXTENDS ScreenBrightness, FiniteSetTheorems, WellFoundedInduction, TLAPS

Configurations == [Outputs -> OutputStates]
Displays == [label : Labels, desiredBrightness : Values, desiredDimming : 0 .. 1,
             inhibitChangeSignal : BOOLEAN]
Tracked == [value : Values, trackingError : Int]

\* What the proofs are about; the rest is the applet and what it is told.
core == <<outside, detector, tracked, dimmingRatio, configuredBrightness, lastBrightness,
          displayChildren, overlapped>>

CoreTypeOK ==
    /\ kwin \in Configurations /\ config \in Configurations
    /\ request = <<>> \/ request \in Configurations
    /\ updates \in Seq(Configurations)
    /\ finished \in BOOLEAN /\ setConfigTimer \in BOOLEAN /\ setConfigOp \in BOOLEAN
    /\ setConfigOutOfDate \in BOOLEAN /\ overlapped \in BOOLEAN
    /\ displays \in [Managed(config) -> Displays]
    /\ tracked \in [Managed(config) -> Tracked]
    /\ DOMAIN displayChildren = Managed(config)
    /\ dimmingRatio \in 0 .. 1 /\ configuredBrightness \in Values \union {NoValue}

\* The applet asks for a brightness in the range of the display.
CallsInv ==
    \E S : calls \in Seq(S) /\ \A call \in S : call.what = "set" => call.value \in Values

\* One operation at a time, which holds the displays' signals back.
OpInv ==
    /\ request # <<>> => setConfigOp /\ ~finished
    /\ finished \/ setConfigOutOfDate => setConfigOp
    /\ \A o \in Managed(config) :
        /\ displays[o].inhibitChangeSignal => setConfigOp
        /\ displays[o].label = config[o].label
        /\ displays[o].desiredDimming = dimmingRatio

\* A configuration will be sent.
Will == setConfigOutOfDate \/ (setConfigTimer /\ ~setConfigOp)

\* The last announcement is what KWin has; with all read and applied, so is the
\* copy, but for a dimming that is about to be sent.
NewsInv ==
    /\ updates # <<>> => updates[Len(updates)] = kwin
    /\ updates = <<>> /\ request = <<>> =>
         /\ ~Differ(config, kwin)
         /\ \A o \in Outputs : /\ config[o].brightness = kwin[o].brightness
                               /\ config[o].dimming = kwin[o].dimming \/ Will
    /\ \A o \in Outputs : kwin[o].status = "gone" => kwin[o].dimming = 1

\* The controller tracks what the displays want, which is what the copy has
\* unless it is about to be sent.
ValueInv ==
    ~overlapped =>
        /\ \A o \in Managed(config) :
             /\ tracked[o].value = displays[o].desiredBrightness
             /\ ~Busy => displays[o].desiredBrightness = config[o].brightness
             /\ 2 * tracked[o].trackingError > Grain => tracked[o].value = MaxBrightness
             /\ 2 * tracked[o].trackingError < -Grain => tracked[o].value = 0
        /\ Managed(config) # {} => lastBrightness = tracked[First(Managed(config))].value

\* The outputs during an operation are those of the copy, and what was sent is
\* what is wanted.
OpAlone ==
    ~overlapped /\ setConfigOp =>
        /\ ~Differ(kwin, config)
        /\ \A i \in 1 .. Len(updates) : ~Stale(updates[i])
        /\ request # <<>> => \A o \in Outputs :
              /\ config[o].status = "incapable" => request[o].dimming = config[o].dimming
              /\ config[o].status = "capable" /\ ~setConfigOutOfDate => request[o].dimming = dimmingRatio

\* What the daemon has read last, and will have read after i announcements.
At(i) == IF i = 0 THEN config ELSE updates[i]
Same(a, b, o) == a[o].status = b[o].status /\ a[o].label = b[o].label

\* o will be a new display, which the daemon compares with what it wants.
Anew(o) == \E j \in 0 .. Len(updates) - 1 : ~Same(At(j), kwin, o)

\* From the last such announcement on, o is dimmed as it is now.
Steady(o) ==
    \A i \in 0 .. Len(updates) - 1 :
        ~Same(At(i), kwin, o) /\ (\A j \in i + 1 .. Len(updates) : Same(At(j), kwin, o))
            => \A j \in i + 1 .. Len(updates) : At(j)[o].dimming = kwin[o].dimming

DimInv ==
    ~overlapped => \A o \in Outputs :
        kwin[o].status = "capable" =>
            /\ kwin[o].dimming = dimmingRatio \/ request # <<>> \/ Will \/ Anew(o)
            /\ Steady(o)

\* An output without brightness control that is left dimmed.
Dimmed(output) == output.status = "incapable" /\ output.dimming = 0

\* The daemon undims it as it reads that a display has lost its control: that is
\* how any announcement comes to have such an output.
UndimInv ==
    ~overlapped => \A o \in Outputs :
        /\ ~Dimmed(config[o])
        /\ Dimmed(kwin[o]) => updates # <<>> \/ request # <<>> \/ (setConfigTimer /\ ~setConfigOp)
        /\ \A i \in 1 .. Len(updates) : Dimmed(updates[i][o]) =>
             \/ setConfigTimer /\ ~setConfigOp /\ config[o].status = "incapable"
             \/ \E j \in 0 .. i - 1 : /\ At(j)[o].status = "capable"
                                      /\ \A k \in j + 1 .. i : Dimmed(At(k)[o])

CoreInv == CoreTypeOK /\ OpInv /\ NewsInv /\ ValueInv /\ OpAlone /\ DimInv /\ UndimInv

-----------------------------------------------------------------------------

LEMMA ConfigurationIsSent ==
    ASSUME NEW r \in Configurations, Outputs # {}
    PROVE  r # <<>>
BY DEF Configurations

\* Every set of natural numbers has a least one.
LEMMA LeastNumber ==
    ASSUME NEW B \in SUBSET Nat, B # {}
    PROVE  \E n \in B : \A m \in B : n <= m
<1>1. PICK n \in B : \A m \in B : ~(<<m, n>> \in OpToRel(<, Nat))
  BY WFMin, NatLessThanWellFounded
<1>2. \A m \in B : ~(m < n)
  BY <1>1 DEF OpToRel
<1> QED BY <1>2

\* A set of displays has a first one.
LEMMA FirstIsIn ==
    ASSUME NEW S, S \subseteq Outputs, S # {}
    PROVE  First(S) \in S
<1>1. S \in SUBSET Nat
  BY KWinAssumption
<1>2. \E n \in S : \A m \in S : n <= m
  BY <1>1, LeastNumber
<1> QED BY <1>2 DEF First

LEMMA ManagedOutputs ==
    ASSUME NEW c
    PROVE  Managed(c) \subseteq Outputs /\ \A o \in Outputs : o \in Managed(c) <=> c[o].status = "capable"
BY DEF Managed

\* Steps that leave all of it alone.
LEMMA CoreKept == ASSUME CoreInv, UNCHANGED core PROVE CoreInv'
<1>1. /\ UNCHANGED kwin /\ UNCHANGED request /\ UNCHANGED finished /\ UNCHANGED updates
      /\ UNCHANGED config /\ UNCHANGED displays /\ UNCHANGED setConfigTimer /\ UNCHANGED setConfigOp
      /\ UNCHANGED setConfigOutOfDate /\ UNCHANGED tracked /\ UNCHANGED dimmingRatio
      /\ UNCHANGED configuredBrightness /\ UNCHANGED lastBrightness /\ UNCHANGED displayChildren
      /\ UNCHANGED overlapped
  BY DEF core, outside, detector
<1>2. CoreTypeOK'
  BY <1>1 DEF CoreInv, CoreTypeOK, Managed
<1>3. OpInv'
  BY <1>1 DEF CoreInv, OpInv, Managed
<1>4. NewsInv'
  BY <1>1 DEF CoreInv, NewsInv, Differ, Will
<1>5. ValueInv'
  BY <1>1 DEF CoreInv, ValueInv, Managed, Busy
<1>6. OpAlone'
  BY <1>1 DEF CoreInv, OpAlone, Differ, Stale
<1>7. DimInv'
  <2>1. \A i : At(i)' = At(i)
    BY <1>1 DEF At
  <2>2. \A o : (Anew(o)' <=> Anew(o)) /\ (Steady(o)' <=> Steady(o))
    BY <1>1, <2>1, Zenon DEF Same, Anew, Steady
  <2> QED BY <1>1, <2>2 DEF CoreInv, DimInv, Will
<1>8. UndimInv'
  BY <1>1 DEF CoreInv, UndimInv, Will, At
<1> QED BY <1>2, <1>3, <1>4, <1>5, <1>6, <1>7, <1>8 DEF CoreInv

-----------------------------------------------------------------------------
(* A new announcement.                                                     *)

LEMMA Announced ==
    ASSUME CoreTypeOK, NEW k \in Configurations, updates' = Append(updates, k), config' = config
    PROVE  /\ updates' \in Seq(Configurations) /\ updates' # <<>>
           /\ Len(updates) \in Nat /\ Len(updates') = Len(updates) + 1
           /\ updates'[Len(updates')] = k
           /\ \A i \in 1 .. Len(updates) : updates'[i] = updates[i]
           /\ \A i \in 0 .. Len(updates) : At(i)' = At(i)
           /\ \A i : i = Len(updates) + 1 => At(i)' = k
<1>1. updates \in Seq(Configurations)
  BY DEF CoreTypeOK
<1>2. /\ updates' \in Seq(Configurations) /\ updates' # <<>>
      /\ Len(updates) \in Nat /\ Len(updates') = Len(updates) + 1
      /\ updates'[Len(updates')] = k
      /\ \A i \in 1 .. Len(updates) : updates'[i] = updates[i]
  BY <1>1
<1> QED BY <1>2 DEF At

\* What is read last is of the kind that KWin has.
LEMMA LastIsSame ==
    ASSUME CoreInv, request = <<>> \/ updates # <<>>, NEW o \in Outputs, NEW n, n = Len(updates)
    PROVE  /\ At(n)[o].status = kwin[o].status /\ At(n)[o].label = kwin[o].label
           /\ n > 0 => At(n) = kwin
           /\ n \in Nat /\ (n = 0 <=> updates = <<>>)
<1>1. updates \in Seq(Configurations)
  BY DEF CoreInv, CoreTypeOK
<1>2. n \in Nat /\ (n = 0 <=> updates = <<>>)
  BY <1>1
<1>3. CASE n = 0
  BY <1>2, <1>3 DEF CoreInv, NewsInv, At, Differ
<1>4. CASE n > 0
  BY <1>2, <1>4 DEF CoreInv, NewsInv, At
<1> QED BY <1>2, <1>3, <1>4

LEMMA AnnouncedNews ==
    ASSUME CoreInv, NEW k \in Configurations, kwin' = k, updates' = Append(updates, k), config' = config,
           \A o \in Outputs : k[o].status = "gone" => k[o].dimming = 1
    PROVE  NewsInv'
BY Announced DEF CoreInv, NewsInv

\* Whatever has not changed is dimmed as before.
LEMMA AnnouncedDim ==
    ASSUME CoreInv, ~overlapped, NEW k \in Configurations, kwin' = k, updates' = Append(updates, k),
           UNCHANGED <<config, request, setConfigTimer, setConfigOp, setConfigOutOfDate, dimmingRatio>>,
           NEW o \in Outputs, k[o].status = "capable",
           \/ Same(kwin, k, o) /\ k[o].dimming = kwin[o].dimming
           \/ ~Same(kwin, k, o) /\ (request = <<>> \/ updates # <<>>)
    PROVE  /\ kwin'[o].dimming = dimmingRatio' \/ request' # <<>> \/ Will' \/ Anew(o)'
           /\ Steady(o)'
<1> DEFINE n == Len(updates)
<1>1. /\ n \in Nat /\ Len(updates)' = n + 1
      /\ \A i \in 0 .. n : At(i)' = At(i)
      /\ \A i : i = n + 1 => At(i)' = k
  BY Announced DEF CoreInv
<1> HIDE DEF n
<1>2. CASE Same(kwin, k, o) /\ k[o].dimming = kwin[o].dimming
  <2>1. \A i : Same(At(i), k, o) <=> Same(At(i), kwin, o)
    BY <1>2 DEF Same
  <2>2. Anew(o) => Anew(o)'
    <3>1. ASSUME NEW j \in 0 .. n - 1, ~Same(At(j), kwin, o)
          PROVE  \E i \in 0 .. (n + 1) - 1 : ~Same(At(i)', k, o)
      BY <1>1, <2>1, <3>1
    <3> QED BY <1>1, <3>1 DEF Anew, Same, n
  <2>3. Steady(o)'
    <3>1. kwin[o].status = "capable" /\ Steady(o)
      BY <1>2 DEF Same, CoreInv, DimInv
    <3>2. ASSUME NEW i \in 0 .. n, ~Same(At(i)', k, o),
                 \A j \in i + 1 .. n + 1 : Same(At(j)', k, o),
                 NEW j \in i + 1 .. n + 1
          PROVE  At(j)'[o].dimming = k[o].dimming
      <4>1. CASE j = n + 1
        BY <1>1, <4>1
      <4>2. CASE j # n + 1
        <5>1. i \in 0 .. n - 1 /\ j \in i + 1 .. n
          BY <1>1, <4>2
        <5>2. ~Same(At(i), kwin, o) /\ \A m \in i + 1 .. n : Same(At(m), kwin, o)
          BY <1>1, <2>1, <3>2, <5>1
        <5>3. At(j)[o].dimming = kwin[o].dimming
          BY <3>1, <5>1, <5>2 DEF Steady, n
        <5> QED BY <1>1, <1>2, <5>1, <5>3
      <4> QED BY <4>1, <4>2
    <3> QED BY <1>1, <3>2 DEF Steady, Same, n
  <2>4. kwin[o].dimming = dimmingRatio \/ request # <<>> \/ Will \/ Anew(o)
    BY <1>2 DEF Same, CoreInv, DimInv
  <2> QED BY <1>2, <2>2, <2>3, <2>4 DEF Will
<1>3. CASE ~Same(kwin, k, o) /\ (request = <<>> \/ updates # <<>>)
  <2>1. ~Same(At(n), k, o)
    BY <1>3, LastIsSame DEF Same, n
  <2>2. Anew(o)'
    BY <1>1, <2>1 DEF Anew, Same, n
  <2>3. ASSUME NEW i \in 0 .. n, \A j \in i + 1 .. n + 1 : Same(At(j)', k, o),
               NEW j \in i + 1 .. n + 1
        PROVE  At(j)'[o].dimming = k[o].dimming
    BY <1>1, <2>1, <2>3
  <2>4. Steady(o)'
    BY <1>1, <2>3 DEF Steady, Same, n
  <2> QED BY <2>2, <2>4
<1> QED BY <1>2, <1>3

\* The same for what is left dimmed without brightness control.
LEMMA AnnouncedUndim ==
    ASSUME CoreInv, ~overlapped, NEW k \in Configurations, kwin' = k, updates' = Append(updates, k),
           UNCHANGED <<config, request, setConfigTimer, setConfigOp, setConfigOutOfDate>>,
           NEW o \in Outputs,
           Dimmed(k[o]) =>
             \/ Dimmed(kwin[o]) /\ (updates # <<>> \/ request = <<>>)
             \/ kwin[o].status = "capable" /\ (updates # <<>> \/ request = <<>>)
    PROVE  /\ ~Dimmed(config'[o])
           /\ Dimmed(kwin'[o]) => updates' # <<>> \/ request' # <<>> \/ (setConfigTimer' /\ ~setConfigOp')
           /\ \A i \in 1 .. Len(updates') : Dimmed(updates'[i][o]) =>
                \/ setConfigTimer' /\ ~setConfigOp' /\ config'[o].status = "incapable"
                \/ \E j \in 0 .. i - 1 : /\ At(j)'[o].status = "capable"
                                         /\ \A m \in j + 1 .. i : Dimmed(At(m)'[o])
<1> DEFINE n == Len(updates)
<1>1. /\ n \in Nat /\ Len(updates') = n + 1 /\ updates' # <<>>
      /\ \A i \in 0 .. n : At(i)' = At(i)
      /\ \A i : i = n + 1 => At(i)' = k /\ updates'[i] = k
      /\ \A i \in 1 .. n : updates'[i] = updates[i] /\ At(i) = updates[i]
  BY Announced DEF CoreInv, At
<1> HIDE DEF n
<1>2. ASSUME NEW i \in 1 .. n, Dimmed(updates[i][o])
      PROVE  \/ setConfigTimer /\ ~setConfigOp /\ config[o].status = "incapable"
             \/ \E j \in 0 .. i - 1 : /\ At(j)[o].status = "capable"
                                      /\ \A m \in j + 1 .. i : Dimmed(At(m)[o])
  BY <1>2 DEF CoreInv, UndimInv, n
<1>3. ASSUME NEW i \in 1 .. n, Dimmed(updates'[i][o])
      PROVE  \/ setConfigTimer' /\ ~setConfigOp' /\ config'[o].status = "incapable"
             \/ \E j \in 0 .. i - 1 : /\ At(j)'[o].status = "capable"
                                      /\ \A m \in j + 1 .. i : Dimmed(At(m)'[o])
  BY <1>1, <1>2, <1>3
<1>4. ASSUME NEW i, i = n + 1, Dimmed(updates'[i][o])
      PROVE  \/ setConfigTimer' /\ ~setConfigOp' /\ config'[o].status = "incapable"
             \/ \E j \in 0 .. i - 1 : /\ At(j)'[o].status = "capable"
                                      /\ \A m \in j + 1 .. i : Dimmed(At(m)'[o])
  <2>1. Dimmed(k[o])
    BY <1>1, <1>4
  <2>2. CASE Dimmed(kwin[o]) /\ n > 0
    <3>1. updates[n] = kwin /\ At(n) = kwin
      BY <2>2, <1>1 DEF CoreInv, NewsInv, n
    <3>2. CASE setConfigTimer /\ ~setConfigOp /\ config[o].status = "incapable"
      BY <3>2
    <3>3. CASE \E j \in 0 .. n - 1 : /\ At(j)[o].status = "capable"
                                    /\ \A m \in j + 1 .. n : Dimmed(At(m)[o])
      <4>1. PICK j \in 0 .. n - 1 : /\ At(j)[o].status = "capable"
                                   /\ \A m \in j + 1 .. n : Dimmed(At(m)[o])
        BY <3>3
      <4>2. j \in 0 .. i - 1 /\ At(j)'[o].status = "capable"
        BY <1>1, <1>4, <4>1
      <4>3. ASSUME NEW m \in j + 1 .. i PROVE Dimmed(At(m)'[o])
        BY <1>1, <1>4, <2>1, <4>1, <4>3
      <4> QED BY <4>2, <4>3
    <3> QED BY <1>1, <1>2, <2>2, <3>1, <3>2, <3>3
  <2>3. CASE Dimmed(kwin[o]) /\ n = 0
    <3>1. updates = <<>> /\ request = <<>>
      BY <1>1, <2>1, <2>3 DEF CoreInv, CoreTypeOK, n, Dimmed
    <3>2. ~Differ(config, kwin)
      BY <3>1 DEF CoreInv, NewsInv
    <3>3. setConfigTimer /\ ~setConfigOp
      BY <2>3, <3>1 DEF CoreInv, UndimInv
    <3>4. config[o].status = "incapable"
      BY <2>3, <3>2 DEF Differ, Dimmed
    <3> QED BY <3>3, <3>4
  <2>4. CASE kwin[o].status = "capable"
    <3>1. updates # <<>> \/ request = <<>>
      BY <2>1, <2>4 DEF Dimmed
    <3>2. At(n)[o].status = "capable"
      BY <2>4, <3>1, LastIsSame DEF n
    <3>3. PICK j \in 0 .. i - 1 : j = n
      BY <1>1, <1>4
    <3>4. At(j)'[o].status = "capable"
      BY <1>1, <3>2, <3>3
    <3>5. ASSUME NEW m \in j + 1 .. i PROVE Dimmed(At(m)'[o])
      <4>1. m = n + 1
        BY <1>1, <1>4, <3>3
      <4> QED BY <1>1, <2>1, <4>1
    <3> QED BY <3>4, <3>5
  <2> QED BY <1>1, <2>1, <2>2, <2>3, <2>4
<1>5. \A i \in 1 .. Len(updates') : i \in 1 .. n \/ i = n + 1
  BY <1>1
<1> QED BY <1>1, <1>3, <1>4, <1>5 DEF CoreInv, UndimInv

\* What no announcement touches.
LEMMA AnnouncedRest ==
    ASSUME CoreInv, NEW k \in Configurations, kwin' = k, updates' = Append(updates, k),
           UNCHANGED <<detector, tracked, dimmingRatio, configuredBrightness,
                       lastBrightness, displayChildren>>,
           request' \in {request, <<>>}, request' # <<>> => ~finished',
           finished' \in BOOLEAN, finished' => setConfigOp,
           overlapped' \in BOOLEAN, overlapped => overlapped'
    PROVE  CoreTypeOK' /\ OpInv' /\ ValueInv'
<1>1. /\ UNCHANGED config /\ UNCHANGED displays /\ UNCHANGED setConfigTimer /\ UNCHANGED setConfigOp
      /\ UNCHANGED setConfigOutOfDate /\ UNCHANGED tracked /\ UNCHANGED dimmingRatio
      /\ UNCHANGED configuredBrightness /\ UNCHANGED lastBrightness /\ UNCHANGED displayChildren
  BY DEF detector
<1>2. updates' \in Seq(Configurations)
  BY <1>1, Announced DEF CoreInv
<1>3. CoreTypeOK'
  BY <1>1, <1>2 DEF CoreInv, CoreTypeOK, Managed
<1>4. OpInv'
  BY <1>1 DEF CoreInv, OpInv, Managed
<1>5. ValueInv'
  BY <1>1 DEF CoreInv, ValueInv, Managed, Busy
<1> QED BY <1>3, <1>4, <1>5

LEMMA OutputChangesKeeps ==
    ASSUME CoreInv, NEW o \in Outputs, NEW status \in {"gone", "incapable", "capable"},
           NEW label \in Labels, KWinChangesOutput(o, status, label)
    PROVE  CoreInv'
<1> DEFINE k == [kwin EXCEPT ![o] = [@ EXCEPT !.status = status, !.label = label,
                                              !.dimming = IF status = "gone" THEN 1 ELSE kwin[o].dimming]]
<1>1. /\ kwin' = k /\ updates' = Append(updates, kwin')
      /\ UNCHANGED <<request, finished, detector>> /\ UNCHANGED controller
      /\ ~overlapped /\ overlapped' = (overlapped \/ Busy)
      /\ label # kwin[o].label => status = "capable" /\ kwin[o].status # "incapable"
      /\ <<status, label>> # <<kwin[o].status, kwin[o].label>>
  BY DEF KWinChangesOutput, OutputChanges, Announces, Happens
<1>2. kwin \in Configurations /\ \A p \in Outputs : kwin[p].status = "gone" => kwin[p].dimming = 1
  BY DEF CoreInv, CoreTypeOK, NewsInv
<1>3. /\ k \in Configurations
      /\ \A p \in Outputs : p # o => k[p] = kwin[p]
      /\ k[o].status = status /\ k[o].label = label /\ k[o].brightness = kwin[o].brightness
      /\ k[o].dimming = IF status = "gone" THEN 1 ELSE kwin[o].dimming
  <2>1. kwin[o] \in OutputStates
    BY <1>2 DEF Configurations
  <2> DEFINE level == IF status = "gone" THEN 1 ELSE kwin[o].dimming
             new == [kwin[o] EXCEPT !.status = status, !.label = label, !.dimming = level]
  <2>2. level \in 0 .. 1
    BY <2>1 DEF OutputStates
  <2>3. k = [kwin EXCEPT ![o] = new]
    BY DEF k
  <2>4. level = IF status = "gone" THEN 1 ELSE kwin[o].dimming
    OBVIOUS
  <2> HIDE DEF level
  <2>5. /\ new \in OutputStates /\ new.status = status /\ new.label = label
        /\ new.brightness = kwin[o].brightness /\ new.dimming = level
    BY <2>1, <2>2 DEF OutputStates
  <2> HIDE DEF new, k
  <2> QED BY <1>2, <2>3, <2>4, <2>5 DEF Configurations
<1> HIDE DEF k
<1>4. /\ UNCHANGED config /\ UNCHANGED displays /\ UNCHANGED setConfigTimer /\ UNCHANGED setConfigOp
      /\ UNCHANGED setConfigOutOfDate /\ UNCHANGED tracked /\ UNCHANGED dimmingRatio
      /\ UNCHANGED configuredBrightness /\ UNCHANGED lastBrightness /\ UNCHANGED displayChildren
      /\ UNCHANGED finished /\ UNCHANGED request /\ updates' = Append(updates, k)
  BY <1>1 DEF detector, controller
<1>5. Busy \in BOOLEAN
  BY DEF CoreInv, CoreTypeOK, Busy
<1>6. CoreTypeOK' /\ OpInv' /\ ValueInv'
  <2>1. finished \in BOOLEAN /\ (request # <<>> => ~finished) /\ (finished => setConfigOp)
    BY DEF CoreInv, CoreTypeOK, OpInv
  <2> QED BY <1>1, <1>3, <1>4, <1>5, <2>1, AnnouncedRest
<1>7. NewsInv'
  BY <1>1, <1>2, <1>3, <1>4, AnnouncedNews
<1>8. ASSUME ~overlapped' PROVE ~setConfigOp /\ ~setConfigTimer /\ request = <<>>
  BY <1>1, <1>8 DEF Busy, CoreInv, OpInv
<1>9. OpAlone'
  BY <1>4, <1>8 DEF OpAlone
<1>10. ASSUME ~overlapped', NEW p \in Outputs, k[p].status = "capable"
       PROVE  \/ Same(kwin, k, p) /\ k[p].dimming = kwin[p].dimming
              \/ ~Same(kwin, k, p)
  <2>1. CASE p # o
    BY <1>3, <2>1 DEF Same
  <2>2. CASE p = o
    BY <1>1, <1>3, <2>2 DEF Same
  <2> QED BY <2>1, <2>2
<1>11. DimInv'
  <2>1. ASSUME ~overlapped', NEW p \in Outputs, kwin'[p].status = "capable"
        PROVE  /\ kwin'[p].dimming = dimmingRatio' \/ request' # <<>> \/ Will' \/ Anew(p)'
               /\ Steady(p)'
    BY <1>1, <1>3, <1>4, <1>8, <1>10, <2>1, AnnouncedDim
  <2> QED BY <2>1 DEF DimInv
<1>12. ASSUME ~overlapped', NEW p \in Outputs, Dimmed(k[p])
       PROVE  Dimmed(kwin[p]) \/ kwin[p].status = "capable"
  <2>1. CASE p # o
    BY <1>3, <1>12, <2>1
  <2>2. CASE p = o
    <3>1. kwin[p] \in OutputStates
      BY <1>2 DEF Configurations
    <3> QED BY <1>1, <1>2, <1>3, <1>12, <2>2, <3>1 DEF Dimmed, OutputStates
  <2> QED BY <2>1, <2>2
<1>13. UndimInv'
  <2>1. ASSUME ~overlapped', NEW p \in Outputs
        PROVE  /\ ~Dimmed(config'[p])
               /\ Dimmed(kwin'[p]) => updates' # <<>> \/ request' # <<>> \/ (setConfigTimer' /\ ~setConfigOp')
               /\ \A i \in 1 .. Len(updates') : Dimmed(updates'[i][p]) =>
                    \/ setConfigTimer' /\ ~setConfigOp' /\ config'[p].status = "incapable"
                    \/ \E j \in 0 .. i - 1 : /\ At(j)'[p].status = "capable"
                                             /\ \A m \in j + 1 .. i : Dimmed(At(m)'[p])
    BY <1>1, <1>3, <1>4, <1>8, <1>12, <2>1, AnnouncedUndim
  <2> QED BY <2>1 DEF UndimInv
<1> QED BY <1>6, <1>7, <1>9, <1>11, <1>13 DEF CoreInv

\* During an operation, what is announced and what was fits the copy.
LEMMA AnnouncedFits ==
    ASSUME CoreInv, ~overlapped, setConfigOp, NEW k \in Configurations, ~Stale(k),
           updates' = Append(updates, k), config' = config
    PROVE  \A i \in 1 .. Len(updates') : ~Stale(updates[i])'
<1>1. \A i \in 1 .. Len(updates) : ~Stale(updates[i])
  BY DEF CoreInv, OpAlone
<1>2. ASSUME NEW i \in 1 .. Len(updates') PROVE ~Stale(updates'[i])
  <2>1. i \in 1 .. Len(updates) \/ i = Len(updates')
    BY Announced DEF CoreInv
  <2>2. CASE i \in 1 .. Len(updates)
    BY <1>1, <2>2, Announced DEF CoreInv
  <2>3. CASE i = Len(updates')
    BY <2>3, Announced DEF CoreInv
  <2> QED BY <2>1, <2>2, <2>3
<1> QED BY <1>2 DEF Stale, Differ

LEMMA BrightnessChangesKeeps ==
    ASSUME CoreInv, NEW o \in Outputs, NEW value \in Values, KWinChangesBrightness(o, value)
    PROVE  CoreInv'
<1> DEFINE k == [kwin EXCEPT ![o].brightness = value]
<1>1. /\ kwin' = k /\ updates' = Append(updates, kwin')
      /\ UNCHANGED <<request, finished, detector>> /\ UNCHANGED controller
      /\ ~overlapped /\ overlapped' = (overlapped \/ (setConfigOp /\ Stale(kwin')))
  BY DEF KWinChangesBrightness, BrightnessChanges, Announces, Happens
<1>2. kwin \in Configurations /\ \A p \in Outputs : kwin[p].status = "gone" => kwin[p].dimming = 1
  BY DEF CoreInv, CoreTypeOK, NewsInv
<1>3. /\ k \in Configurations
      /\ \A p \in Outputs : k[p].status = kwin[p].status /\ k[p].label = kwin[p].label
                            /\ k[p].dimming = kwin[p].dimming
  BY <1>2 DEF Configurations, OutputStates
<1> HIDE DEF k
<1>4. /\ UNCHANGED config /\ UNCHANGED displays /\ UNCHANGED setConfigTimer /\ UNCHANGED setConfigOp
      /\ UNCHANGED setConfigOutOfDate /\ UNCHANGED tracked /\ UNCHANGED dimmingRatio
      /\ UNCHANGED configuredBrightness /\ UNCHANGED lastBrightness /\ UNCHANGED displayChildren
      /\ UNCHANGED finished /\ UNCHANGED request /\ updates' = Append(updates, k)
  BY <1>1 DEF detector, controller
<1>5. Stale(k) \in BOOLEAN /\ setConfigOp \in BOOLEAN /\ finished \in BOOLEAN
      /\ (request # <<>> => ~finished /\ setConfigOp) /\ (finished => setConfigOp)
  BY DEF CoreInv, CoreTypeOK, OpInv, Stale
<1>6. CoreTypeOK' /\ OpInv' /\ ValueInv'
  BY <1>1, <1>3, <1>4, <1>5, AnnouncedRest
<1>7. NewsInv'
  BY <1>1, <1>2, <1>3, <1>4, AnnouncedNews
<1>8. ASSUME ~overlapped', setConfigOp PROVE ~Stale(k)
  BY <1>1, <1>8
<1>9. OpAlone'
  <2> SUFFICES ASSUME ~overlapped', setConfigOp PROVE OpAlone'
    BY <1>4 DEF OpAlone
  <2>3. \A i \in 1 .. Len(updates') : ~Stale(updates[i])'
    BY <1>1, <1>3, <1>4, <1>8, AnnouncedFits
  <2>4. ~Differ(kwin', config')
    BY <1>1, <1>4, <1>8 DEF Stale
  <2>5. request # <<>> => \A p \in Outputs :
              /\ config[p].status = "incapable" => request[p].dimming = config[p].dimming
              /\ config[p].status = "capable" /\ ~setConfigOutOfDate => request[p].dimming = dimmingRatio
    BY <1>1 DEF CoreInv, OpAlone
  <2> QED BY <1>4, <2>3, <2>4, <2>5 DEF OpAlone
<1>10. DimInv'
  <2>1. ASSUME ~overlapped', NEW p \in Outputs, kwin'[p].status = "capable"
        PROVE  /\ kwin'[p].dimming = dimmingRatio' \/ request' # <<>> \/ Will' \/ Anew(p)'
               /\ Steady(p)'
    <3>1. Same(kwin, k, p) /\ k[p].dimming = kwin[p].dimming
      BY <1>3 DEF Same
    <3> QED BY <1>1, <1>3, <1>4, <2>1, <3>1, AnnouncedDim
  <2> QED BY <2>1 DEF DimInv
<1>11. ASSUME ~overlapped', NEW p \in Outputs, Dimmed(k[p])
       PROVE  Dimmed(kwin[p]) /\ (updates # <<>> \/ request = <<>>)
  <2>1. Dimmed(kwin[p])
    BY <1>3, <1>11 DEF Dimmed
  <2>2. ASSUME request # <<>> PROVE FALSE
    <3>1. ~Stale(k) /\ ~Dimmed(config[p])
      BY <1>1, <1>5, <1>8, <1>11, <2>2 DEF CoreInv, UndimInv
    <3> QED BY <1>11, <3>1 DEF Stale, Differ, Dimmed
  <2> QED BY <2>1, <2>2
<1>12. UndimInv'
  <2>1. ASSUME ~overlapped', NEW p \in Outputs
        PROVE  /\ ~Dimmed(config'[p])
               /\ Dimmed(kwin'[p]) => updates' # <<>> \/ request' # <<>> \/ (setConfigTimer' /\ ~setConfigOp')
               /\ \A i \in 1 .. Len(updates') : Dimmed(updates'[i][p]) =>
                    \/ setConfigTimer' /\ ~setConfigOp' /\ config'[p].status = "incapable"
                    \/ \E j \in 0 .. i - 1 : /\ At(j)'[p].status = "capable"
                                             /\ \A m \in j + 1 .. i : Dimmed(At(m)'[p])
    BY <1>1, <1>3, <1>4, <1>11, <2>1, AnnouncedUndim
  <2> QED BY <2>1 DEF UndimInv
<1> QED BY <1>6, <1>7, <1>9, <1>10, <1>12 DEF CoreInv

LEMMA AppliesRequestKeeps ==
    ASSUME CoreInv, KWinAppliesRequest
    PROVE  CoreInv'
<1> DEFINE k == [o \in Outputs |->
                  CASE kwin[o].status = "gone" -> kwin[o]
                    [] kwin[o].status = "incapable" -> [kwin[o] EXCEPT !.dimming = request[o].dimming]
                    [] OTHER -> [kwin[o] EXCEPT !.brightness = request[o].brightness,
                                                !.dimming = request[o].dimming]]
<1>1. /\ kwin' = k /\ updates' = Append(updates, kwin')
      /\ request # <<>> /\ request' = <<>> /\ finished' = TRUE
      /\ UNCHANGED detector /\ UNCHANGED controller /\ UNCHANGED overlapped
  BY DEF KWinAppliesRequest, AppliesRequest, Announces
<1>2. /\ kwin \in Configurations /\ request \in Configurations
      /\ \A p \in Outputs : kwin[p].status = "gone" => kwin[p].dimming = 1
      /\ setConfigOp /\ overlapped \in BOOLEAN
  BY <1>1 DEF CoreInv, CoreTypeOK, NewsInv, OpInv
<1>3. ASSUME NEW p \in Outputs
      PROVE  /\ k[p] \in OutputStates
             /\ k[p].status = kwin[p].status /\ k[p].label = kwin[p].label
             /\ k[p].dimming = IF kwin[p].status = "gone" THEN 1 ELSE request[p].dimming
  <2>1. kwin[p] \in OutputStates /\ request[p] \in OutputStates
    BY <1>2 DEF Configurations
  <2>2. k[p] = CASE kwin[p].status = "gone" -> kwin[p]
                 [] kwin[p].status = "incapable" -> [kwin[p] EXCEPT !.dimming = request[p].dimming]
                 [] OTHER -> [kwin[p] EXCEPT !.brightness = request[p].brightness,
                                             !.dimming = request[p].dimming]
    OBVIOUS
  <2> HIDE DEF k
  <2>3. CASE kwin[p].status = "gone"
    BY <1>2, <2>1, <2>2, <2>3
  <2>4. CASE kwin[p].status = "incapable"
    BY <2>1, <2>2, <2>4 DEF OutputStates
  <2>5. CASE kwin[p].status = "capable"
    BY <2>1, <2>2, <2>5 DEF OutputStates
  <2> QED BY <2>1, <2>3, <2>4, <2>5 DEF OutputStates
<1>4. k \in Configurations
  BY <1>3 DEF Configurations
<1> HIDE DEF k
<1>5. /\ UNCHANGED config /\ UNCHANGED displays /\ UNCHANGED setConfigTimer /\ UNCHANGED setConfigOp
      /\ UNCHANGED setConfigOutOfDate /\ UNCHANGED tracked /\ UNCHANGED dimmingRatio
      /\ UNCHANGED configuredBrightness /\ UNCHANGED lastBrightness /\ UNCHANGED displayChildren
      /\ updates' = Append(updates, k)
  BY <1>1 DEF detector, controller
<1>6. CoreTypeOK' /\ OpInv' /\ ValueInv'
  BY <1>1, <1>2, <1>4, <1>5, AnnouncedRest
<1>7. NewsInv'
  BY <1>1, <1>2, <1>3, <1>4, <1>5, AnnouncedNews
<1>8. ASSUME ~overlapped, NEW p \in Outputs
      PROVE  /\ kwin[p].status = config[p].status /\ kwin[p].label = config[p].label
             /\ config[p].status = "incapable" => request[p].dimming = config[p].dimming
             /\ config[p].status = "capable" /\ ~setConfigOutOfDate => request[p].dimming = dimmingRatio
             /\ ~Dimmed(config[p])
  BY <1>1, <1>2, <1>8 DEF CoreInv, OpAlone, Differ, UndimInv
<1>9. ASSUME ~overlapped PROVE ~Stale(k) /\ ~Differ(k, config)
  BY <1>3, <1>8, <1>9 DEF Stale, Differ
<1>10. ASSUME ~overlapped PROVE \A i \in 1 .. Len(updates') : ~Stale(updates[i])'
  BY <1>2, <1>4, <1>5, <1>9, <1>10, AnnouncedFits
<1>11. OpAlone'
  BY <1>1, <1>5, <1>9, <1>10 DEF OpAlone
<1>12. ASSUME ~overlapped, NEW i \in 1 .. Len(updates'), NEW p \in Outputs
       PROVE  updates'[i][p].status = config[p].status /\ updates'[i][p].label = config[p].label
              /\ ~Dimmed(updates'[i][p])
  <2>1. ~Stale(updates'[i])
    BY <1>5, <1>10, <1>12 DEF Stale, Differ
  <2> QED BY <1>8, <1>12, <2>1 DEF Stale, Differ, Dimmed
<1>13. DimInv'
  <2>1. ASSUME ~overlapped, NEW p \in Outputs, k[p].status = "capable"
        PROVE  k[p].dimming = dimmingRatio \/ Will
    BY <1>3, <1>8, <2>1 DEF Will
  <2>2. ASSUME ~overlapped, NEW p \in Outputs PROVE Steady(p)'
    <3>1. ASSUME NEW i \in 0 .. Len(updates') - 1 PROVE Same(At(i)', k, p)
      <4>1. Len(updates') \in Nat
        BY <1>4, <1>5, Announced DEF CoreInv
      <4>2. At(i)' = config \/ (i \in 1 .. Len(updates') /\ At(i)' = updates'[i])
        BY <1>5, <4>1 DEF At
      <4> QED BY <1>3, <1>8, <1>12, <2>2, <4>2 DEF Same
    <3> QED BY <1>1, <3>1 DEF Steady, Same
  <2> QED BY <1>1, <1>5, <2>1, <2>2 DEF DimInv, Will
<1>14. ASSUME ~overlapped, NEW p \in Outputs PROVE ~Dimmed(k[p])
  BY <1>3, <1>8, <1>14 DEF Dimmed
<1>15. UndimInv'
  BY <1>1, <1>5, <1>8, <1>12, <1>14 DEF UndimInv
<1> QED BY <1>6, <1>7, <1>11, <1>13, <1>15 DEF CoreInv

-----------------------------------------------------------------------------
(* A configuration is sent.                                                *)

LEMMA SendingKeeps ==
    ASSUME CoreInv, setConfig, request = <<>>, finished' = FALSE,
           UNCHANGED <<kwin, updates, tracked, dimmingRatio, configuredBrightness, lastBrightness,
                       displayChildren>>,
           setConfigTimer' \in BOOLEAN, overlapped' \in BOOLEAN,
           ~overlapped' => ~overlapped /\ \A i \in 1 .. Len(updates) : ~Stale(updates[i])
    PROVE  CoreInv'
<1>1. /\ UNCHANGED kwin /\ UNCHANGED updates /\ UNCHANGED tracked /\ UNCHANGED dimmingRatio
      /\ UNCHANGED configuredBrightness /\ UNCHANGED lastBrightness /\ UNCHANGED displayChildren
      /\ request' = config' /\ setConfigOp' = TRUE /\ setConfigOutOfDate' = FALSE
  BY DEF setConfig
<1>2. /\ config \in Configurations /\ kwin \in Configurations /\ updates \in Seq(Configurations)
      /\ displays \in [Managed(config) -> Displays]
      /\ \A o \in Managed(config) : displays[o].desiredDimming = dimmingRatio
                                    /\ displays[o].label = config[o].label
  BY DEF CoreInv, CoreTypeOK, OpInv
<1>3. ASSUME NEW o \in Outputs
      PROVE  /\ config'[o] \in OutputStates
             /\ config'[o].status = config[o].status /\ config'[o].label = config[o].label
             /\ o \notin Managed(config) => config'[o] = config[o]
             /\ o \in Managed(config) => /\ config'[o].dimming = dimmingRatio
                                         /\ config'[o].brightness = displays[o].desiredBrightness
  <2>1. config[o] \in OutputStates
    BY <1>2 DEF Configurations
  <2>2. config'[o] = IF o \in Managed(config)
                     THEN [config[o] EXCEPT !.brightness = displays[o].desiredBrightness,
                                            !.dimming = displays[o].desiredDimming]
                     ELSE config[o]
    BY <1>2 DEF setConfig, applyPendingBrightness
  <2>3. CASE o \in Managed(config)
    <3>1. displays[o] \in Displays
      BY <1>2, <2>3
    <3>2. /\ displays[o].desiredBrightness \in Values /\ displays[o].desiredDimming \in 0 .. 1
          /\ displays[o].desiredDimming = dimmingRatio
      BY <1>2, <2>3, <3>1 DEF Displays
    <3> QED BY <2>1, <2>2, <2>3, <3>2 DEF OutputStates
  <2>4. CASE o \notin Managed(config)
    BY <2>1, <2>2, <2>4
  <2> QED BY <2>3, <2>4
<1>4. config' \in Configurations
  <2>1. config' = [o \in Outputs |-> config'[o]]
    BY DEF setConfig
  <2> QED BY <1>3, <2>1 DEF Configurations
<1>5. Managed(config') = Managed(config)
  BY <1>3 DEF Managed
<1>6. /\ displays' \in [Managed(config) -> Displays]
      /\ \A o \in Managed(config) : /\ displays'[o].label = displays[o].label
                                    /\ displays'[o].desiredBrightness = displays[o].desiredBrightness
                                    /\ displays'[o].desiredDimming = displays[o].desiredDimming
  <2>1. DOMAIN displays = Managed(config)
    BY <1>2
  <2>2. displays' = [o \in Managed(config) |-> [displays[o] EXCEPT !.inhibitChangeSignal = TRUE]]
    BY <2>1 DEF setConfig
  <2> QED BY <1>2, <2>2 DEF Displays
<1>7. CoreTypeOK'
  <2>1. Managed(config)' = Managed(config)
    BY <1>5
  <2> QED BY <1>1, <1>4, <1>6, <2>1 DEF CoreInv, CoreTypeOK
<1>8. OpInv'
  <2>1. Managed(config)' = Managed(config)
    BY <1>5
  <2>2. \A o \in Managed(config) : o \in Outputs
    BY DEF Managed
  <2> QED BY <1>1, <1>2, <1>3, <1>6, <2>1, <2>2 DEF OpInv
<1>9. \A o \in Outputs : request' # <<>>
  BY <1>1, <1>4, ConfigurationIsSent
<1>10. NewsInv'
  BY <1>1, <1>9 DEF CoreInv, NewsInv, Differ
<1>11. ValueInv'
  <2>1. Managed(config)' = Managed(config)
    BY <1>5
  <2> QED BY <1>1, <1>6, <2>1 DEF CoreInv, ValueInv, Busy
<1>12. ASSUME ~overlapped', NEW i \in 1 .. Len(updates), NEW o \in Outputs
       PROVE  /\ updates[i][o].status = config'[o].status /\ updates[i][o].label = config'[o].label
              /\ updates[i][o].status = "incapable" => updates[i][o].dimming = config'[o].dimming
              /\ ~Dimmed(updates[i][o])
  <2>1. ~Stale(updates[i]) /\ ~Dimmed(config[o])
    BY <1>12 DEF CoreInv, UndimInv
  <2>2. config[o].status = "incapable" => config'[o] = config[o]
    BY <1>3 DEF Managed
  <2> QED BY <1>3, <2>1, <2>2 DEF Stale, Differ, Dimmed
<1>13. ASSUME ~overlapped', NEW o \in Outputs
       PROVE  kwin[o].status = config'[o].status /\ kwin[o].label = config'[o].label
  <2>1. CASE updates = <<>>
    BY <1>3, <2>1 DEF CoreInv, NewsInv, Differ
  <2>2. CASE updates # <<>>
    <3>1. Len(updates) \in 1 .. Len(updates) /\ updates[Len(updates)] = kwin
      BY <1>2, <2>2 DEF CoreInv, NewsInv
    <3> QED BY <1>12, <1>13, <3>1
  <2> QED BY <2>1, <2>2
<1>14. OpAlone'
  <2>1. ASSUME ~overlapped' PROVE ~Differ(kwin, config')
    BY <1>13, <2>1 DEF Differ
  <2>2. ASSUME ~overlapped', NEW i \in 1 .. Len(updates) PROVE ~Stale(updates[i])'
    BY <1>1, <1>12, <2>2 DEF Stale, Differ
  <2>3. \A o \in Outputs : config'[o].status = "capable" => config'[o].dimming = dimmingRatio
    BY <1>3 DEF Managed
  <2> QED BY <1>1, <2>1, <2>2, <2>3 DEF OpAlone
<1>15. DimInv'
  <2>1. ASSUME NEW o \in Outputs, ~overlapped', kwin[o].status = "capable" PROVE Steady(o)'
    <3>1. Steady(o) /\ Len(updates) \in Nat
      BY <1>1, <1>2, <2>1 DEF CoreInv, DimInv
    <3>2. \A i : Same(At(i)', kwin, o) <=> Same(At(i), kwin, o)
      BY <1>1, <1>3 DEF Same, At
    <3>3. \A i \in 0 .. Len(updates) - 1 : \A j \in i + 1 .. Len(updates) : At(j)' = At(j)
      BY <1>1, <3>1 DEF At
    <3> QED BY <1>1, <3>1, <3>2, <3>3 DEF Steady, Same
  <2> QED BY <1>1, <1>9, <2>1 DEF DimInv
<1>16. UndimInv'
  <2>1. ASSUME ~overlapped', NEW o \in Outputs PROVE ~Dimmed(config'[o])
    BY <1>3, <2>1 DEF CoreInv, UndimInv, Dimmed, Managed
  <2> QED BY <1>1, <1>9, <1>12, <2>1 DEF UndimInv
<1> QED BY <1>7, <1>8, <1>10, <1>11, <1>14, <1>15, <1>16 DEF CoreInv

LEMMA SetConfigKeeps ==
    ASSUME CoreInv, SetConfig
    PROVE  CoreInv'
<1>1. /\ setConfigTimer /\ setConfigTimer' = FALSE
      /\ UNCHANGED <<kwin, finished, updates>> /\ UNCHANGED controller
      /\ overlapped' = (overlapped \/ \E i \in DOMAIN updates : Stale(updates[i]))
      /\ setConfigOp => UNCHANGED <<config, displays, request, setConfigOp, setConfigOutOfDate>>
      /\ ~setConfigOp => setConfig
  BY DEF SetConfig, setConfigTimeout
<1>2. overlapped \in BOOLEAN /\ setConfigOp \in BOOLEAN /\ updates \in Seq(Configurations)
  BY DEF CoreInv, CoreTypeOK
<1>3. /\ overlapped' \in BOOLEAN
      /\ ~overlapped' => ~overlapped /\ \A i \in 1 .. Len(updates) : ~Stale(updates[i])
  <2>1. DOMAIN updates = 1 .. Len(updates)
    BY <1>2
  <2> QED BY <1>1, <1>2, <2>1
<1>4. CASE ~setConfigOp
  <2>1. request = <<>> /\ finished' = FALSE
    BY <1>1, <1>4 DEF CoreInv, OpInv, CoreTypeOK
  <2> QED BY <1>1, <1>3, <1>4, <2>1, SendingKeeps DEF controller
<1>5. CASE setConfigOp
  <2>1. /\ UNCHANGED kwin /\ UNCHANGED request /\ UNCHANGED finished /\ UNCHANGED updates
        /\ UNCHANGED config /\ UNCHANGED displays /\ setConfigTimer' = FALSE /\ UNCHANGED setConfigOp
        /\ UNCHANGED setConfigOutOfDate /\ UNCHANGED tracked /\ UNCHANGED dimmingRatio
        /\ UNCHANGED configuredBrightness /\ UNCHANGED lastBrightness /\ UNCHANGED displayChildren
        /\ (~overlapped' => ~overlapped)
    BY <1>1, <1>3, <1>5 DEF controller
  <2>2. CoreTypeOK'
    BY <1>3, <2>1 DEF CoreInv, CoreTypeOK, Managed
  <2>3. OpInv'
    BY <2>1 DEF CoreInv, OpInv, Managed
  <2>4. NewsInv'
    BY <1>5, <2>1 DEF CoreInv, NewsInv, Differ, Will
  <2>5. ValueInv'
    BY <1>5, <2>1 DEF CoreInv, ValueInv, Managed, Busy
  <2>6. OpAlone'
    BY <2>1 DEF CoreInv, OpAlone, Differ, Stale
  <2>7. \A i : At(i)' = At(i)
    BY <2>1 DEF At
  <2>8. \A o : (Anew(o)' <=> Anew(o)) /\ (Steady(o)' <=> Steady(o))
    BY <2>1, <2>7, Zenon DEF Same, Anew, Steady
  <2>9. DimInv'
    BY <1>5, <2>1, <2>8 DEF CoreInv, DimInv, Will
  <2>10. UndimInv'
    BY <1>5, <2>1 DEF CoreInv, UndimInv, At
  <2> QED BY <2>2, <2>3, <2>4, <2>5, <2>6, <2>9, <2>10 DEF CoreInv
<1> QED BY <1>2, <1>4, <1>5

-----------------------------------------------------------------------------
(* The controller's values are set.                                        *)

LEMMA ScheduledKeeps ==
    ASSUME CoreInv, UNCHANGED <<kwin, request, updates, config, setConfigOp, dimmingRatio, overlapped>>,
           setConfigTimer => setConfigTimer', setConfigOutOfDate => setConfigOutOfDate'
    PROVE  NewsInv' /\ OpAlone' /\ DimInv' /\ UndimInv'
<1>1. NewsInv'
  BY DEF CoreInv, NewsInv, Differ, Will
<1>2. OpAlone'
  BY DEF CoreInv, OpAlone, Differ, Stale
<1>3. \A i : At(i)' = At(i)
  BY DEF At
<1>4. \A o : (Anew(o)' <=> Anew(o)) /\ (Steady(o)' <=> Steady(o))
  <2>1. UNCHANGED kwin /\ UNCHANGED updates
    OBVIOUS
  <2> QED BY <1>3, <2>1, ZenonT(60) DEF Same, Anew, Steady
<1>5. DimInv'
  BY <1>4 DEF CoreInv, DimInv, Will
<1>6. UndimInv'
  BY <1>3 DEF CoreInv, UndimInv
<1> QED BY <1>1, <1>2, <1>5, <1>6

\* A display that is behind by more than the rounding is at the end of its range.
AtEnds(t) == /\ 2 * t.trackingError > Grain => t.value = MaxBrightness
             /\ 2 * t.trackingError < -Grain => t.value = 0

LEMMA SettingKeeps ==
    ASSUME CoreInv, NEW wanted \in BOOLEAN, scheduleSetConfig(wanted),
           UNCHANGED <<kwin, request, finished, updates, config, setConfigOp, dimmingRatio, overlapped,
                       displayChildren>>,
           configuredBrightness' \in Values \union {NoValue},
           tracked' \in [Managed(config) -> Tracked], displays' \in [Managed(config) -> Displays],
           \A o \in Managed(config) :
               /\ displays'[o].label = displays[o].label
               /\ displays'[o].desiredDimming = displays[o].desiredDimming
               /\ displays'[o].inhibitChangeSignal = displays[o].inhibitChangeSignal
               /\ \/ tracked'[o].value = displays'[o].desiredBrightness
                  \/ /\ tracked'[o].value = tracked[o].value
                     /\ displays'[o].desiredBrightness = displays[o].desiredBrightness
               /\ wanted \/ displays'[o].desiredBrightness = displays[o].desiredBrightness
               /\ AtEnds(tracked'[o]) \/ tracked'[o] = tracked[o],
           Managed(config) # {} =>
               \/ lastBrightness' = tracked'[First(Managed(config))].value
               \/ /\ lastBrightness' = lastBrightness
                  /\ tracked'[First(Managed(config))].value = tracked[First(Managed(config))].value
    PROVE  CoreInv'
<1>1. /\ setConfigTimer' = (setConfigTimer \/ wanted)
      /\ setConfigOutOfDate' = (setConfigOutOfDate \/ (wanted /\ setConfigOp))
  BY DEF scheduleSetConfig
<1>2. setConfigTimer \in BOOLEAN /\ setConfigOutOfDate \in BOOLEAN /\ setConfigOp \in BOOLEAN
  BY DEF CoreInv, CoreTypeOK
<1>3. Managed(config)' = Managed(config)
  BY DEF Managed
<1>4. CoreTypeOK'
  <2>1. /\ kwin \in Configurations /\ config \in Configurations
        /\ request = <<>> \/ request \in Configurations
        /\ updates \in Seq(Configurations) /\ finished \in BOOLEAN
        /\ overlapped \in BOOLEAN /\ DOMAIN displayChildren = Managed(config)
        /\ dimmingRatio \in 0 .. 1
    BY DEF CoreInv, CoreTypeOK
  <2> QED BY <1>1, <1>2, <1>3, <2>1 DEF CoreTypeOK
<1>5. OpInv'
  <2>1. setConfigOutOfDate' => setConfigOp
    BY <1>1, <1>2 DEF CoreInv, OpInv
  <2> QED BY <1>3, <2>1 DEF CoreInv, OpInv
<1>6. NewsInv' /\ OpAlone' /\ DimInv' /\ UndimInv'
  BY <1>1, <1>2, ScheduledKeeps
<1>7. ValueInv'
  <2>1. ASSUME ~overlapped, NEW o \in Managed(config)
        PROVE  /\ tracked'[o].value = displays'[o].desiredBrightness
               /\ ~Busy' => displays'[o].desiredBrightness = config[o].brightness
               /\ AtEnds(tracked'[o])
    <3>1. /\ tracked[o].value = displays[o].desiredBrightness
          /\ ~Busy => displays[o].desiredBrightness = config[o].brightness
          /\ AtEnds(tracked[o])
      BY <2>1 DEF CoreInv, ValueInv, AtEnds
    <3>2. ~Busy' => ~Busy /\ ~wanted
      BY <1>1, <1>2 DEF Busy
    <3> QED BY <2>1, <3>1, <3>2
  <2>2. ASSUME ~overlapped, Managed(config) # {}
        PROVE  lastBrightness' = tracked'[First(Managed(config))].value
    <3>1. lastBrightness = tracked[First(Managed(config))].value
      BY <2>2 DEF CoreInv, ValueInv
    <3> QED BY <2>2, <3>1
  <2> QED BY <1>3, <2>1, <2>2 DEF ValueInv, AtEnds
<1> QED BY <1>4, <1>5, <1>6, <1>7 DEF CoreInv

\* The displays of D are asked for the brightness v.
LEMMA WantingKeeps ==
    ASSUME CoreInv, NEW D \in SUBSET Managed(config), NEW v \in [D -> Values],
           tracked' = With([o \in News(v) |-> [value |-> v[o], trackingError |-> 0]]),
           legacyChanged([o \in News(v) |-> [value |-> v[o], trackingError |-> 0]]),
           setDisplays(v),
           UNCHANGED <<kwin, request, finished, updates, config, setConfigOp, dimmingRatio, overlapped,
                       displayChildren>>,
           configuredBrightness' \in Values \union {NoValue}
    PROVE  CoreInv'
<1>1. /\ displays \in [Managed(config) -> Displays] /\ tracked \in [Managed(config) -> Tracked]
      /\ DOMAIN v = D /\ DOMAIN displays = Managed(config) /\ DOMAIN tracked = Managed(config)
  BY DEF CoreInv, CoreTypeOK
<1>2. News(v) = {o \in D : v[o] # tracked[o].value}
  BY <1>1 DEF News
<1> DEFINE changed == [o \in News(v) |-> [value |-> v[o], trackingError |-> 0]]
<1>3. /\ DOMAIN changed = News(v)
      /\ \A o \in News(v) : changed[o] = [value |-> v[o], trackingError |-> 0]
  OBVIOUS
<1>4. tracked' = [o \in Managed(config) |-> IF o \in News(v) THEN [value |-> v[o], trackingError |-> 0]
                                            ELSE tracked[o]]
  BY <1>1, <1>3 DEF With
<1>5. displays' = [o \in Managed(config) |->
                     IF o \in D THEN [displays[o] EXCEPT !.desiredBrightness = v[o]] ELSE displays[o]]
  BY <1>1 DEF setDisplays
<1>6. scheduleSetConfig(v # <<>>)
  BY DEF setDisplays
<1>7. v # <<>> \/ D = {}
  <2>1. DOMAIN <<>> = {}
    OBVIOUS
  <2> QED BY <1>1, <2>1
<1>8. ASSUME NEW o \in Managed(config)
      PROVE  /\ tracked'[o] \in Tracked
             /\ o \in D => tracked'[o].value = v[o]
             /\ o \notin D => tracked'[o] = tracked[o]
             /\ AtEnds(tracked'[o]) \/ tracked'[o] = tracked[o]
  <2>1. CASE o \in News(v)
    BY <1>2, <1>4, <1>8, <2>1, ScreenAssumption DEF Tracked, AtEnds
  <2>2. CASE o \notin News(v)
    BY <1>1, <1>2, <1>4, <1>8, <2>2
  <2> QED BY <2>1, <2>2
<1>9. ASSUME NEW o \in Managed(config)
      PROVE  /\ displays'[o] \in Displays
             /\ displays'[o].label = displays[o].label
             /\ displays'[o].desiredDimming = displays[o].desiredDimming
             /\ displays'[o].inhibitChangeSignal = displays[o].inhibitChangeSignal
             /\ o \in D => displays'[o].desiredBrightness = v[o]
             /\ o \notin D => displays'[o] = displays[o]
  <2>1. displays[o] \in Displays /\ (o \in D => v[o] \in Values)
    BY <1>1
  <2> QED BY <1>5, <1>9, <2>1 DEF Displays
<1>10. tracked' \in [Managed(config) -> Tracked] /\ displays' \in [Managed(config) -> Displays]
  BY <1>4, <1>5, <1>8, <1>9
<1>11. ASSUME Managed(config) # {}
       PROVE  \/ lastBrightness' = tracked'[First(Managed(config))].value
              \/ /\ lastBrightness' = lastBrightness
                 /\ tracked'[First(Managed(config))].value = tracked[First(Managed(config))].value
  <2>1. PICK f \in Managed(config) : f = First(Managed(config))
    BY <1>11, FirstIsIn DEF Managed
  <2>2. lastBrightness' = IF f \in News(v) THEN changed[f].value ELSE lastBrightness
    BY <1>1, <1>3, <1>11, <2>1 DEF legacyChanged
  <2>3. CASE f \in News(v)
    BY <1>2, <1>3, <1>8, <2>1, <2>2, <2>3
  <2>4. CASE f \notin News(v)
    BY <1>4, <2>1, <2>2, <2>4
  <2> QED BY <2>1, <2>3, <2>4
<1>12. PICK wanted \in BOOLEAN : wanted = (v # <<>>)
  OBVIOUS
<1>13. scheduleSetConfig(wanted)
  BY <1>6, <1>12
<1> QED BY <1>7, <1>8, <1>9, <1>10, <1>11, <1>12, <1>13, SettingKeeps

\* A brightness is kept within the range.
LEMMA Bounded ==
    ASSUME NEW x \in Int
    PROVE  /\ Bound(0, x, MaxBrightness) \in Values
           /\ x > Bound(0, x, MaxBrightness) => Bound(0, x, MaxBrightness) = MaxBrightness
           /\ x < Bound(0, x, MaxBrightness) => Bound(0, x, MaxBrightness) = 0
BY KWinAssumption DEF Bound, Values

\* setBrightness, by whoever asks for it.
LEMMA SetBrightnessKeeps ==
    ASSUME CoreInv, NEW wanted, DOMAIN wanted \subseteq Managed(config),
           \A o \in DOMAIN wanted : wanted[o] \in Int,
           setBrightness(wanted, ""),
           UNCHANGED <<kwin, request, finished, updates, config, setConfigOp, dimmingRatio, overlapped,
                       displayChildren>>,
           configuredBrightness' \in Values \union {NoValue}
    PROVE  CoreInv'
<1> DEFINE v == [o \in DOMAIN wanted |-> Bound(0, wanted[o], MaxBrightness)]
<1>1. v \in [DOMAIN wanted -> Values]
  BY Bounded
<1>2. /\ tracked' = With([o \in News(v) |-> [value |-> v[o], trackingError |-> 0]])
      /\ legacyChanged([o \in News(v) |-> [value |-> v[o], trackingError |-> 0]])
      /\ setDisplays(v)
  BY DEF setBrightness, Track
<1> HIDE DEF v
<1> QED BY <1>1, <1>2, WantingKeeps

LEMMA SetAllBrightnessKeeps ==
    ASSUME CoreInv, NEW value \in Values, SetAllBrightness(value)
    PROVE  CoreInv'
<1>1. DOMAIN tracked = Managed(config) /\ configuredBrightness \in Values \union {NoValue}
  BY DEF CoreInv, CoreTypeOK
<1>2. value \in Int
  BY KWinAssumption DEF Values
<1>3. UNCHANGED <<kwin, request, finished, updates, config, setConfigOp, dimmingRatio, overlapped,
                  displayChildren, configuredBrightness>>
  BY DEF SetAllBrightness, others, outside
<1> DEFINE wanted == [o \in DOMAIN tracked |-> value]
<1>4. setBrightness(wanted, "")
  BY DEF SetAllBrightness
<1>5. DOMAIN wanted \subseteq Managed(config) /\ \A o \in DOMAIN wanted : wanted[o] \in Int
  BY <1>1, <1>2
<1> HIDE DEF wanted
<1> QED BY <1>1, <1>3, <1>4, <1>5, SetBrightnessKeeps

LEMMA ProfileLoadKeeps ==
    ASSUME CoreInv, NEW value \in Values \union {NoValue}, NEW conservative \in BOOLEAN,
           onProfileLoad(value, conservative)
    PROVE  CoreInv'
<1>1. DOMAIN tracked = Managed(config)
  BY DEF CoreInv, CoreTypeOK
<1>2. value \in Int
  BY KWinAssumption DEF Values, NoValue
<1>3. /\ UNCHANGED <<kwin, request, finished, updates, config, setConfigOp, dimmingRatio, overlapped,
                     displayChildren>>
      /\ configuredBrightness' = value
  BY DEF onProfileLoad, outside
<1> DEFINE D == {o \in DOMAIN tracked \cap Internal :
                   /\ value # NoValue
                   /\ ~(conservative /\ tracked[o].value < value)}
           wanted == [o \in D |-> value]
<1>4. setBrightness(wanted, "")
  BY DEF onProfileLoad
<1>5. DOMAIN wanted \subseteq Managed(config) /\ \A o \in DOMAIN wanted : wanted[o] \in Int
  BY <1>1, <1>2
<1> HIDE DEF wanted
<1> QED BY <1>3, <1>4, <1>5, SetBrightnessKeeps

LEMMA ServeSetBrightnessKeeps ==
    ASSUME CoreInv, CallsInv, ServeSetBrightness
    PROVE  CoreInv'
<1> DEFINE call == calls[1]
           D == DisplayOf(call.name)
           v == [o \in D |-> Bound(0, call.value, MaxBrightness)]
<1>1. call.value \in Values
  <2>1. PICK S : calls \in Seq(S) /\ \A c \in S : c.what = "set" => c.value \in Values
    BY DEF CallsInv
  <2>2. calls # <<>> /\ calls[1].what = "set"
    BY DEF ServeSetBrightness
  <2>3. calls[1] \in S
    BY <2>1, <2>2
  <2> QED BY <2>1, <2>2, <2>3
<1>2. v \in [D -> Values]
  <2>1. call.value \in Int
    BY <1>1, KWinAssumption DEF Values
  <2> QED BY <2>1, Bounded
<1>3. D \in SUBSET Managed(config)
  BY DEF DisplayOf, CoreInv, CoreTypeOK
<1>4. /\ tracked' = With([o \in News(v) |-> [value |-> v[o], trackingError |-> 0]])
      /\ legacyChanged([o \in News(v) |-> [value |-> v[o], trackingError |-> 0]])
      /\ setDisplays(v)
      /\ UNCHANGED <<kwin, request, finished, updates, config, setConfigOp, dimmingRatio, overlapped,
                     displayChildren, configuredBrightness>>
  BY DEF ServeSetBrightness, outside
<1>5. configuredBrightness' \in Values \union {NoValue}
  BY <1>4 DEF CoreInv, CoreTypeOK
<1> HIDE DEF v, D
<1> QED BY <1>2, <1>3, <1>4, <1>5, WantingKeeps

-----------------------------------------------------------------------------
(* All displays are adjusted.                                              *)

\* Dividing leaves a rest that is less than the divisor.
LEMMA Divided ==
    ASSUME NEW p \in Int, NEW d \in Nat \ {0}, NEW q \in Int, q = p \div d
    PROVE  d * q <= p /\ p < d * q + d
<1>1. d * q <= p
  OBVIOUS
<1>2. p < d * q + d
  OBVIOUS
<1> QED BY <1>1, <1>2

\* A ratio in the range is rounded to a value in it, by half a level at most.
LEMMA RoundedRatio ==
    ASSUME NEW m \in Nat, NEW g \in Nat \ {0}, NEW r \in Int, 0 <= r, r <= m * g,
           NEW v, v = Rounded(r, g)
    PROVE  /\ v \in 0 .. m
           /\ 2 * (r - v * g) <= g
           /\ 2 * (r - v * g) >= -g
           /\ r = m * g => v = m
           /\ r = 0 => v = 0
<1>1. v \in Int /\ (2 * g) * v <= 2 * r + g /\ 2 * r + g < (2 * g) * v + 2 * g
  <2>1. 2 * r + g \in Int /\ 2 * g \in Nat \ {0}
    OBVIOUS
  <2>2. (2 * r + g) \div (2 * g) \in Int
    BY <2>1
  <2>3. v = (2 * r + g) \div (2 * g)
    BY DEF Rounded
  <2> QED BY <2>1, <2>2, <2>3, Divided
<1>2. PICK w \in Int : w = v * g
  BY <1>1
<1>3. (2 * g) * v = 2 * w
  BY <1>1, <1>2
<1>4. 2 * w <= 2 * r + g /\ 2 * r < 2 * w + g
  BY <1>1, <1>3
<1>5. v >= 0
  <2>1. CASE v < 0
    <3>1. (0 - 1 - v) * g >= 0
      BY <1>1, <2>1
    <3>2. w <= 0 - g
      BY <1>1, <1>2, <3>1
    <3> QED BY <1>4, <1>2, <3>2
  <2> QED BY <1>1, <2>1
<1>6. v <= m
  <2>1. CASE v > m
    <3>1. (v - m - 1) * g >= 0
      BY <1>1, <2>1
    <3>2. PICK x \in Int : x = m * g
      OBVIOUS
    <3>3. w >= x + g
      BY <1>1, <1>2, <3>1, <3>2
    <3> QED BY <1>4, <3>2, <3>3
  <2> QED BY <1>1, <2>1
<1>7. r = m * g => v = m
  <2>1. CASE r = m * g /\ v < m
    <3>1. (m - v - 1) * g >= 0
      BY <1>1, <2>1
    <3>2. r - w >= g
      BY <1>1, <1>2, <2>1, <3>1
    <3> QED BY <1>4, <1>2, <3>2
  <2> QED BY <1>1, <1>6, <2>1
<1>8. r = 0 => v = 0
  <2>1. CASE r = 0 /\ v > 0
    <3>1. (v - 1) * g >= 0
      BY <1>1, <2>1
    <3>2. w >= g
      BY <1>1, <1>2, <3>1
    <3>3. 2 * w <= g
      BY <1>4, <2>1
    <3> QED BY <3>2, <3>3
  <2> QED BY <1>1, <1>5, <2>1
<1> QED BY <1>1, <1>2, <1>4, <1>5, <1>6, <1>7, <1>8

\* What the bounds and the rounding take away from a ratio, to be kept as the error.
LEMMA FromRatio ==
    ASSUME NEW ratio \in Int, NEW v, v = valueFromRatio(ratio)
    PROVE  /\ v \in Values
           /\ ratio - valueAsRatio(v) \in Int
           /\ 2 * (ratio - valueAsRatio(v)) > Grain => v = MaxBrightness
           /\ 2 * (ratio - valueAsRatio(v)) < -Grain => v = 0
<1>1. PICK m \in Nat, g \in Nat \ {0} : m = MaxBrightness /\ g = Grain
  BY KWinAssumption, ScreenAssumption
<1>2. PICK x \in Int : x = m * g /\ 0 <= x
  OBVIOUS
<1> DEFINE b == Bound(0, ratio, x)
<1>3. b \in Int /\ 0 <= b /\ b <= x /\ (ratio > b => b = x) /\ (ratio < b => b = 0)
  BY <1>2 DEF Bound
<1>4. v = Rounded(b, g)
  BY <1>1, <1>2 DEF valueFromRatio
<1> HIDE DEF b
<1>5. /\ v \in 0 .. m
      /\ 2 * (b - v * g) <= g
      /\ 2 * (b - v * g) >= -g
      /\ b = m * g => v = m
      /\ b = 0 => v = 0
  <2>1. b <= m * g
    BY <1>2, <1>3
  <2> QED BY <1>3, <1>4, <2>1, RoundedRatio
<1>6. PICK y \in Int : y = v * g /\ y = valueAsRatio(v)
  BY <1>1, <1>5 DEF valueAsRatio
<1>7. /\ v \in 0 .. m /\ 2 * (b - y) <= g /\ 2 * (b - y) >= -g
      /\ (b = x => v = m) /\ (b = 0 => v = 0)
  <2>1. v * g = y
    BY <1>6
  <2> QED BY <1>2, <1>3, <1>5, <2>1, Zenon
<1>8. (2 * (ratio - y) > g => v = m) /\ (2 * (ratio - y) < -g => v = 0)
  BY <1>3, <1>7
<1> QED BY <1>1, <1>5, <1>6, <1>7, <1>8 DEF Values

LEMMA AdjustingKeeps ==
    ASSUME CoreInv, NEW delta \in Int, adjustBrightnessRatio(delta), UNCHANGED <<others, dimmingRatio>>
    PROVE  CoreInv'
<1> DEFINE target == [o \in DOMAIN tracked |->
                        valueAsRatio(tracked[o].value) + delta + tracked[o].trackingError]
           bounded == [o \in DOMAIN tracked |-> valueFromRatio(target[o])]
           news == [o \in News(bounded) |-> tracked'[o]]
<1>1. /\ displays \in [Managed(config) -> Displays] /\ tracked \in [Managed(config) -> Tracked]
      /\ DOMAIN displays = Managed(config) /\ DOMAIN tracked = Managed(config)
      /\ configuredBrightness \in Values \union {NoValue}
  BY SMTT(30) DEF CoreInv, CoreTypeOK
<1>2. /\ tracked' = [o \in DOMAIN tracked |->
                       [value |-> bounded[o], trackingError |-> target[o] - valueAsRatio(bounded[o])]]
      /\ legacyChanged(news) /\ setDisplays(bounded)
  BY DEF adjustBrightnessRatio
<1>3. ASSUME NEW o \in Managed(config)
      PROVE  /\ bounded[o] \in Values
             /\ target[o] - valueAsRatio(bounded[o]) \in Int
             /\ 2 * (target[o] - valueAsRatio(bounded[o])) > Grain => bounded[o] = MaxBrightness
             /\ 2 * (target[o] - valueAsRatio(bounded[o])) < -Grain => bounded[o] = 0
  <2>1. tracked[o].value \in Int /\ tracked[o].trackingError \in Int
    BY <1>1, KWinAssumption DEF Tracked, Values
  <2>2. valueAsRatio(tracked[o].value) \in Int
    BY <2>1, ScreenAssumption DEF valueAsRatio
  <2>3. target[o] \in Int
    BY <1>1, <2>1, <2>2
  <2>4. bounded[o] = valueFromRatio(target[o])
    BY <1>1
  <2> HIDE DEF target, bounded
  <2> QED BY <2>3, <2>4, FromRatio
<1>4. DOMAIN bounded = Managed(config)
  BY <1>1
<1>5. /\ DOMAIN news = News(bounded)
      /\ \A o \in News(bounded) : news[o] = tracked'[o]
  OBVIOUS
<1>6. News(bounded) = {o \in Managed(config) : bounded[o] # tracked[o].value}
  BY <1>4 DEF News
<1> HIDE DEF target, bounded, news
<1>7. ASSUME NEW o \in Managed(config)
      PROVE  /\ tracked'[o] \in Tracked /\ tracked'[o].value = bounded[o] /\ AtEnds(tracked'[o])
  <2>1. tracked'[o] = [value |-> bounded[o], trackingError |-> target[o] - valueAsRatio(bounded[o])]
    BY <1>1, <1>2
  <2> QED BY <1>3, <2>1 DEF Tracked, AtEnds
<1>8. displays' = [o \in Managed(config) |-> [displays[o] EXCEPT !.desiredBrightness = bounded[o]]]
  BY <1>1, <1>2, <1>4 DEF setDisplays
<1>9. ASSUME NEW o \in Managed(config)
      PROVE  /\ displays'[o] \in Displays
             /\ displays'[o].label = displays[o].label
             /\ displays'[o].desiredDimming = displays[o].desiredDimming
             /\ displays'[o].inhibitChangeSignal = displays[o].inhibitChangeSignal
             /\ displays'[o].desiredBrightness = bounded[o]
  <2>1. displays[o] \in Displays /\ bounded[o] \in Values
    BY <1>1, <1>3
  <2> QED BY <1>8, <1>9, <2>1 DEF Displays
<1>10. tracked' \in [Managed(config) -> Tracked] /\ displays' \in [Managed(config) -> Displays]
  BY <1>1, <1>2, <1>7, <1>8, <1>9
<1>11. ASSUME Managed(config) # {}
       PROVE  \/ lastBrightness' = tracked'[First(Managed(config))].value
              \/ /\ lastBrightness' = lastBrightness
                 /\ tracked'[First(Managed(config))].value = tracked[First(Managed(config))].value
  <2>1. PICK f \in Managed(config) : f = First(Managed(config))
    BY <1>11, FirstIsIn DEF Managed
  <2>2. lastBrightness' = IF f \in News(bounded) THEN news[f].value ELSE lastBrightness
    BY <1>1, <1>2, <1>5, <1>11, <2>1 DEF legacyChanged
  <2> QED BY <1>5, <1>6, <1>7, <2>1, <2>2
<1>12. PICK wanted \in BOOLEAN : wanted = (bounded # <<>>)
  OBVIOUS
<1>13. scheduleSetConfig(wanted)
  BY <1>2, <1>12 DEF setDisplays
<1>14. \A o \in Managed(config) : wanted
  <2>1. DOMAIN <<>> = {}
    OBVIOUS
  <2> QED BY <1>4, <1>12, <2>1
<1>15. UNCHANGED <<kwin, request, finished, updates, config, setConfigOp, dimmingRatio, overlapped,
                   displayChildren, configuredBrightness>>
  BY DEF others, outside
<1> QED BY <1>1, <1>7, <1>9, <1>10, <1>11, <1>13, <1>14, <1>15, SettingKeeps

LEMMA AdjustBrightnessRatioKeeps ==
    ASSUME CoreInv, NEW delta \in Int, AdjustBrightnessRatio(delta)
    PROVE  CoreInv'
BY AdjustingKeeps DEF AdjustBrightnessRatio

\* The preferred steps: there is one at least.
LEMMA SomeSteps ==
    ASSUME NEW max \in Nat \ {0}
    PROVE  ScreenSteps(max) \in Nat \ {0}
<1> DEFINE even == {k \in 9 .. 14 : Divides(k, max)}
<1>1. even # {} => (CHOOSE k \in even : \A j \in even : k <= j) \in even
  <2>1. even \in SUBSET Nat
    OBVIOUS
  <2> HIDE DEF even
  <2> QED BY <2>1, LeastNumber
<1>2. even \in SUBSET (Nat \ {0})
  OBVIOUS
<1>3. (IF even = {} THEN 10 ELSE CHOOSE k \in even : \A j \in even : k <= j) \in Nat \ {0}
  <2> DEFINE least == CHOOSE k \in even : \A j \in even : k <= j
  <2>1. even = {} \/ least \in Nat \ {0}
    BY <1>1, <1>2
  <2> HIDE DEF even, least
  <2>2. (IF even = {} THEN 10 ELSE least) \in Nat \ {0}
    BY <2>1
  <2> QED BY <2>2 DEF least
<1>4. CASE max <= 20
  BY <1>4 DEF ScreenSteps
<1>5. CASE ~(max <= 20) /\ (max >= 34 \/ max \in {28, 32})
  BY <1>5 DEF ScreenSteps
<1>6. CASE ~(max <= 20) /\ ~(max >= 34 \/ max \in {28, 32}) /\ Divides(5, max)
  BY <1>6 DEF ScreenSteps
<1>7. CASE ~(max <= 20) /\ ~(max >= 34 \/ max \in {28, 32}) /\ ~Divides(5, max)
  BY <1>3, <1>7 DEF ScreenSteps
<1> QED BY <1>4, <1>5, <1>6, <1>7

\* A press of a key goes to a value.
LEMMA SteppedIsInt ==
    ASSUME NEW adjustment \in {"Increase", "Decrease"}, NEW value \in Int
    PROVE  adjusted(adjustment, value, 0, MaxBrightness, ScreenSteps(MaxBrightness)) \in Int
<1>1. PICK max \in Nat \ {0} : max = MaxBrightness
  BY KWinAssumption
<1>2. PICK steps \in Nat \ {0} : steps = ScreenSteps(max)
  BY SomeSteps
<1>3. \A step \in Int : stepToValue(step, 0, max, steps) \in Int
  <2>1. ASSUME NEW step \in Int PROVE stepToValue(step, 0, max, steps) \in Int
    <3>1. step * max \in Int /\ 2 * steps \in Nat \ {0}
      OBVIOUS
    <3>2. 2 * (step * max) + steps \in Int
      BY <3>1
    <3>3. Rounded(step * max, steps) \in Int
      BY <3>1, <3>2 DEF Rounded
    <3> QED BY <3>3, <1>1, Bounded, KWinAssumption DEF stepToValue, Values
  <2> QED BY <2>1
<1>4. increased(value, 0, max, steps) \in Int
  <2> DEFINE step == steps - ((max - value - 1) * steps) \div max
             visible == Percent(stepToValue(step, 0, max, steps), max) > Percent(value, max)
  <2>1. step \in Int
    <3>1. (max - value - 1) * steps \in Int
      OBVIOUS
    <3>2. \A x \in Int : x \div max \in Int
      OBVIOUS
    <3>3. ((max - value - 1) * steps) \div max \in Int
      BY <3>1, <3>2
    <3> QED BY <3>3
  <2>2. step + 1 \in Int
    BY <2>1
  <2>3. increased(value, 0, max, steps) =
          IF value = max THEN max
          ELSE stepToValue(IF max > 100 /\ ~visible THEN step + 1 ELSE step, 0, max, steps)
    BY DEF increased
  <2> HIDE DEF step, visible
  <2> QED BY <1>3, <2>1, <2>2, <2>3
<1>5. decreased(value, 0, max, steps) \in Int
  <2> DEFINE step == ((value - 1) * steps) \div max
             visible == Percent(stepToValue(step, 0, max, steps), max) < Percent(value, max)
  <2>1. step \in Int
    <3>1. (value - 1) * steps \in Int
      OBVIOUS
    <3>2. \A x \in Int : x \div max \in Int
      OBVIOUS
    <3> QED BY <3>1, <3>2
  <2>2. step - 1 \in Int
    BY <2>1
  <2>3. decreased(value, 0, max, steps) =
          IF value = 0 THEN 0
          ELSE stepToValue(IF max > 100 /\ ~visible THEN step - 1 ELSE step, 0, max, steps)
    BY DEF decreased
  <2> HIDE DEF step, visible
  <2> QED BY <1>3, <2>1, <2>2, <2>3
<1> QED BY <1>1, <1>2, <1>4, <1>5 DEF adjusted

LEMMA AdjustBrightnessStepKeeps ==
    ASSUME CoreInv, NEW adjustment \in {"Increase", "Decrease"}, adjustBrightnessStep(adjustment)
    PROVE  CoreInv'
<1> DEFINE stepped(o) == adjusted(adjustment, tracked[o].value, 0, MaxBrightness, ScreenSteps(MaxBrightness))
           moving == {o \in DOMAIN tracked : stepped(o) # tracked[o].value}
<1>1. /\ moving # {}
      /\ adjustBrightnessRatio(valueAsRatio(stepped(First(moving)))
                                - valueAsRatio(tracked[First(moving)].value))
      /\ UNCHANGED <<others, dimmingRatio>>
  BY DEF adjustBrightnessStep
<1>2. DOMAIN tracked = Managed(config) /\ tracked \in [Managed(config) -> Tracked]
  BY DEF CoreInv, CoreTypeOK
<1>3. moving \subseteq Managed(config) /\ moving \subseteq Outputs
  BY <1>2 DEF Managed
<1>4. PICK f \in Managed(config) : f = First(moving)
  <2> HIDE DEF moving
  <2> QED BY <1>1, <1>3, FirstIsIn
<1>5. tracked[f].value \in Int
  BY <1>2, KWinAssumption DEF Tracked, Values
<1>6. stepped(f) \in Int
  BY <1>5, SteppedIsInt
<1>7. valueAsRatio(stepped(First(moving))) - valueAsRatio(tracked[First(moving)].value) \in Int
  <2> HIDE DEF stepped, moving
  <2> QED BY <1>4, <1>5, <1>6, ScreenAssumption DEF valueAsRatio
<1> HIDE DEF stepped, moving
<1> QED BY <1>1, <1>7, AdjustingKeeps

LEMMA SetDimmingRatioKeeps ==
    ASSUME CoreInv, NEW ratio \in 0 .. 1, setDimmingRatio(ratio)
    PROVE  CoreInv'
<1> DEFINE wanted == \E o \in DOMAIN tracked : displays[o].desiredDimming # ratio
<1>1. /\ UNCHANGED kwin /\ UNCHANGED request /\ UNCHANGED finished /\ UNCHANGED updates
      /\ UNCHANGED config /\ UNCHANGED setConfigOp /\ UNCHANGED tracked
      /\ UNCHANGED configuredBrightness /\ UNCHANGED lastBrightness /\ UNCHANGED displayChildren
      /\ UNCHANGED overlapped
      /\ dimmingRatio' = ratio /\ dimmingRatio # ratio
      /\ setConfigTimer' = (setConfigTimer \/ wanted)
      /\ setConfigOutOfDate' = (setConfigOutOfDate \/ (wanted /\ setConfigOp))
  BY DEF setDimmingRatio, setDimmingMultiplier, scheduleSetConfig, others, outside
<1>2. /\ displays \in [Managed(config) -> Displays] /\ DOMAIN tracked = Managed(config)
      /\ DOMAIN displays = Managed(config)
      /\ setConfigTimer \in BOOLEAN /\ setConfigOp \in BOOLEAN /\ setConfigOutOfDate \in BOOLEAN
      /\ updates \in Seq(Configurations)
  BY DEF CoreInv, CoreTypeOK
<1>3. wanted <=> Managed(config) # {}
  BY <1>1, <1>2 DEF CoreInv, OpInv
<1>4. wanted \in BOOLEAN
  OBVIOUS
<1> HIDE DEF wanted
<1>5. Managed(config)' = Managed(config)
  BY <1>1 DEF Managed
<1>6. ASSUME NEW o \in Managed(config)
      PROVE  /\ displays'[o] \in Displays
             /\ displays'[o].label = displays[o].label
             /\ displays'[o].desiredDimming = ratio
             /\ displays'[o].inhibitChangeSignal = displays[o].inhibitChangeSignal
             /\ displays'[o].desiredBrightness = displays[o].desiredBrightness
  <2>1. displays'[o] = [displays[o] EXCEPT !.desiredDimming = ratio]
    BY <1>2, <1>6 DEF setDimmingRatio, setDimmingMultiplier
  <2>2. displays[o] \in Displays
    BY <1>2, <1>6
  <2> QED BY <2>1, <2>2 DEF Displays
<1>7. displays' \in [Managed(config) -> Displays]
  <2>1. displays' = [o \in Managed(config) |-> displays'[o]]
    BY <1>2 DEF setDimmingRatio, setDimmingMultiplier
  <2> QED BY <1>6, <2>1
<1>8. CoreTypeOK'
  <2>1. setConfigTimer' \in BOOLEAN /\ setConfigOutOfDate' \in BOOLEAN
    BY <1>1, <1>2, <1>4
  <2> QED BY <1>1, <1>5, <1>7, <2>1 DEF CoreInv, CoreTypeOK
<1>9. OpInv'
  <2>1. setConfigOutOfDate' => setConfigOp
    BY <1>1, <1>2 DEF CoreInv, OpInv
  <2> QED BY <1>1, <1>5, <1>6, <2>1 DEF CoreInv, OpInv
<1>10. /\ setConfigTimer => setConfigTimer'
       /\ setConfigOutOfDate => setConfigOutOfDate'
       /\ Will => Will'
       /\ wanted => Will' /\ (setConfigOp => setConfigOutOfDate')
  BY <1>1, <1>2, <1>4 DEF Will
<1>11. NewsInv'
  BY <1>1, <1>10 DEF CoreInv, NewsInv, Differ
<1>12. ValueInv'
  <2>1. Busy => Busy'
    BY <1>1, <1>10 DEF Busy
  <2> QED BY <1>1, <1>5, <1>6, <2>1 DEF CoreInv, ValueInv
<1>13. OpAlone'
  <2>1. ASSUME NEW o \in Outputs, config[o].status = "capable", setConfigOp PROVE setConfigOutOfDate'
    BY <1>3, <1>10, <2>1 DEF Managed
  <2> QED BY <1>1, <2>1 DEF CoreInv, OpAlone, Stale, Differ
<1>14. \A i : At(i)' = At(i)
  BY <1>1 DEF At
<1>15. \A o : (Anew(o)' <=> Anew(o)) /\ (Steady(o)' <=> Steady(o))
  BY <1>1, <1>14, Zenon DEF Same, Anew, Steady
<1>16. ASSUME NEW o \in Outputs, kwin[o].status = "capable" PROVE request # <<>> \/ Will' \/ Anew(o)
  <2>1. CASE wanted
    BY <1>10, <2>1
  <2>2. CASE ~wanted /\ request = <<>>
    <3>1. config[o].status # "capable"
      BY <1>3, <2>2 DEF Managed
    <3>2. updates # <<>>
      BY <1>16, <2>2, <3>1 DEF CoreInv, NewsInv, Differ
    <3>3. 0 \in 0 .. Len(updates) - 1
      BY <1>2, <3>2
    <3>4. ~Same(At(0), kwin, o)
      BY <1>16, <3>1 DEF Same, At
    <3> QED BY <3>3, <3>4 DEF Anew
  <2> QED BY <2>1, <2>2
<1>17. DimInv'
  BY <1>1, <1>15, <1>16 DEF CoreInv, DimInv
<1>18. UndimInv'
  BY <1>1, <1>10, <1>14 DEF CoreInv, UndimInv
<1> QED BY <1>8, <1>9, <1>11, <1>12, <1>13, <1>17, <1>18 DEF CoreInv

-----------------------------------------------------------------------------
(* The operation is done.                                                  *)

LEMMA DoneKeeps ==
    ASSUME CoreInv, SetConfigDone
    PROVE  CoreInv'
<1>1. /\ finished /\ finished' = FALSE
      /\ UNCHANGED <<kwin, updates, setConfigTimer, displayChildren, dimmingRatio,
                     configuredBrightness, overlapped>>
  BY DEF SetConfigDone, untouched
<1>2. setConfigOp /\ request = <<>>
  BY <1>1 DEF CoreInv, CoreTypeOK, OpInv
<1>3. /\ displays \in [Managed(config) -> Displays] /\ tracked \in [Managed(config) -> Tracked]
      /\ DOMAIN displays = Managed(config) /\ DOMAIN tracked = Managed(config)
      /\ config \in Configurations
      /\ setConfigTimer \in BOOLEAN /\ overlapped \in BOOLEAN
  BY DEF CoreInv, CoreTypeOK
<1>4. CASE setConfigOutOfDate
  <2>1. setConfig /\ UNCHANGED <<tracked, bus, lastBrightness>>
    BY <1>4 DEF SetConfigDone
  <2>2. ~overlapped' => ~overlapped /\ \A i \in 1 .. Len(updates) : ~Stale(updates[i])
    BY <1>1, <1>2 DEF CoreInv, OpAlone
  <2> QED BY <1>1, <1>2, <1>3, <2>1, <2>2, SendingKeeps
<1>5. CASE ~setConfigOutOfDate
  <2> DEFINE S == setConfigOperationDone
             changed == Observed(S, config)
  <2>1. /\ setConfigOp' = FALSE
        /\ displays' = Listens(Hears(displays, S, config), S)
        /\ tracked' = With(changed) /\ legacyChanged(changed)
        /\ UNCHANGED config /\ UNCHANGED request /\ UNCHANGED setConfigOutOfDate
        /\ UNCHANGED kwin /\ UNCHANGED updates /\ UNCHANGED setConfigTimer /\ UNCHANGED dimmingRatio
        /\ UNCHANGED configuredBrightness /\ UNCHANGED displayChildren /\ UNCHANGED overlapped
    BY <1>1, <1>5 DEF SetConfigDone, Track
  <2>2. S = {o \in Managed(config) : displays[o].desiredBrightness # config[o].brightness}
    BY <1>3 DEF setConfigOperationDone
  <2>3. /\ DOMAIN changed = {o \in S : config[o].brightness # tracked[o].value}
        /\ \A o \in DOMAIN changed : changed[o] = [value |-> config[o].brightness, trackingError |-> 0]
    BY DEF Observed, News
  <2>4. displays' = [o \in Managed(config) |->
                       [(IF o \in S THEN [displays[o] EXCEPT !.desiredBrightness = config[o].brightness]
                         ELSE displays[o]) EXCEPT !.inhibitChangeSignal = FALSE]]
    BY <1>3, <2>1 DEF Listens, Hears
  <2>5. tracked' = [o \in Managed(config) |-> IF o \in DOMAIN changed THEN changed[o] ELSE tracked[o]]
    BY <1>3, <2>1 DEF With
  <2> HIDE DEF S, changed
  <2>6. ASSUME NEW o \in Managed(config)
        PROVE  /\ displays'[o] \in Displays
               /\ displays'[o].label = displays[o].label
               /\ displays'[o].desiredDimming = displays[o].desiredDimming
               /\ ~displays'[o].inhibitChangeSignal
               /\ displays'[o].desiredBrightness = config[o].brightness
    <3>1. displays[o] \in Displays /\ config[o].brightness \in Values
      BY <1>3 DEF Managed, Configurations, OutputStates
    <3> QED BY <2>2, <2>4, <2>6, <3>1 DEF Displays
  <2>7. ASSUME NEW o \in Managed(config)
        PROVE  /\ tracked'[o] \in Tracked
               /\ AtEnds(tracked'[o]) \/ tracked'[o] = tracked[o]
               /\ tracked[o].value = displays[o].desiredBrightness => tracked'[o].value = config[o].brightness
    <3>1. tracked[o] \in Tracked /\ config[o].brightness \in Values
      BY <1>3 DEF Managed, Configurations, OutputStates
    <3>2. CASE o \in DOMAIN changed
      BY <2>3, <2>5, <2>7, <3>1, <3>2, ScreenAssumption DEF Tracked, AtEnds
    <3>3. CASE o \notin DOMAIN changed
      <4>1. tracked'[o] = tracked[o]
        BY <2>5, <2>7, <3>3
      <4> QED BY <2>2, <2>3, <2>7, <3>1, <3>3, <4>1
    <3> QED BY <3>2, <3>3
  <2>8. displays' \in [Managed(config) -> Displays] /\ tracked' \in [Managed(config) -> Tracked]
    BY <2>4, <2>5, <2>6, <2>7
  <2>9. Managed(config)' = Managed(config)
    BY <2>1 DEF Managed
  <2>10. CoreTypeOK'
    BY <1>1, <2>1, <2>8, <2>9 DEF CoreInv, CoreTypeOK
  <2>11. OpInv'
    BY <1>1, <1>2, <1>5, <2>1, <2>6, <2>9 DEF CoreInv, OpInv, CoreTypeOK
  <2>12. ~Will
    BY <1>2, <1>5 DEF Will
  <2>13. NewsInv'
    BY <2>1, <2>12 DEF CoreInv, NewsInv, Differ
  <2>14. ValueInv'
    <3>1. ASSUME ~overlapped, NEW o \in Managed(config)
          PROVE  /\ tracked'[o].value = displays'[o].desiredBrightness
                 /\ displays'[o].desiredBrightness = config[o].brightness
                 /\ AtEnds(tracked'[o])
      <4>1. tracked[o].value = displays[o].desiredBrightness /\ AtEnds(tracked[o])
        BY <3>1 DEF CoreInv, ValueInv, AtEnds
      <4> QED BY <2>6, <2>7, <3>1, <4>1
    <3>2. ASSUME ~overlapped, Managed(config) # {}
          PROVE  lastBrightness' = tracked'[First(Managed(config))].value
      <4>1. PICK f \in Managed(config) : f = First(Managed(config))
        BY <3>2, FirstIsIn DEF Managed
      <4>2. lastBrightness' = IF f \in DOMAIN changed THEN changed[f].value ELSE lastBrightness
        BY <1>3, <2>1, <3>2, <4>1 DEF legacyChanged
      <4>3. lastBrightness = tracked[f].value
        BY <3>2, <4>1 DEF CoreInv, ValueInv
      <4> QED BY <2>5, <4>1, <4>2, <4>3
    <3> QED BY <2>1, <2>9, <3>1, <3>2 DEF ValueInv, AtEnds
  <2>15. OpAlone'
    BY <2>1 DEF OpAlone
  <2>16. \A i : At(i)' = At(i)
    BY <2>1 DEF At
  <2>17. \A o : (Anew(o)' <=> Anew(o)) /\ (Steady(o)' <=> Steady(o))
    BY <2>1, <2>16, Zenon DEF Same, Anew, Steady
  <2>18. DimInv'
    BY <2>1, <2>12, <2>17 DEF CoreInv, DimInv
  <2>19. UndimInv'
    BY <1>2, <2>1, <2>16 DEF CoreInv, UndimInv
  <2> QED BY <2>10, <2>11, <2>13, <2>14, <2>15, <2>18, <2>19 DEF CoreInv
<1> QED BY <1>4, <1>5 DEF CoreInv, CoreTypeOK

-----------------------------------------------------------------------------
(* An announcement is read.                                                *)

LEMMA Read ==
    ASSUME CoreTypeOK, NEW outputs, updates # <<>>, outputs = updates[1], updates' = Tail(updates),
           config' = checkedOutputs(outputs),
           NEW n, n = Len(updates)
    PROVE  /\ n \in Nat \ {0} /\ outputs \in Configurations
           /\ updates' \in Seq(Configurations) /\ Len(updates') = n - 1
           /\ updates' = <<>> <=> n = 1
           /\ \A i \in 1 .. n - 1 : updates'[i] = updates[i + 1] /\ At(i)' = At(i + 1)
           /\ At(0)' = config' /\ At(1) = outputs
           /\ config' \in Configurations
           /\ \A o \in Outputs :
                /\ config'[o].status = outputs[o].status /\ config'[o].label = outputs[o].label
                /\ config'[o].brightness = outputs[o].brightness
                /\ config'[o].dimming = IF o \in Undimmed(outputs) THEN 1 ELSE outputs[o].dimming
           /\ Managed(config') = Managed(outputs)
           /\ Undimmed(outputs) = {o \in Managed(config) : Dimmed(outputs[o])}
<1>1. updates \in Seq(Configurations) /\ config \in Configurations
      /\ DOMAIN displays = Managed(config)
  BY DEF CoreTypeOK
<1>2. /\ n \in Nat \ {0} /\ outputs \in Configurations
      /\ updates' \in Seq(Configurations) /\ Len(updates') = n - 1
      /\ \A i \in 1 .. n - 1 : updates'[i] = updates[i + 1]
  BY <1>1
<1>3. updates' = <<>> <=> n = 1
  BY <1>2
<1>4. \A i \in 1 .. n - 1 : At(i)' = At(i + 1)
  BY <1>2 DEF At
<1>5. At(0)' = config' /\ At(1) = outputs
  BY DEF At
<1>6. ASSUME NEW o \in Outputs
      PROVE  /\ config'[o] \in OutputStates
             /\ config'[o].status = outputs[o].status /\ config'[o].label = outputs[o].label
             /\ config'[o].brightness = outputs[o].brightness
             /\ config'[o].dimming = IF o \in Undimmed(outputs) THEN 1 ELSE outputs[o].dimming
  <2>1. outputs[o] \in OutputStates
    BY <1>2 DEF Configurations
  <2>2. config'[o] = IF o \in Undimmed(outputs) THEN [outputs[o] EXCEPT !.dimming = 1] ELSE outputs[o]
    BY DEF checkedOutputs
  <2> QED BY <2>1, <2>2 DEF OutputStates
<1>7. config' \in Configurations
  <2>1. config' = [o \in Outputs |-> config'[o]]
    BY DEF checkedOutputs
  <2> QED BY <1>6, <2>1 DEF Configurations
<1>8. Managed(config') = Managed(outputs)
  BY <1>6 DEF Managed
<1>9. Undimmed(outputs) = {o \in Managed(config) : Dimmed(outputs[o])}
  <2>1. ASSUME NEW o \in Managed(config) PROVE outputs[o].dimming # 1 <=> outputs[o].dimming = 0
    BY <1>2, <2>1 DEF Managed, Configurations, OutputStates
  <2> QED BY <1>1, <2>1 DEF Undimmed, Dimmed
<1> QED BY <1>2, <1>3, <1>4, <1>5, <1>6, <1>7, <1>8, <1>9

\* What reading means for all but the values: `wanted` is what the daemon makes of it.
LEMMA ReadingKeeps ==
    ASSUME CoreInv, NEW wanted \in BOOLEAN, scheduleSetConfig(wanted), NEW outputs,
           updates # <<>>, outputs = updates[1], updates' = Tail(updates), config' = checkedOutputs(outputs),
           overlapped' = (overlapped \/ (Busy /\ Stale(outputs))),
           UNCHANGED <<kwin, request, setConfigOp, dimmingRatio>>,
           Undimmed(outputs) # {} => wanted,
           \A o \in Outputs : outputs[o].status = "capable" /\ ~Same(config, outputs, o)
                                => wanted \/ outputs[o].dimming = dimmingRatio
    PROVE  NewsInv' /\ OpAlone' /\ DimInv' /\ UndimInv'
<1> DEFINE n == Len(updates)
<1>1. /\ n \in Nat \ {0} /\ outputs \in Configurations
      /\ updates' \in Seq(Configurations) /\ Len(updates') = n - 1
      /\ updates' = <<>> <=> n = 1
      /\ \A i \in 1 .. n - 1 : updates'[i] = updates[i + 1] /\ At(i)' = At(i + 1)
      /\ At(0)' = config' /\ At(1) = outputs
      /\ \A o \in Outputs :
           /\ config'[o].status = outputs[o].status /\ config'[o].label = outputs[o].label
           /\ config'[o].brightness = outputs[o].brightness
           /\ config'[o].dimming = IF o \in Undimmed(outputs) THEN 1 ELSE outputs[o].dimming
      /\ Undimmed(outputs) = {o \in Managed(config) : Dimmed(outputs[o])}
  <2>1. CoreTypeOK
    BY DEF CoreInv
  <2>2. PICK m : m = Len(updates)
    OBVIOUS
  <2>3. n = m
    BY <2>2
  <2> HIDE DEF n
  <2> QED BY <2>1, <2>2, <2>3, Read
<1>2. /\ kwin \in Configurations /\ config \in Configurations
      /\ setConfigTimer \in BOOLEAN /\ setConfigOp \in BOOLEAN /\ setConfigOutOfDate \in BOOLEAN
      /\ overlapped \in BOOLEAN /\ updates[n] = kwin /\ At(n) = kwin
  <2>1. updates[n] = kwin
    BY DEF CoreInv, NewsInv
  <2> QED BY <1>1, <2>1 DEF CoreInv, CoreTypeOK, At
<1>3. /\ setConfigTimer' = (setConfigTimer \/ wanted)
      /\ setConfigOutOfDate' = (setConfigOutOfDate \/ (wanted /\ setConfigOp))
  BY DEF scheduleSetConfig
<1>4. wanted \/ Will => Will'
  BY <1>2, <1>3 DEF Will
<1> HIDE DEF n
<1>5. ASSUME ~overlapped', Busy
      PROVE  ~overlapped /\ ~Stale(outputs) /\ Undimmed(outputs) = {}
  <2>1. Busy \in BOOLEAN /\ Stale(outputs) \in BOOLEAN
    BY <1>2 DEF Busy, Stale
  <2>2. ~overlapped /\ ~Stale(outputs)
    BY <1>2, <1>5, <2>1
  <2>3. ASSUME NEW o \in Managed(config) PROVE ~Dimmed(outputs[o])
    BY <2>2 DEF Managed, Stale, Differ, Dimmed
  <2> QED BY <1>1, <2>2, <2>3
<1>6. ~overlapped' => ~overlapped
  BY <1>2
<1>7. NewsInv'
  <2>1. updates' # <<>> => updates'[Len(updates')] = kwin
    <3>1. n # 1 => n - 1 \in 1 .. n - 1 /\ (n - 1) + 1 = n
      BY <1>1
    <3> QED BY <1>1, <1>2, <3>1
  <2>2. ASSUME n = 1, NEW o \in Outputs
        PROVE  /\ config'[o].status = kwin[o].status /\ config'[o].label = kwin[o].label
               /\ config'[o].brightness = kwin[o].brightness
               /\ config'[o].dimming = kwin[o].dimming \/ Will'
    BY <1>1, <1>2, <1>4, <2>2
  <2> QED BY <1>1, <2>1, <2>2 DEF CoreInv, NewsInv, Differ
<1>8. OpAlone'
  <2> SUFFICES ASSUME ~overlapped', setConfigOp PROVE OpAlone'
    BY DEF OpAlone
  <2>1. ~overlapped /\ ~Stale(outputs) /\ Undimmed(outputs) = {}
    BY <1>5 DEF Busy
  <2>2. \A o \in Outputs :
          /\ config'[o].status = config[o].status /\ config'[o].label = config[o].label
          /\ config[o].status = "incapable" => config'[o].dimming = config[o].dimming
    BY <1>1, <2>1 DEF Stale, Differ
  <2>3. ASSUME NEW i \in 1 .. n - 1 PROVE ~Stale(updates[i])'
    <3>1. i + 1 \in 1 .. Len(updates) /\ updates'[i] = updates[i + 1]
      BY <1>1 DEF n
    <3>2. ~Stale(updates[i + 1])
      BY <2>1, <3>1 DEF CoreInv, OpAlone
    <3>3. ASSUME NEW o \in Outputs
          PROVE  /\ updates[i + 1][o].status = config'[o].status
                 /\ updates[i + 1][o].label = config'[o].label
                 /\ updates[i + 1][o].status = "incapable" => updates[i + 1][o].dimming = config'[o].dimming
      BY <2>2, <3>2 DEF Stale, Differ
    <3>4. ~(\E o \in Outputs : \/ updates'[i][o].status # config'[o].status
                               \/ updates'[i][o].label # config'[o].label)
      BY <3>1, <3>3
    <3>5. ~(\E o \in Outputs : /\ updates'[i][o].status = "incapable"
                               /\ updates'[i][o].dimming # config'[o].dimming)
      BY <3>1, <3>3
    <3> QED BY <3>4, <3>5 DEF Stale, Differ
  <2>4. ~Differ(kwin', config')
    BY <2>1, <2>2 DEF CoreInv, OpAlone, Differ
  <2>5. ASSUME request' # <<>>, NEW o \in Outputs
        PROVE  /\ config'[o].status = "incapable" => request'[o].dimming = config'[o].dimming
               /\ config'[o].status = "capable" /\ ~setConfigOutOfDate' => request'[o].dimming = dimmingRatio'
    BY <1>2, <1>3, <2>1, <2>2, <2>5 DEF CoreInv, OpAlone
  <2>6. \A i \in 1 .. Len(updates') : ~Stale(updates[i])'
    BY <1>1, <2>3 DEF Stale, Differ
  <2> QED BY <2>4, <2>5, <2>6 DEF OpAlone
<1>9. \A o \in Outputs : \A i \in 0 .. n - 1 : Same(At(i)', kwin, o) <=> Same(At(i + 1), kwin, o)
  <2>1. ASSUME NEW o \in Outputs, NEW i \in 0 .. n - 1
        PROVE  Same(At(i)', kwin, o) <=> Same(At(i + 1), kwin, o)
    <3>1. CASE i = 0
      BY <1>1, <3>1 DEF Same
    <3>2. CASE i # 0
      BY <1>1, <2>1, <3>2 DEF Same
    <3> QED BY <3>1, <3>2
  <2> QED BY <2>1
<1>10. ASSUME ~overlapped', NEW o \in Outputs, kwin[o].status = "capable" PROVE Steady(o)'
  <2>1. Steady(o)
    BY <1>6, <1>10 DEF CoreInv, DimInv
  <2>2. ASSUME NEW i \in 0 .. (n - 1) - 1, ~Same(At(i)', kwin, o),
               \A j \in i + 1 .. n - 1 : Same(At(j)', kwin, o),
               NEW j \in i + 1 .. n - 1
        PROVE  At(j)'[o].dimming = kwin[o].dimming
    <3>1. i + 1 \in 0 .. n - 1 /\ j + 1 \in (i + 1) + 1 .. n /\ j \in 1 .. n - 1 /\ i \in 0 .. n - 1
      BY <1>1, <2>2
    <3>2. ~Same(At(i + 1), kwin, o)
      BY <1>9, <2>2, <3>1
    <3>3. ASSUME NEW m \in (i + 1) + 1 .. n PROVE Same(At(m), kwin, o)
      <4>1. m - 1 \in i + 1 .. n - 1 /\ m - 1 \in 0 .. n - 1 /\ (m - 1) + 1 = m
        BY <1>1, <3>1
      <4> QED BY <1>9, <2>2, <4>1
    <3>4. At(j + 1)[o].dimming = kwin[o].dimming
      BY <2>1, <3>1, <3>2, <3>3 DEF Steady, n
    <3> QED BY <1>1, <3>1, <3>4
  <2>3. UNCHANGED kwin
    OBVIOUS
  <2>4. ASSUME NEW i \in 0 .. Len(updates') - 1, ~Same(At(i)', kwin', o),
               \A j \in i + 1 .. Len(updates') : Same(At(j)', kwin', o),
               NEW j \in i + 1 .. Len(updates')
        PROVE  At(j)'[o].dimming = kwin'[o].dimming
    <3>1. Len(updates') = n - 1
      BY <1>1
    <3>2. i \in 0 .. (n - 1) - 1 /\ j \in i + 1 .. n - 1
      BY <2>4, <3>1
    <3>3. ~Same(At(i)', kwin, o) /\ \A m \in i + 1 .. n - 1 : Same(At(m)', kwin, o)
      BY <2>3, <2>4, <3>1, Zenon
    <3> QED BY <2>2, <2>3, <3>2, <3>3
  <2> QED BY <2>4 DEF Steady, Same
<1>11. ASSUME ~overlapped', NEW o \in Outputs, kwin[o].status = "capable", Anew(o)
       PROVE  kwin[o].dimming = dimmingRatio \/ wanted \/ Anew(o)'
  <2>1. PICK j \in 0 .. n - 1 : ~Same(At(j), kwin, o)
    BY <1>11 DEF Anew, n
  <2>2. ASSUME NEW i \in 1 .. n - 1, ~Same(At(i), kwin, o) PROVE Anew(o)'
    <3>1. i - 1 \in 0 .. (n - 1) - 1 /\ i - 1 \in 0 .. n - 1 /\ (i - 1) + 1 = i
      BY <1>1
    <3>2. ~Same(At(i - 1)', kwin, o)
      BY <1>9, <2>2, <3>1
    <3> QED BY <1>1, <3>1, <3>2 DEF Anew, Same
  <2>3. CASE \A i \in 1 .. n - 1 : Same(At(i), kwin, o)
    <3>1. j = 0
      BY <1>1, <2>1, <2>3
    <3>2. \A i \in 0 + 1 .. n : Same(At(i), kwin, o)
      BY <1>1, <1>2, <2>3 DEF Same
    <3>3. 0 \in 0 .. n - 1 /\ 1 \in 0 + 1 .. n
      BY <1>1
    <3>4. Steady(o)
      BY <1>6, <1>11 DEF CoreInv, DimInv
    <3>5. At(1)[o].dimming = kwin[o].dimming /\ Same(At(1), kwin, o)
      BY <2>1, <3>1, <3>2, <3>3, <3>4 DEF Steady, n
    <3>6. At(0) = config
      BY DEF At
    <3>7. outputs[o].status = "capable" /\ ~Same(config, outputs, o)
      BY <1>1, <1>11, <2>1, <3>1, <3>5, <3>6 DEF Same
    <3> QED BY <1>1, <3>5, <3>7
  <2> QED BY <2>2, <2>3
<1>12. DimInv'
  <2>1. ASSUME ~overlapped', NEW o \in Outputs, kwin[o].status = "capable"
        PROVE  kwin[o].dimming = dimmingRatio \/ request # <<>> \/ Will' \/ Anew(o)'
    BY <1>4, <1>6, <1>11, <2>1 DEF CoreInv, DimInv
  <2> QED BY <1>10, <2>1 DEF DimInv
<1>13. ASSUME ~overlapped', NEW o \in Outputs PROVE ~Dimmed(config'[o])
  <2> SUFFICES ASSUME Dimmed(config'[o]) PROVE FALSE
    OBVIOUS
  <2>1. Dimmed(outputs[o]) /\ o \notin Managed(config)
    BY <1>1 DEF Dimmed
  <2>2. 1 \in 1 .. Len(updates) /\ Dimmed(updates[1][o])
    BY <1>1, <2>1 DEF n
  <2>3. \/ setConfigTimer /\ ~setConfigOp /\ config[o].status = "incapable"
        \/ \E j \in 0 .. 1 - 1 : At(j)[o].status = "capable"
    BY <1>6, <1>13, <2>2 DEF CoreInv, UndimInv
  <2>4. At(0)[o].status # "capable"
    BY <2>1 DEF At, Managed
  <2>5. setConfigTimer /\ config[o].status = "incapable"
    BY <2>3, <2>4
  <2>6. ~Stale(outputs) /\ ~Dimmed(config[o])
    BY <1>5, <1>13, <2>5 DEF Busy, CoreInv, UndimInv
  <2> QED BY <2>1, <2>5, <2>6 DEF Stale, Dimmed
<1>14. ASSUME ~overlapped', NEW o \in Outputs, o \in Undimmed(outputs)
       PROVE  setConfigTimer' /\ ~setConfigOp' /\ config'[o].status = "incapable"
  <2>1. ~Busy
    BY <1>5, <1>14
  <2> QED BY <1>1, <1>2, <1>3, <1>14, <2>1 DEF Busy, Dimmed
<1>15. ASSUME ~overlapped', NEW o \in Outputs, Dimmed(kwin[o])
       PROVE  updates' # <<>> \/ request' # <<>> \/ (setConfigTimer' /\ ~setConfigOp')
  <2>1. CASE n = 1
    <3>1. Dimmed(outputs[o]) /\ ~Dimmed(config'[o])
      BY <1>2, <1>13, <1>15, <2>1
    <3>2. o \in Undimmed(outputs)
      BY <1>1, <3>1 DEF Dimmed
    <3> QED BY <1>14, <1>15, <3>2
  <2> QED BY <1>1, <2>1
<1>16. ASSUME ~overlapped', NEW o \in Outputs, NEW i \in 1 .. n - 1, Dimmed(updates'[i][o])
       PROVE  \/ setConfigTimer' /\ ~setConfigOp' /\ config'[o].status = "incapable"
              \/ \E j \in 0 .. i - 1 : /\ At(j)'[o].status = "capable"
                                       /\ \A m \in j + 1 .. i : Dimmed(At(m)'[o])
  <2>1. i + 1 \in 1 .. Len(updates) /\ Dimmed(updates[i + 1][o])
    BY <1>1, <1>16 DEF n
  <2>2. \/ setConfigTimer /\ ~setConfigOp /\ config[o].status = "incapable"
        \/ \E j \in 0 .. (i + 1) - 1 : /\ At(j)[o].status = "capable"
                                       /\ \A m \in j + 1 .. i + 1 : Dimmed(At(m)[o])
    BY <1>6, <1>16, <2>1 DEF CoreInv, UndimInv
  <2>3. CASE setConfigTimer /\ ~setConfigOp /\ config[o].status = "incapable"
    <3>1. ~Stale(outputs)
      BY <1>5, <1>16, <2>3 DEF Busy
    <3>2. outputs[o].status = config[o].status
      BY <3>1 DEF Stale, Differ
    <3> QED BY <1>1, <1>2, <1>3, <2>3, <3>2
  <2>4. CASE \E j \in 0 .. (i + 1) - 1 : /\ At(j)[o].status = "capable"
                                         /\ \A m \in j + 1 .. i + 1 : Dimmed(At(m)[o])
    <3>1. PICK j \in 0 .. (i + 1) - 1 : /\ At(j)[o].status = "capable"
                                        /\ \A m \in j + 1 .. i + 1 : Dimmed(At(m)[o])
      BY <2>4
    <3>2. CASE j = 0
      <4>1. 1 \in j + 1 .. i + 1
        BY <1>1, <3>2
      <4>2. Dimmed(outputs[o])
        BY <1>1, <3>1, <4>1
      <4>3. config[o].status = "capable"
        BY <3>1, <3>2 DEF At
      <4>4. o \in Undimmed(outputs)
        BY <1>1, <4>2, <4>3 DEF Managed
      <4> QED BY <1>14, <1>16, <4>4
    <3>3. CASE j # 0
      <4>1. PICK k \in 0 .. i - 1 : j = k + 1
        <5>1. j - 1 \in 0 .. i - 1 /\ j = (j - 1) + 1
          BY <1>1, <3>3, SMTT(30)
        <5> QED BY <5>1
      <4>2. At(k)'[o].status = "capable"
        <5>1. CASE k = 0
          BY <1>1, <3>1, <4>1, <5>1
        <5>2. CASE k # 0
          <6>1. k \in 1 .. n - 1
            BY <1>1, <4>1, <5>2
          <6> QED BY <1>1, <3>1, <4>1, <6>1
        <5> QED BY <5>1, <5>2
      <4>3. ASSUME NEW m \in k + 1 .. i PROVE Dimmed(At(m)'[o])
        <5>1. m \in 1 .. n - 1 /\ m + 1 \in j + 1 .. i + 1
          BY <1>1, <4>1, <4>3
        <5> QED BY <1>1, <3>1, <5>1
      <4> QED BY <4>2, <4>3
    <3> QED BY <3>2, <3>3
  <2> QED BY <2>2, <2>3, <2>4
<1>17. UndimInv'
  BY <1>1, <1>13, <1>15, <1>16 DEF UndimInv
<1> QED BY <1>7, <1>8, <1>12, <1>17

LEMMA SameDisplaysKeeps ==
    ASSUME CoreInv, NEW outputs, updates # <<>>, outputs = updates[1], updates' = Tail(updates),
           config' = checkedOutputs(outputs),
           overlapped' = (overlapped \/ (Busy /\ Stale(outputs))),
           UNCHANGED <<kwin, request, finished, setConfigOp, untouched>>,
           Managed(outputs) = DOMAIN displays, Recreated(outputs) = {}, SameDisplays(outputs)
    PROVE  CoreInv'
<1> DEFINE S == handleBrightnessChanged(outputs)
           changed == Observed(S, outputs)
<1>1. /\ outputs \in Configurations /\ updates' \in Seq(Configurations)
      /\ config' \in Configurations
      /\ \A o \in Outputs :
           /\ config'[o].status = outputs[o].status /\ config'[o].label = outputs[o].label
           /\ config'[o].brightness = outputs[o].brightness
      /\ Managed(config') = Managed(outputs)
      /\ Undimmed(outputs) = {o \in Managed(config) : Dimmed(outputs[o])}
  <2>1. CoreTypeOK
    BY DEF CoreInv
  <2>2. PICK m : m = Len(updates)
    OBVIOUS
  <2> QED BY <2>1, <2>2, Read
<1>2. /\ displays \in [Managed(config) -> Displays] /\ tracked \in [Managed(config) -> Tracked]
      /\ DOMAIN displays = Managed(config) /\ DOMAIN tracked = Managed(config)
      /\ setConfigTimer \in BOOLEAN /\ setConfigOp \in BOOLEAN /\ setConfigOutOfDate \in BOOLEAN
      /\ overlapped \in BOOLEAN
  BY DEF CoreInv, CoreTypeOK
<1>3. /\ UNCHANGED kwin /\ UNCHANGED request /\ UNCHANGED finished /\ UNCHANGED setConfigOp
      /\ UNCHANGED dimmingRatio /\ UNCHANGED configuredBrightness /\ UNCHANGED displayChildren
      /\ displays' = Hears(displays, S, outputs)
      /\ tracked' = With(changed) /\ legacyChanged(changed)
      /\ scheduleSetConfig(FALSE)
  BY DEF SameDisplays, Track, untouched
<1>4. /\ setConfigTimer' = setConfigTimer /\ setConfigOutOfDate' = setConfigOutOfDate
  BY <1>2, <1>3 DEF scheduleSetConfig
<1>5. Managed(config)' = Managed(config) /\ Managed(outputs) = Managed(config)
  BY <1>1, <1>2
<1>6. S = {o \in Managed(config) : /\ ~displays[o].inhibitChangeSignal
                                   /\ config[o].brightness # outputs[o].brightness}
  <2>1. \A o \in Managed(config) : config[o].status = "capable" /\ outputs[o].status = "capable"
    BY <1>5 DEF Managed
  <2> QED BY <1>2, <2>1 DEF handleBrightnessChanged
<1>7. /\ DOMAIN changed = {o \in S : outputs[o].brightness # tracked[o].value}
      /\ \A o \in DOMAIN changed : changed[o] = [value |-> outputs[o].brightness, trackingError |-> 0]
  BY DEF Observed, News
<1>8. displays' = [o \in Managed(config) |->
                     IF o \in S THEN [displays[o] EXCEPT !.desiredBrightness = outputs[o].brightness]
                     ELSE displays[o]]
  BY <1>2, <1>3 DEF Hears
<1>9. tracked' = [o \in Managed(config) |-> IF o \in DOMAIN changed THEN changed[o] ELSE tracked[o]]
  BY <1>2, <1>3 DEF With
<1> HIDE DEF S, changed
<1>10. ASSUME NEW o \in Managed(config)
       PROVE  /\ outputs[o].brightness \in Values /\ o \in Outputs
              /\ outputs[o].label = config'[o].label /\ displays[o].label = outputs[o].label
  <2>1. o \in Outputs
    BY <1>10 DEF Managed
  <2>2. displays[o].label = outputs[o].label
    BY <1>2, <1>5, <1>10 DEF Recreated
  <2> QED BY <1>1, <2>1, <2>2 DEF Configurations, OutputStates
<1>11. ASSUME NEW o \in Managed(config)
       PROVE  /\ displays'[o] \in Displays
              /\ displays'[o].label = displays[o].label
              /\ displays'[o].desiredDimming = displays[o].desiredDimming
              /\ displays'[o].inhibitChangeSignal = displays[o].inhibitChangeSignal
              /\ o \in S => displays'[o].desiredBrightness = outputs[o].brightness
              /\ o \notin S => displays'[o] = displays[o]
  <2>1. displays[o] \in Displays
    BY <1>2, <1>11
  <2> QED BY <1>8, <1>10, <1>11, <2>1 DEF Displays
<1>12. ASSUME NEW o \in Managed(config)
       PROVE  /\ tracked'[o] \in Tracked
              /\ AtEnds(tracked'[o]) \/ tracked'[o] = tracked[o]
              /\ o \in S => tracked'[o].value = outputs[o].brightness
              /\ o \notin S => tracked'[o] = tracked[o]
  <2>1. tracked[o] \in Tracked
    BY <1>2, <1>12
  <2>2. CASE o \in DOMAIN changed
    BY <1>7, <1>9, <1>10, <1>12, <2>2, ScreenAssumption DEF Tracked, AtEnds
  <2>3. CASE o \notin DOMAIN changed
    <3>1. tracked'[o] = tracked[o]
      BY <1>9, <1>12, <2>3
    <3> QED BY <1>7, <2>1, <2>3, <3>1
  <2> QED BY <2>2, <2>3
<1>13. displays' \in [Managed(config) -> Displays] /\ tracked' \in [Managed(config) -> Tracked]
  BY <1>8, <1>9, <1>11, <1>12
<1>14. CoreTypeOK'
  <2>1. overlapped' \in BOOLEAN
    BY <1>2 DEF Busy, Stale
  <2> QED BY <1>1, <1>2, <1>3, <1>4, <1>5, <1>13, <2>1 DEF CoreInv, CoreTypeOK
<1>15. OpInv'
  <2>1. \A o \in Managed(config) : displays'[o].label = config'[o].label
    BY <1>10, <1>11
  <2> QED BY <1>3, <1>4, <1>5, <1>11, <2>1 DEF CoreInv, OpInv
<1>16. NewsInv' /\ OpAlone' /\ DimInv' /\ UndimInv'
  <2>1. Undimmed(outputs) = {}
    BY <1>1, <1>5 DEF Managed, Dimmed
  <2>2. ASSUME NEW o \in Outputs, outputs[o].status = "capable" PROVE Same(config, outputs, o)
    <3>1. o \in Managed(config)
      BY <1>5, <2>2 DEF Managed
    <3>2. config[o].status = "capable" /\ displays[o].label = config[o].label
      BY <3>1 DEF Managed, CoreInv, OpInv
    <3> QED BY <1>10, <2>2, <3>1, <3>2 DEF Same
  <2> QED BY <1>3, <2>1, <2>2, ReadingKeeps
<1>17. ValueInv'
  <2> SUFFICES ASSUME ~overlapped' PROVE ValueInv'
    BY DEF ValueInv
  <2>1. ~overlapped
    BY <1>2
  <2>2. ASSUME NEW o \in Managed(config)
        PROVE  /\ tracked'[o].value = displays'[o].desiredBrightness
               /\ ~Busy' => displays'[o].desiredBrightness = outputs[o].brightness
               /\ AtEnds(tracked'[o])
    <3>1. /\ tracked[o].value = displays[o].desiredBrightness
          /\ ~Busy => displays[o].desiredBrightness = config[o].brightness
          /\ AtEnds(tracked[o])
      BY <2>1, <2>2 DEF CoreInv, ValueInv, AtEnds
    <3>2. ~Busy' => ~Busy /\ ~displays[o].inhibitChangeSignal
      BY <1>3, <1>4, <2>2 DEF Busy, CoreInv, OpInv
    <3>3. CASE o \in S
      BY <1>11, <1>12, <2>2, <3>1, <3>3
    <3>4. CASE o \notin S
      <4>1. displays'[o] = displays[o] /\ tracked'[o] = tracked[o]
        BY <1>11, <1>12, <2>2, <3>4
      <4> QED BY <1>6, <2>2, <3>1, <3>2, <3>4, <4>1
    <3> QED BY <3>3, <3>4
  <2>3. ASSUME Managed(config) # {}
        PROVE  lastBrightness' = tracked'[First(Managed(config))].value
    <3>1. PICK f \in Managed(config) : f = First(Managed(config))
      BY <2>3, FirstIsIn DEF Managed
    <3>2. lastBrightness' = IF f \in DOMAIN changed THEN changed[f].value ELSE lastBrightness
      BY <1>2, <1>3, <2>3, <3>1 DEF legacyChanged
    <3>3. lastBrightness = tracked[f].value
      BY <2>1, <2>3, <3>1 DEF CoreInv, ValueInv
    <3> QED BY <1>9, <3>1, <3>2, <3>3
  <2> QED BY <1>1, <1>5, <1>10, <2>2, <2>3 DEF ValueInv, AtEnds
<1> QED BY <1>14, <1>15, <1>16, <1>17 DEF CoreInv

LEMMA DisplaysChangedKeeps ==
    ASSUME CoreInv, NEW outputs, updates # <<>>, outputs = updates[1], updates' = Tail(updates),
           config' = checkedOutputs(outputs),
           overlapped' = (overlapped \/ (Busy /\ Stale(outputs))),
           UNCHANGED <<kwin, request, finished, setConfigOp, untouched>>,
           ~(Managed(outputs) = DOMAIN displays /\ Recreated(outputs) = {}),
           onDetectorDisplaysChanged(outputs)
    PROVE  CoreInv'
<1> DEFINE S == handleBrightnessChanged(outputs)
           changed == Observed(S, outputs)
           before == With(changed)
           now == Managed(outputs)
           added == now \ DOMAIN tracked
           replaced == Recreated(outputs)
           fresh == added \cup replaced
           valueChanged == {o \in replaced : before[o].value # outputs[o].brightness}
           heard == Hears(displays, S, outputs)
           created == [o \in now |-> IF o \in fresh THEN newDisplay(outputs[o]) ELSE heard[o]]
           profile == displayAdded(added)
           shown == [o \in now |->
                       IF o \in DOMAIN profile THEN [value |-> profile[o], trackingError |-> 0]
                       ELSE [value |-> outputs[o].brightness,
                             trackingError |-> IF o \in fresh THEN 0 ELSE before[o].trackingError]]
           dimmed == DimmedAsOthers(created, fresh)
           first == First(now)
           wanted == \/ Undimmed(outputs) # {} \/ profile # <<>>
                     \/ \E o \in fresh : created[o].desiredDimming # dimmingRatio
<1>1. /\ outputs \in Configurations /\ updates' \in Seq(Configurations)
      /\ config' \in Configurations
      /\ \A o \in Outputs :
           /\ config'[o].status = outputs[o].status /\ config'[o].label = outputs[o].label
           /\ config'[o].brightness = outputs[o].brightness
      /\ Managed(config') = now
      /\ Undimmed(outputs) = {o \in Managed(config) : Dimmed(outputs[o])}
  <2>1. CoreTypeOK
    BY DEF CoreInv
  <2>2. PICK m : m = Len(updates)
    BY Zenon
  <2> QED BY <2>1, <2>2, Read
<1>2. /\ displays \in [Managed(config) -> Displays] /\ tracked \in [Managed(config) -> Tracked]
      /\ DOMAIN displays = Managed(config) /\ DOMAIN tracked = Managed(config)
      /\ DOMAIN displayChildren = Managed(config)
      /\ setConfigTimer \in BOOLEAN /\ setConfigOp \in BOOLEAN /\ setConfigOutOfDate \in BOOLEAN
      /\ overlapped \in BOOLEAN /\ dimmingRatio \in 0 .. 1
      /\ configuredBrightness \in Values \union {NoValue}
  BY DEF CoreInv, CoreTypeOK
<1>3. /\ tracked' = shown
      /\ displays' = [o \in now |->
                        IF o \in DOMAIN profile THEN [dimmed[o] EXCEPT !.desiredBrightness = profile[o]]
                        ELSE dimmed[o]]
      /\ displayChildren' = insertDisplayChildren([o \in now \ added |-> displayChildren[o]], added)
  BY ZenonT(60) DEF onDetectorDisplaysChanged
<1>4. /\ scheduleSetConfig(wanted)
      /\ lastBrightness' = IF now = {} THEN lastBrightness
                           ELSE IF DOMAIN tracked = {} \/ first # First(DOMAIN tracked) \/ first \in valueChanged
                           THEN shown[first].value
                           ELSE IF first \in DOMAIN changed THEN before[first].value ELSE lastBrightness
  BY ZenonT(60) DEF onDetectorDisplaysChanged
<1>5. /\ UNCHANGED kwin /\ UNCHANGED request /\ UNCHANGED finished /\ UNCHANGED setConfigOp
      /\ UNCHANGED dimmingRatio /\ UNCHANGED configuredBrightness
  BY DEF untouched
<1>6. /\ DOMAIN shown = now /\ DOMAIN before = Managed(config) /\ DOMAIN heard = Managed(config)
      /\ DOMAIN created = now /\ DOMAIN dimmed = now
      /\ DOMAIN profile = {o \in added \cap Internal : configuredBrightness # NoValue}
      /\ added = now \ Managed(config)
      /\ replaced = {o \in now \cap Managed(config) : displays[o].label # outputs[o].label}
  BY <1>2 DEF With, Hears, DimmedAsOthers, displayAdded, Recreated
<1>7. \A o \in DOMAIN profile : /\ profile[o] \in Values /\ o \in added
  BY <1>2 DEF displayAdded
<1>8. \A o \in now : o \in Outputs /\ outputs[o].brightness \in Values /\ outputs[o] \in OutputStates
  BY <1>1 DEF Managed, Configurations, OutputStates
<1>9. S = {o \in Managed(config) : /\ ~displays[o].inhibitChangeSignal
                                   /\ outputs[o].status # "gone"
                                   /\ config[o].brightness # outputs[o].brightness}
  <2>1. \A o \in Managed(config) : config[o].status = "capable"
    BY DEF Managed
  <2> QED BY <1>2, <2>1 DEF handleBrightnessChanged
<1>10. /\ DOMAIN changed = {o \in S : outputs[o].brightness # tracked[o].value}
       /\ \A o \in DOMAIN changed : changed[o] = [value |-> outputs[o].brightness, trackingError |-> 0]
  BY DEF Observed, News
<1>11. ASSUME NEW o \in Managed(config)
       PROVE  /\ before[o] = IF o \in DOMAIN changed THEN changed[o] ELSE tracked[o]
              /\ before[o].trackingError \in Int
              /\ heard[o] = IF o \in S THEN [displays[o] EXCEPT !.desiredBrightness = outputs[o].brightness]
                            ELSE displays[o]
  <2>1. before[o] = IF o \in DOMAIN changed THEN changed[o] ELSE tracked[o]
    BY <1>2, <1>11 DEF With
  <2>2. tracked[o].trackingError \in Int
    BY <1>2, <1>11 DEF Tracked
  <2>3. heard[o] = IF o \in S THEN [displays[o] EXCEPT !.desiredBrightness = outputs[o].brightness]
                   ELSE displays[o]
    BY <1>2, <1>11 DEF Hears
  <2> HIDE DEF before, changed, S, heard
  <2>4. before[o].trackingError \in Int
    BY <1>10, <2>1, <2>2
  <2> QED BY <2>1, <2>3, <2>4
<1>12. \A o \in now : shown[o] = IF o \in DOMAIN profile THEN [value |-> profile[o], trackingError |-> 0]
                                 ELSE [value |-> outputs[o].brightness,
                                       trackingError |-> IF o \in fresh THEN 0 ELSE before[o].trackingError]
  OBVIOUS
<1>13. ASSUME NEW o \in now
       PROVE  /\ o \in fresh => dimmed[o] = [newDisplay(outputs[o]) EXCEPT !.desiredDimming = dimmingRatio]
              /\ o \notin fresh => dimmed[o] = heard[o]
              /\ o \in fresh => created[o].desiredDimming = outputs[o].dimming
  <2>1. dimmed[o] = IF o \in fresh THEN [created[o] EXCEPT !.desiredDimming = dimmingRatio] ELSE created[o]
    BY <1>6, <1>13 DEF DimmedAsOthers
  <2>2. created[o] = IF o \in fresh THEN newDisplay(outputs[o]) ELSE heard[o]
    BY <1>13
  <2> HIDE DEF dimmed, created, fresh, heard
  <2> QED BY <2>1, <2>2 DEF newDisplay
<1>14. \A o \in now : o \notin fresh => o \in Managed(config) /\ displays[o].label = outputs[o].label
  BY <1>6
<1>15. wanted \in BOOLEAN /\ (wanted <=> \/ Undimmed(outputs) # {} \/ profile # <<>>
                                         \/ \E o \in fresh : created[o].desiredDimming # dimmingRatio)
  OBVIOUS
<1>16. fresh \subseteq now /\ added \subseteq fresh /\ replaced \subseteq fresh
       /\ (\A o \in replaced : o \in valueChanged <=> before[o].value # outputs[o].brightness)
       /\ valueChanged \subseteq replaced
       /\ fresh = added \cup replaced
  BY <1>6
<1> HIDE DEF S, changed, before, added, replaced, fresh, valueChanged, heard, created, profile, shown, dimmed,
             first, wanted
<1>17. ASSUME NEW o \in now
       PROVE  /\ shown[o] \in Tracked
              /\ shown[o].value = IF o \in DOMAIN profile THEN profile[o] ELSE outputs[o].brightness
              /\ shown[o].trackingError = IF o \in fresh THEN 0 ELSE before[o].trackingError
  <2>1. o \notin fresh => before[o].trackingError \in Int
    BY <1>11, <1>14, <1>17
  <2>2. o \in DOMAIN profile => o \in fresh
    BY <1>7, <1>16
  <2>3. CASE o \in DOMAIN profile
    <3>1. shown[o] = [value |-> profile[o], trackingError |-> 0] /\ profile[o] \in Values
      BY <1>7, <1>12, <1>17, <2>3
    <3> QED BY <2>2, <2>3, <3>1 DEF Tracked
  <2>4. CASE o \notin DOMAIN profile
    <3> DEFINE e == IF o \in fresh THEN 0 ELSE before[o].trackingError
    <3>1. shown[o] = [value |-> outputs[o].brightness, trackingError |-> e]
      BY <1>12, <1>17, <2>4
    <3>2. e \in Int /\ outputs[o].brightness \in Values
      BY <1>8, <1>17, <2>1
    <3>3. e = IF o \in fresh THEN 0 ELSE before[o].trackingError
      OBVIOUS
    <3> HIDE DEF e
    <3> QED BY <2>4, <3>1, <3>2, <3>3 DEF Tracked
  <2> QED BY <2>3, <2>4
<1>18. ASSUME NEW o \in now
       PROVE  /\ dimmed[o] \in Displays
              /\ dimmed[o].label = outputs[o].label
              /\ dimmed[o].desiredDimming = dimmingRatio
              /\ dimmed[o].inhibitChangeSignal => setConfigOp
              /\ o \in fresh => dimmed[o].desiredBrightness = outputs[o].brightness
              /\ o \notin fresh /\ o \in S => dimmed[o].desiredBrightness = outputs[o].brightness
              /\ o \notin fresh /\ o \notin S => dimmed[o] = displays[o]
  <2>1. CASE o \in fresh
    <3>1. outputs[o] \in OutputStates
      BY <1>8, <1>18
    <3>2. PICK d : d = newDisplay(outputs[o])
      OBVIOUS
    <3>3. /\ d \in Displays /\ d.label = outputs[o].label
          /\ d.desiredBrightness = outputs[o].brightness /\ d.inhibitChangeSignal = FALSE
      BY <3>1, <3>2 DEF newDisplay, Displays, OutputStates
    <3>4. dimmed[o] = [d EXCEPT !.desiredDimming = dimmingRatio]
      BY <1>13, <1>18, <2>1, <3>2
    <3> QED BY <1>2, <2>1, <3>3, <3>4 DEF Displays
  <2>2. CASE o \notin fresh
    <3>1. /\ o \in Managed(config) /\ displays[o].label = outputs[o].label /\ dimmed[o] = heard[o]
      BY <1>13, <1>14, <1>18, <2>2
    <3>2. /\ displays[o] \in Displays /\ displays[o].desiredDimming = dimmingRatio
          /\ displays[o].inhibitChangeSignal => setConfigOp
      BY <1>2, <3>1 DEF CoreInv, OpInv
    <3>3. dimmed[o] = IF o \in S THEN [displays[o] EXCEPT !.desiredBrightness = outputs[o].brightness]
                      ELSE displays[o]
      BY <1>11, <3>1
    <3> QED BY <1>8, <1>18, <2>2, <3>1, <3>2, <3>3 DEF Displays
  <2> QED BY <2>1, <2>2
<1>19. ASSUME NEW o \in now
       PROVE  /\ displays'[o] \in Displays
              /\ displays'[o].label = outputs[o].label
              /\ displays'[o].desiredDimming = dimmingRatio
              /\ displays'[o].inhibitChangeSignal => setConfigOp
              /\ o \in DOMAIN profile => displays'[o].desiredBrightness = profile[o]
              /\ o \notin DOMAIN profile => displays'[o] = dimmed[o]
  <2>1. displays'[o] = IF o \in DOMAIN profile THEN [dimmed[o] EXCEPT !.desiredBrightness = profile[o]]
                       ELSE dimmed[o]
    BY <1>3, <1>19
  <2> QED BY <1>7, <1>18, <1>19, <2>1 DEF Displays
<1>20. displays' \in [now -> Displays] /\ tracked' \in [now -> Tracked]
  <2>1. displays' \in [now -> Displays]
    BY <1>3, <1>19
  <2>2. shown \in [now -> Tracked]
    <3>1. shown = [o \in now |-> shown[o]]
      BY DEF shown
    <3> QED BY <1>17, <3>1
  <2> QED BY <1>3, <2>1, <2>2
<1>21. Managed(config)' = now
  BY <1>1
<1>22. /\ setConfigTimer' = (setConfigTimer \/ wanted)
       /\ setConfigOutOfDate' = (setConfigOutOfDate \/ (wanted /\ setConfigOp))
  BY <1>4 DEF scheduleSetConfig
<1>23. DOMAIN displayChildren' = now
  <2>1. added \subseteq now
    BY <1>16
  <2> QED BY <1>3, <2>1 DEF insertDisplayChildren
<1>24. CoreTypeOK'
  <2>1. overlapped' \in BOOLEAN /\ setConfigTimer' \in BOOLEAN /\ setConfigOutOfDate' \in BOOLEAN
    BY <1>2, <1>15, <1>22 DEF Busy, Stale
  <2> QED BY <1>1, <1>5, <1>20, <1>21, <1>23, <2>1 DEF CoreInv, CoreTypeOK
<1>25. OpInv'
  <2>1. setConfigOutOfDate' => setConfigOp
    BY <1>2, <1>22 DEF CoreInv, OpInv
  <2>2. \A o \in now : displays'[o].label = config'[o].label
    BY <1>1, <1>8, <1>19
  <2> QED BY <1>5, <1>19, <1>21, <2>1, <2>2 DEF CoreInv, OpInv
<1>26. NewsInv' /\ OpAlone' /\ DimInv' /\ UndimInv'
  <2>1. Undimmed(outputs) # {} => wanted
    BY <1>15
  <2>2. ASSUME NEW o \in Outputs, outputs[o].status = "capable", ~Same(config, outputs, o)
        PROVE  wanted \/ outputs[o].dimming = dimmingRatio
    <3>1. o \in now
      BY <2>2 DEF Managed
    <3>2. o \in fresh
      <4>1. CASE o \in Managed(config)
        <5>1. displays[o].label = config[o].label /\ config[o].status = "capable"
          BY <4>1 DEF Managed, CoreInv, OpInv
        <5> QED BY <1>14, <2>2, <3>1, <5>1 DEF Same
      <4>2. CASE o \notin Managed(config)
        BY <1>14, <3>1, <4>2
      <4> QED BY <4>1, <4>2
    <3> QED BY <1>13, <1>15, <3>1, <3>2
  <2> QED BY <1>4, <1>5, <1>15, <2>1, <2>2, ReadingKeeps
<1>27. ValueInv'
  <2> SUFFICES ASSUME ~overlapped' PROVE ValueInv'
    BY DEF ValueInv
  <2>1. ~overlapped /\ ~Busy
    <3>1. Differ(outputs, config)
      <4>1. CASE now # Managed(config)
        BY <4>1 DEF Managed, Differ
      <4>2. CASE now = Managed(config)
        <5>1. PICK o \in Managed(config) : displays[o].label # outputs[o].label
          BY <1>2, <4>2 DEF Recreated
        <5>2. displays[o].label = config[o].label /\ o \in Outputs
          BY <5>1 DEF Managed, CoreInv, OpInv
        <5> QED BY <5>1, <5>2 DEF Differ
      <4> QED BY <4>1, <4>2
    <3> QED BY <1>2, <3>1 DEF Stale, Busy
  <2>2. ASSUME NEW o \in Managed(config)
        PROVE  /\ tracked[o].value = config[o].brightness
               /\ displays[o].desiredBrightness = config[o].brightness
               /\ ~displays[o].inhibitChangeSignal /\ AtEnds(tracked[o])
    BY <2>1, <2>2 DEF CoreInv, ValueInv, OpInv, Busy, AtEnds
  <2>3. profile # <<>> => Busy'
    BY <1>15, <1>22 DEF Busy
  <2>4. ASSUME NEW o \in DOMAIN profile PROVE Busy'
    <3>1. DOMAIN <<>> = {}
      OBVIOUS
    <3> QED BY <2>3, <2>4, <3>1
  <2>5. ASSUME NEW o \in now, o \notin fresh
        PROVE  /\ dimmed[o].desiredBrightness = outputs[o].brightness
               /\ AtEnds([value |-> outputs[o].brightness, trackingError |-> before[o].trackingError])
               /\ before[o].value = outputs[o].brightness
               /\ o \notin DOMAIN changed => tracked[o].value = outputs[o].brightness
    <3>1. o \in Managed(config) /\ outputs[o].status = "capable"
      BY <1>14, <2>5 DEF Managed
    <3>2. o \notin S => config[o].brightness = outputs[o].brightness
      BY <1>9, <2>2, <3>1
    <3>3. dimmed[o].desiredBrightness = outputs[o].brightness
      BY <1>18, <2>2, <2>5, <3>1, <3>2
    <3>4. CASE o \in DOMAIN changed
      <4>1. before[o] = [value |-> outputs[o].brightness, trackingError |-> 0]
        BY <1>10, <1>11, <3>1, <3>4
      <4>2. before[o].trackingError = 0 /\ before[o].value = outputs[o].brightness
        BY <4>1
      <4> QED BY <3>3, <3>4, <4>2, ScreenAssumption DEF AtEnds
    <3>5. CASE o \notin DOMAIN changed
      <4>1. before[o] = tracked[o] /\ tracked[o].value = outputs[o].brightness
        BY <1>10, <1>11, <2>2, <3>1, <3>2, <3>5
      <4> QED BY <2>2, <3>1, <3>3, <3>5, <4>1, ScreenAssumption DEF AtEnds
    <3> QED BY <3>4, <3>5
  <2>6. ASSUME NEW o \in now
        PROVE  /\ tracked'[o].value = displays'[o].desiredBrightness
               /\ ~Busy' => displays'[o].desiredBrightness = config'[o].brightness
               /\ AtEnds(tracked'[o])
    <3>1. config'[o].brightness = outputs[o].brightness /\ tracked'[o] = shown[o]
      BY <1>1, <1>3, <1>8, <2>6
    <3>2. CASE o \in DOMAIN profile
      <4>1. o \in fresh
        BY <1>7, <1>16, <3>2
      <4> QED BY <1>17, <1>19, <2>4, <2>6, <3>1, <3>2, <4>1, ScreenAssumption DEF AtEnds
    <3>3. CASE o \notin DOMAIN profile /\ o \in fresh
      BY <1>17, <1>18, <1>19, <2>6, <3>1, <3>3, ScreenAssumption DEF AtEnds
    <3>4. CASE o \notin DOMAIN profile /\ o \notin fresh
      BY <1>17, <1>18, <1>19, <2>5, <2>6, <3>1, <3>4, ScreenAssumption DEF AtEnds
    <3> QED BY <3>2, <3>3, <3>4
  <2>7. ASSUME now # {} PROVE lastBrightness' = tracked'[first].value
    <3>1. first \in now
      BY <2>7, FirstIsIn DEF Managed, first
    <3>2. CASE Managed(config) = {} \/ first # First(Managed(config)) \/ first \in valueChanged
      BY <1>2, <1>3, <1>4, <2>7, <3>2
    <3>3. CASE ~(Managed(config) = {} \/ first # First(Managed(config)) \/ first \in valueChanged)
      <4>1. /\ lastBrightness' = IF first \in DOMAIN changed THEN before[first].value ELSE lastBrightness
            /\ first = First(Managed(config))
        BY <1>2, <1>4, <2>7, <3>3
      <4>2. first \in Managed(config)
        BY <3>3, FirstIsIn DEF Managed
      <4>3. lastBrightness = tracked[first].value
        BY <2>1, <3>3, <4>1 DEF CoreInv, ValueInv
      <4>4. lastBrightness' = before[first].value
        BY <1>11, <4>1, <4>2, <4>3
      <4>5. first \notin DOMAIN profile
        BY <1>6, <1>7, <4>2
      <4>6. shown[first].value = outputs[first].brightness
        BY <1>17, <3>1, <4>5
      <4>7. before[first].value = outputs[first].brightness
        <5>1. CASE first \in replaced
          BY <1>16, <3>3, <5>1
        <5>2. CASE first \notin replaced
          <6>1. first \notin fresh
            BY <1>6, <1>16, <4>2, <5>2
          <6> QED BY <2>5, <3>1, <6>1
        <5> QED BY <5>1, <5>2
      <4> QED BY <1>3, <4>4, <4>6, <4>7
    <3> QED BY <3>2, <3>3
  <2> QED BY <1>21, <2>6, <2>7 DEF ValueInv, AtEnds, first
<1> QED BY <1>24, <1>25, <1>26, <1>27 DEF CoreInv

LEMMA ReadConfigurationKeeps ==
    ASSUME CoreInv, ReadConfiguration
    PROVE  CoreInv'
<1>1. PICK outputs : outputs = updates[1]
  OBVIOUS
<1>2. /\ updates # <<>> /\ updates' = Tail(updates)
      /\ config' = checkedOutputs(outputs)
      /\ overlapped' = (overlapped \/ (Busy /\ Stale(outputs)))
      /\ UNCHANGED <<kwin, request, finished, setConfigOp, untouched>>
      /\ IF Managed(outputs) = DOMAIN displays /\ Recreated(outputs) = {}
         THEN SameDisplays(outputs) ELSE onDetectorDisplaysChanged(outputs)
  BY <1>1 DEF ReadConfiguration
<1>3. CASE Managed(outputs) = DOMAIN displays /\ Recreated(outputs) = {}
  BY <1>1, <1>2, <1>3, SameDisplaysKeeps
<1>4. CASE ~(Managed(outputs) = DOMAIN displays /\ Recreated(outputs) = {})
  BY <1>1, <1>2, <1>4, DisplaysChangedKeeps
<1> QED BY <1>3, <1>4

-----------------------------------------------------------------------------
(* The applet.                                                             *)

\* It leaves the controller alone but for its calls.
LEMMA AppletLeaves ==
    ASSUME Applet \/ ServeQuery \/ \E name, value : SetBrightness(name, value)
    PROVE  UNCHANGED core
BY DEF Applet, onGlobalPropertiesChanged, ReadNames, ReadData, onBrightnessChanged, SetBrightnessReplied,
       ServeQuery, SetBrightness, served, core, outside, detector, controller

LEMMA CallsGrow ==
    ASSUME CallsInv, NEW call, call.what = "set" => call.value \in Values,
           calls' = Append(calls, call)
    PROVE  CallsInv'
<1>1. PICK S : calls \in Seq(S) /\ \A c \in S : c.what = "set" => c.value \in Values
  BY DEF CallsInv
<1> DEFINE T == S \union {call}
<1>2. calls \in Seq(T) /\ call \in T
  BY <1>1
<1>3. calls' \in Seq(T)
  BY <1>2
<1>4. \A c \in T : c.what = "set" => c.value \in Values
  BY <1>1
<1> QED BY <1>3, <1>4 DEF CallsInv

LEMMA CallsShrink ==
    ASSUME CallsInv, calls # <<>>, calls' = Tail(calls)
    PROVE  CallsInv'
<1>1. PICK S : calls \in Seq(S) /\ \A c \in S : c.what = "set" => c.value \in Values
  BY DEF CallsInv
<1>2. calls' \in Seq(S)
  BY <1>1
<1> QED BY <1>1, <1>2 DEF CallsInv

LEMMA QueriesKeepCalls ==
    ASSUME CallsInv, QueryDisplays \/ \E todo : AskOn(todo)
    PROVE  CallsInv'
<1>1. CASE UNCHANGED calls
  BY <1>1 DEF CallsInv
<1>2. CASE calls' = Append(calls, [what |-> "names"])
  <2>1. [what |-> "names"].what # "set"
    OBVIOUS
  <2> QED BY <1>2, <2>1, CallsGrow
<1>3. CASE \E todo : calls' = Append(calls, [what |-> "data", name |-> todo[1]])
  <2>1. PICK todo : calls' = Append(calls, [what |-> "data", name |-> todo[1]])
    BY <1>3
  <2>2. [what |-> "data", name |-> todo[1]].what # "set"
    OBVIOUS
  <2> QED BY <2>1, <2>2, CallsGrow
<1>4. CASE QueryDisplays
  BY <1>1, <1>2, <1>4 DEF QueryDisplays
<1>5. CASE \E todo : AskOn(todo)
  BY <1>1, <1>2, <1>3, <1>5 DEF AskOn
<1> QED BY <1>4, <1>5

LEMMA ChosenValues == Chosen \subseteq Values /\ Chosen \subseteq Values \union {NoValue} /\ MaxBrightness \in Values
BY KWinAssumption DEF Chosen, Values

LEMMA CallsKept ==
    ASSUME CallsInv, [Next]_vars
    PROVE  CallsInv'
<1>1. CASE UNCHANGED calls
  BY <1>1 DEF CallsInv
<1>2. CASE UNCHANGED vars
  BY <1>1, <1>2 DEF vars
<1>3. CASE World \/ KWinAppliesRequest
  <2>1. ASSUME NEW o, NEW status, NEW label, KWinChangesOutput(o, status, label) PROVE UNCHANGED calls
    BY <2>1 DEF KWinChangesOutput
  <2>2. ASSUME NEW o, NEW value, KWinChangesBrightness(o, value) PROVE UNCHANGED calls
    BY <2>2 DEF KWinChangesBrightness
  <2>3. ASSUME KWinAppliesRequest PROVE UNCHANGED calls
    BY <2>3 DEF KWinAppliesRequest
  <2> QED BY <1>1, <1>3, <2>1, <2>2, <2>3 DEF World
<1>4. CASE \E name \in ToSet(shownNames), value \in Chosen : SetBrightness(name, value)
  <2>1. PICK name \in ToSet(shownNames), value \in Chosen : SetBrightness(name, value)
    BY <1>4
  <2> DEFINE call == [what |-> "set", name |-> name, value |-> value, serial |-> events]
  <2>2. calls' = Append(calls, call) /\ call.value = value
    BY <2>1 DEF SetBrightness
  <2> QED BY <2>1, <2>2, ChosenValues, CallsGrow
<1>5. CASE User /\ ~\E name \in ToSet(shownNames), value \in Chosen : SetBrightness(name, value)
  <2>1. UNCHANGED calls
    BY <1>5 DEF User, AdjustBrightnessRatio, adjustBrightnessStep, SetAllBrightness, setDimmingRatio,
                onProfileLoad, others
  <2> QED BY <1>1, <2>1
<1>6. CASE SetConfig \/ ReadConfiguration \/ SetConfigDone
  <2>1. UNCHANGED calls
    BY <1>6 DEF SetConfig, ReadConfiguration, SetConfigDone, untouched
  <2> QED BY <1>1, <2>1
<1>7. CASE ServeQuery \/ ServeSetBrightness
  BY <1>7, CallsShrink DEF ServeQuery, ServeSetBrightness
<1>8. CASE onGlobalPropertiesChanged \/ ReadNames \/ ReadData
  <2>1. QueryDisplays \/ \E todo : AskOn(todo)
    BY <1>8 DEF onGlobalPropertiesChanged, ReadNames, ReadData
  <2> QED BY <2>1, QueriesKeepCalls
<1>9. CASE onBrightnessChanged \/ SetBrightnessReplied
  <2>1. UNCHANGED calls
    BY <1>9 DEF onBrightnessChanged, SetBrightnessReplied
  <2> QED BY <1>1, <2>1
<1> QED BY <1>2, <1>3, <1>4, <1>5, <1>6, <1>7, <1>8, <1>9 DEF Next, Daemon, Applet

-----------------------------------------------------------------------------
(* The program.                                                            *)

LEMMA InitCore ==
    ASSUME Init
    PROVE  CoreInv /\ CallsInv
<1>1. /\ kwin \in InitialOutputs /\ request = <<>> /\ finished = FALSE /\ updates = <<>> /\ config = kwin
      /\ displays = [o \in {o \in Outputs : kwin[o].status = "capable"} |->
                       [label |-> "A", desiredBrightness |-> kwin[o].brightness,
                        desiredDimming |-> 1, inhibitChangeSignal |-> FALSE]]
      /\ setConfigTimer = FALSE /\ setConfigOp = FALSE /\ setConfigOutOfDate = FALSE
      /\ tracked = [o \in DOMAIN displays |-> [value |-> kwin[o].brightness, trackingError |-> 0]]
      /\ dimmingRatio = 1 /\ configuredBrightness = NoValue
      /\ lastBrightness = IF tracked = <<>> THEN NoValue ELSE tracked[First(DOMAIN tracked)].value
      /\ displayChildren = [o \in DOMAIN tracked |-> Cardinality({i \in DOMAIN tracked : i <= o})]
      /\ calls = <<>> /\ overlapped = FALSE
  BY DEF Init, KWinInit
<1>2. /\ kwin \in Configurations
      /\ \A o \in Outputs : kwin[o].label = "A" /\ kwin[o].dimming = 1
  BY <1>1, KWinAssumption DEF Configurations
<1>3. \A o \in Outputs : kwin[o].brightness \in Values
  BY <1>2 DEF Configurations, OutputStates
<1>4. /\ DOMAIN displays = Managed(config) /\ DOMAIN tracked = Managed(config)
      /\ Managed(config) \subseteq Outputs
  BY <1>1 DEF Managed
<1>5. ASSUME NEW o \in Managed(config)
      PROVE  /\ displays[o] = [label |-> "A", desiredBrightness |-> kwin[o].brightness,
                               desiredDimming |-> 1, inhibitChangeSignal |-> FALSE]
             /\ tracked[o] = [value |-> kwin[o].brightness, trackingError |-> 0]
             /\ displays[o] \in Displays /\ tracked[o] \in Tracked
             /\ displays[o].desiredBrightness = kwin[o].brightness
             /\ tracked[o].value = kwin[o].brightness /\ tracked[o].trackingError = 0
  <2>1. /\ displays[o] = [label |-> "A", desiredBrightness |-> kwin[o].brightness,
                          desiredDimming |-> 1, inhibitChangeSignal |-> FALSE]
        /\ tracked[o] = [value |-> kwin[o].brightness, trackingError |-> 0]
    BY <1>1, <1>4, <1>5 DEF Managed
  <2> QED BY <1>3, <1>4, <1>5, <2>1 DEF Displays, Tracked, Labels
<1>6. displays \in [Managed(config) -> Displays] /\ tracked \in [Managed(config) -> Tracked]
  <2>1. displays = [o \in Managed(config) |-> displays[o]] /\ tracked = [o \in Managed(config) |-> tracked[o]]
    BY <1>1, <1>4
  <2> QED BY <1>5, <2>1
<1>7. CoreTypeOK
  <2>1. DOMAIN displayChildren = Managed(config)
    BY <1>1, <1>4
  <2>2. updates \in Seq(Configurations)
    BY <1>1
  <2>3. /\ config = kwin /\ request = <<>> /\ dimmingRatio = 1 /\ configuredBrightness = NoValue
        /\ finished = FALSE /\ setConfigTimer = FALSE /\ setConfigOp = FALSE
        /\ setConfigOutOfDate = FALSE /\ overlapped = FALSE
    BY <1>1
  <2>4. kwin \in Configurations /\ config \in Configurations
    BY <1>2, <2>3
  <2>5. dimmingRatio \in 0 .. 1 /\ configuredBrightness \in Values \union {NoValue}
    BY <2>3
  <2> QED BY <1>6, <2>1, <2>2, <2>3, <2>4, <2>5, Zenon DEF CoreTypeOK
<1>8. OpInv
  BY <1>1, <1>2, <1>4, <1>5 DEF OpInv
<1>9. NewsInv
  BY <1>1, <1>2 DEF NewsInv, Differ
<1>10. ValueInv
  <2>1. ASSUME Managed(config) # {} PROVE lastBrightness = tracked[First(Managed(config))].value
    <3>1. DOMAIN <<>> = {}
      OBVIOUS
    <3>2. tracked # <<>>
      BY <1>4, <2>1, <3>1, Zenon
    <3>3. lastBrightness = IF tracked = <<>> THEN NoValue ELSE tracked[First(DOMAIN tracked)].value
      BY <1>1
    <3> QED BY <1>4, <3>2, <3>3
  <2>2. ASSUME NEW o \in Managed(config)
        PROVE  /\ tracked[o].value = displays[o].desiredBrightness
               /\ displays[o].desiredBrightness = config[o].brightness
               /\ ~(2 * tracked[o].trackingError > Grain) /\ ~(2 * tracked[o].trackingError < -Grain)
    <3>1. config[o].brightness = kwin[o].brightness
      BY <1>1
    <3>2. displays[o].desiredBrightness = kwin[o].brightness
      BY <1>5, <2>2
    <3>3. tracked[o].value = kwin[o].brightness /\ tracked[o].trackingError = 0
      BY <1>5, <2>2
    <3> QED BY <3>1, <3>2, <3>3, ScreenAssumption
  <2> QED BY <2>1, <2>2 DEF ValueInv
<1>11. OpAlone
  BY <1>1 DEF OpAlone
<1>12. Len(updates) = 0
  BY <1>1
<1>13. DimInv
  BY <1>1, <1>2, <1>12 DEF DimInv, Steady
<1>14. UndimInv
  BY <1>1, <1>2, <1>12 DEF UndimInv, Dimmed
<1>15. CallsInv
  <2>1. calls \in Seq({})
    BY <1>1
  <2> QED BY <2>1 DEF CallsInv
<1> QED BY <1>7, <1>8, <1>9, <1>10, <1>11, <1>13, <1>14, <1>15 DEF CoreInv

LEMMA NextCore ==
    ASSUME CoreInv, CallsInv, [Next]_vars
    PROVE  CoreInv'
<1>1. CASE UNCHANGED vars
  <2>1. UNCHANGED core
    BY <1>1 DEF vars, core, controller
  <2> QED BY <2>1, CoreKept
<1>2. CASE World
  BY <1>2, ChosenValues, OutputChangesKeeps, BrightnessChangesKeeps DEF World
<1>3. CASE KWinAppliesRequest
  BY <1>3, AppliesRequestKeeps
<1>4. CASE User
  <2>1. CASE \E delta \in {MaxBrightness * Grain, 1, -1} : AdjustBrightnessRatio(delta)
    <3>1. {MaxBrightness * Grain, 1, -1} \subseteq Int
      BY KWinAssumption, ScreenAssumption
    <3> QED BY <2>1, <3>1, AdjustBrightnessRatioKeeps
  <2>2. CASE \E adjustment \in {"Increase", "Decrease"} : adjustBrightnessStep(adjustment)
    BY <2>2, AdjustBrightnessStepKeeps
  <2>3. CASE SetAllBrightness(0)
    BY <2>3, ChosenValues, SetAllBrightnessKeeps DEF Chosen
  <2>4. CASE \E ratio \in {0, 1} : setDimmingRatio(ratio)
    <3>1. {0, 1} = 0 .. 1
      OBVIOUS
    <3> QED BY <2>4, <3>1, SetDimmingRatioKeeps
  <2>5. CASE \E conservative \in BOOLEAN : onProfileLoad(MaxBrightness, conservative)
    BY <2>5, ChosenValues, ProfileLoadKeeps
  <2>6. CASE onProfileLoad(NoValue, FALSE)
    BY <2>6, ProfileLoadKeeps
  <2>7. CASE \E name \in ToSet(shownNames), value \in Chosen : SetBrightness(name, value)
    BY <2>7, AppletLeaves, CoreKept
  <2> QED BY <1>4, <2>1, <2>2, <2>3, <2>4, <2>5, <2>6, <2>7 DEF User
<1>5. CASE SetConfig
  BY <1>5, SetConfigKeeps
<1>6. CASE ReadConfiguration
  BY <1>6, ReadConfigurationKeeps
<1>7. CASE SetConfigDone
  BY <1>7, DoneKeeps
<1>8. CASE ServeSetBrightness
  BY <1>8, ServeSetBrightnessKeeps
<1>9. CASE Applet \/ ServeQuery
  BY <1>9, AppletLeaves, CoreKept
<1> QED BY <1>1, <1>2, <1>3, <1>4, <1>5, <1>6, <1>7, <1>8, <1>9 DEF Next, Daemon

\* The controller's bookkeeping is always in order: one operation at a time
\* writes to KWin what the displays are wanted to be, and what the daemon has
\* read, tracks and wants fits together, whatever KWin, the user and the
\* applet do (KWinDisplayDetector, ScreenBrightnessController).
THEOREM ScreenCorrect == Spec => [](CoreInv /\ CallsInv)
<1>1. Init => CoreInv /\ CallsInv
  BY InitCore
<1>2. CoreInv /\ CallsInv /\ [Next]_vars => (CoreInv /\ CallsInv)'
  BY NextCore, CallsKept
<1> QED BY <1>1, <1>2, PTL DEF Spec

\* When nothing is under way no display is deaf to what KWin announces
\* (KWinDisplayBrightness::m_inhibitChangeSignal).
THEOREM AlwaysListening == Spec => []NotDeaf
<1>1. CoreInv => NotDeaf
  BY DEF CoreInv, CoreTypeOK, OpInv, NotDeaf, Settled, Busy
<1> QED BY <1>1, ScreenCorrect, PTL

\* When nothing is under way, unless the outputs changed while a
\* configuration was being sent, KWin dims every display as the daemon wants
\* and leaves no output dimmed that has lost its brightness control
\* (setDimmingRatio, onDetectorDisplaysChanged, checkOutputs).
THEOREM AlwaysDimmedAsWanted == Spec => []DimmedAsWanted
<1>1. ASSUME CoreInv, Settled, ~overlapped, NEW o \in Outputs
      PROVE  /\ kwin[o].status = "capable" => kwin[o].dimming = dimmingRatio
             /\ kwin[o].status = "incapable" => kwin[o].dimming = 1
  <2>1. request = <<>> /\ updates = <<>> /\ ~setConfigTimer /\ ~setConfigOp /\ ~Will
    BY <1>1 DEF Settled, Busy, Will, CoreInv, OpInv
  <2>2. ~Anew(o)
    <3>1. Len(updates) = 0
      BY <2>1
    <3> QED BY <3>1 DEF Anew
  <2>3. ~Dimmed(kwin[o]) /\ kwin[o] \in OutputStates
    BY <1>1, <2>1 DEF CoreInv, UndimInv, CoreTypeOK, Configurations
  <2>4. kwin[o].dimming \in 0 .. 1
    BY <2>3 DEF OutputStates
  <2> QED BY <1>1, <2>1, <2>2, <2>3, <2>4 DEF CoreInv, DimInv, Dimmed
<1>2. CoreInv => DimmedAsWanted
  BY <1>1 DEF DimmedAsWanted
<1> QED BY <1>2, ScreenCorrect, PTL

\* When nothing is under way, with the same exception, the daemon tracks
\* exactly the displays KWin has, with the brightness they have, and the old
\* interface announced the first one's (onExternalBrightnessChangeObserved,
\* setConfigOperationDone, BrightnessControl).
THEOREM AlwaysTracked == Spec => []TrackedIsShown
<1>1. ASSUME CoreInv, Settled, ~overlapped
      PROVE  /\ DOMAIN tracked = Managed(kwin)
             /\ \A o \in DOMAIN tracked : tracked[o].value = kwin[o].brightness
             /\ tracked # <<>> => lastBrightness = tracked[First(DOMAIN tracked)].value
  <2>1. request = <<>> /\ updates = <<>> /\ ~Busy
    BY <1>1 DEF Settled
  <2>2. \A o \in Outputs : config[o].status = kwin[o].status /\ config[o].brightness = kwin[o].brightness
    BY <1>1, <2>1 DEF CoreInv, NewsInv, Differ
  <2>3. DOMAIN tracked = Managed(config) /\ Managed(config) = Managed(kwin) /\ Managed(config) \subseteq Outputs
    BY <1>1, <2>2 DEF CoreInv, CoreTypeOK, Managed
  <2>4. \A o \in Managed(config) : tracked[o].value = config[o].brightness
    BY <1>1, <2>1 DEF CoreInv, ValueInv
  <2>5. ASSUME tracked # <<>> PROVE lastBrightness = tracked[First(DOMAIN tracked)].value
    <3>1. Managed(config) # {}
      <4>1. tracked = [o \in Managed(config) |-> tracked[o]]
        BY <1>1 DEF CoreInv, CoreTypeOK
      <4>2. Managed(config) = {} => tracked = <<>>
        BY <4>1
      <4> QED BY <2>5, <4>2
    <3> QED BY <1>1, <2>3, <3>1 DEF CoreInv, ValueInv
  <2> QED BY <2>2, <2>3, <2>4, <2>5
<1>2. CoreInv => TrackedIsShown
  BY <1>1 DEF TrackedIsShown
<1> QED BY <1>2, ScreenCorrect, PTL

\* With the same exception, only a display at the end of its range stays behind
\* the others by more than half a level, however often and by however little all
\* are adjusted (adjustBrightnessRatio's trackingError, valueFromRatio's rounding).
THEOREM AlwaysLagsOnlyAtEnds == Spec => []LagsOnlyAtEnds
<1>1. CoreInv => LagsOnlyAtEnds
  BY DEF CoreInv, CoreTypeOK, ValueInv, LagsOnlyAtEnds
<1> QED BY <1>1, ScreenCorrect, PTL

-----------------------------------------------------------------------------
(* Lists of displays and of names.                                         *)

Increasing(f, S) == /\ f \in [1 .. Cardinality(S) -> S]
                    /\ \A i, j \in 1 .. Cardinality(S) : i < j => f[i] < f[j]

\* A finite set of numbers can be listed in their order.
LEMMA CanBeListed ==
    ASSUME NEW S \in SUBSET Nat, IsFiniteSet(S)
    PROVE  \E f : Increasing(f, S)
<1> DEFINE Unlisted == {T \in SUBSET S : ~ \E f : Increasing(f, T)}
           Bad == {Cardinality(T) : T \in Unlisted}
<1>1. ASSUME Unlisted # {} PROVE FALSE
  <2>1. \A T \in SUBSET S : IsFiniteSet(T) /\ Cardinality(T) \in Nat /\ T \in SUBSET Nat
    BY FS_Subset, FS_CardinalityType
  <2>2. Bad \in SUBSET Nat /\ Bad # {}
    BY <1>1, <2>1
  <2>3. PICK T \in Unlisted : \A U \in Unlisted : Cardinality(T) <= Cardinality(U)
    <3>1. PICK n \in Bad : \A k \in Bad : n <= k
      BY <2>2, LeastNumber
    <3> QED BY <3>1
  <2>4. T # {}
    <3>1. Increasing([i \in 1 .. 0 |-> 0], {})
      BY FS_EmptySet DEF Increasing
    <3> QED BY <2>3, <3>1
  <2>5. PICK m \in T : \A x \in T : m <= x
    BY <2>1, <2>3, <2>4, LeastNumber
  <2> DEFINE U == T \ {m}
             n == Cardinality(T)
  <2>6. U \in SUBSET S /\ Cardinality(U) = n - 1 /\ n \in Nat /\ Cardinality(U) \in Nat
    BY <2>1, <2>3, FS_RemoveElement
  <2>7. PICK g : Increasing(g, U)
    <3>1. U \notin Unlisted
      BY <2>3, <2>6
    <3> QED BY <2>6, <3>1
  <2> DEFINE f == [i \in 1 .. n |-> IF i = 1 THEN m ELSE g[i - 1]]
  <2>9. \A x \in U : m < x /\ x \in Nat /\ x \in T
    BY <2>1, <2>3, <2>5
  <2>10. g \in [1 .. n - 1 -> U] /\ \A i, j \in 1 .. n - 1 : i < j => g[i] < g[j]
    BY <2>6, <2>7 DEF Increasing
  <2> HIDE DEF U, n
  <2>8. \A i \in 1 .. n : i # 1 => i - 1 \in 1 .. n - 1 /\ g[i - 1] \in U
    BY <2>6, <2>10
  <2>11. f \in [1 .. n -> T]
    BY <2>8, <2>9
  <2>12. ASSUME NEW i \in 1 .. n, NEW j \in 1 .. n, i < j PROVE f[i] < f[j]
    <3>1. j # 1 /\ f[j] = g[j - 1] /\ g[j - 1] \in U
      BY <2>6, <2>8, <2>12
    <3>2. CASE i = 1
      BY <2>9, <3>1, <3>2
    <3>3. CASE i # 1
      BY <2>6, <2>8, <2>10, <2>12, <3>1, <3>3
    <3> QED BY <3>2, <3>3
  <2>13. Increasing(f, T)
    BY <2>11, <2>12 DEF Increasing, n
  <2> QED BY <2>3, <2>13
<1> QED BY <1>1

\* InOrder lists each element of its set once.
LEMMA InOrderLists ==
    ASSUME NEW S \in SUBSET Nat, IsFiniteSet(S)
    PROVE  /\ InOrder(S) \in Seq(S) /\ Len(InOrder(S)) = Cardinality(S)
           /\ \A i, j \in 1 .. Len(InOrder(S)) : InOrder(S)[i] = InOrder(S)[j] => i = j
           /\ \A x \in S : \E i \in 1 .. Len(InOrder(S)) : InOrder(S)[i] = x
<1> DEFINE n == Cardinality(S)
           f == InOrder(S)
<1>1. \E g : Increasing(g, S)
  BY CanBeListed
<1>2. f \in [1 .. n -> S] /\ \A i, j \in 1 .. n : i < j => f[i] < f[j]
  BY <1>1 DEF InOrder, Increasing
<1>3. n \in Nat
  BY FS_CardinalityType
<1> HIDE DEF f, n
<1>4. f \in Seq(S) /\ Len(f) = n
  BY <1>2, <1>3
<1>5. ASSUME NEW i \in 1 .. n, NEW j \in 1 .. n, f[i] = f[j] PROVE i = j
  <2>1. f[i] \in Nat /\ f[j] \in Nat
    BY <1>2
  <2>2. ~(f[i] < f[j]) /\ ~(f[j] < f[i])
    BY <1>5, <2>1
  <2>3. ~(i < j) /\ ~(j < i)
    BY <1>2, <2>2
  <2> QED BY <1>3, <2>3
<1>6. f \in Injection(1 .. n, S)
  BY <1>2, <1>5 DEF Injection, IsInjective
<1>7. IsFiniteSet(1 .. n) /\ Cardinality(1 .. n) = n
  BY <1>3, FS_Interval
<1>8. f \in Surjection(1 .. n, S)
  BY <1>6, <1>7, FS_Injection DEF n
<1>9. \A x \in S : \E i \in 1 .. n : f[i] = x
  BY <1>8 DEF Surjection
<1> QED BY <1>4, <1>5, <1>9 DEF f, n

\* Missing lists the names that have no data, each once if the names are so.
LEMMA MissingLists ==
    ASSUME NEW known \in Seq(Nat), NEW data
    PROVE  /\ Missing(known, data) \in Seq(Nat)
           /\ ToSet(Missing(known, data)) = ToSet(known) \ DOMAIN data
           /\ IsInjective(known) => IsInjective(Missing(known, data))
<1> DEFINE S == {i \in DOMAIN known : known[i] \notin DOMAIN data}
           f == InOrder(S)
           m == Missing(known, data)
<1>1. /\ known \in [1 .. Len(known) -> Nat] /\ Len(known) \in Nat
      /\ S \in SUBSET Nat /\ IsFiniteSet(1 .. Len(known)) /\ S \in SUBSET (1 .. Len(known))
  <2>1. known \in [1 .. Len(known) -> Nat] /\ Len(known) \in Nat
    OBVIOUS
  <2>2. IsFiniteSet(1 .. Len(known))
    BY <2>1, FS_Interval
  <2> QED BY <2>1, <2>2
<1>2. IsFiniteSet(S)
  BY <1>1, FS_Subset
<1>3. /\ f \in Seq(S)
      /\ \A i, j \in 1 .. Len(f) : f[i] = f[j] => i = j
      /\ \A x \in S : \E i \in 1 .. Len(f) : f[i] = x
  BY <1>1, <1>2, InOrderLists
<1>4. m = [i \in DOMAIN f |-> known[f[i]]]
  BY DEF Missing
<1>5. \A i \in S : i \in 1 .. Len(known) /\ known[i] \in Nat /\ known[i] \notin DOMAIN data
  BY <1>1
<1>6. \A i \in 1 .. Len(known) : known[i] \notin DOMAIN data => i \in S
  BY <1>1
<1> HIDE DEF f, m, S
<1>7. DOMAIN f = 1 .. Len(f) /\ Len(f) \in Nat /\ \A i \in 1 .. Len(f) : f[i] \in S
  BY <1>3
<1>8. DOMAIN m = 1 .. Len(f) /\ \A i \in 1 .. Len(f) : m[i] = known[f[i]] /\ m[i] \in Nat
  BY <1>4, <1>5, <1>7
<1>9. m \in Seq(Nat)
  BY <1>4, <1>5, <1>7
<1>10. ToSet(m) = ToSet(known) \ DOMAIN data
  <2>1. ASSUME NEW x \in ToSet(m) PROVE x \in ToSet(known) \ DOMAIN data
    BY <1>1, <1>5, <1>7, <1>8, <2>1 DEF ToSet
  <2>2. ASSUME NEW x \in ToSet(known), x \notin DOMAIN data PROVE x \in ToSet(m)
    <3>1. PICK i \in 1 .. Len(known) : known[i] = x
      BY <1>1 DEF ToSet
    <3>2. PICK j \in 1 .. Len(f) : f[j] = i
      BY <1>3, <1>6, <2>2, <3>1
    <3> QED BY <1>8, <3>1, <3>2 DEF ToSet
  <2> QED BY <2>1, <2>2
<1>11. ASSUME IsInjective(known) PROVE IsInjective(m)
  <2>1. DOMAIN known = 1 .. Len(known)
    BY <1>1
  <2>2. ASSUME NEW i \in 1 .. Len(f), NEW j \in 1 .. Len(f), m[i] = m[j] PROVE i = j
    <3>1. f[i] \in 1 .. Len(known) /\ f[j] \in 1 .. Len(known) /\ known[f[i]] = known[f[j]]
      BY <1>5, <1>7, <1>8, <2>2
    <3>2. f[i] = f[j]
      BY <1>11, <2>1, <3>1 DEF IsInjective
    <3> QED BY <1>3, <3>2
  <2> QED BY <1>8, <2>2 DEF IsInjective
<1> QED BY <1>9, <1>10, <1>11 DEF m

-----------------------------------------------------------------------------
(* The rows of the applet.                                                 *)

RowState == [row : Nat \ {0}, rows : Seq(Nat)]
RowsSound(s, has) == /\ s \in RowState /\ s.row <= Len(s.rows) + 1
                     /\ \A i \in 1 .. s.row - 1 : s.rows[i] \in has

\* t has one row more than s, for the name.
Placed(s, t, name) == /\ t.row = s.row + 1 /\ t.rows[s.row] = name
                      /\ \A i \in 1 .. s.row - 1 : t.rows[i] = s.rows[i]

LEMMA Removed ==
    ASSUME NEW q \in Seq(Nat), NEW r \in 1 .. Len(q)
    PROVE  /\ RemoveAt(q, r) \in Seq(Nat) /\ Len(RemoveAt(q, r)) = Len(q) - 1
           /\ \A i \in 1 .. r - 1 : RemoveAt(q, r)[i] = q[i]
<1> DEFINE a == SubSeq(q, 1, r - 1)
           b == SubSeq(q, r + 1, Len(q))
<1>1. Len(q) \in Nat
  OBVIOUS
<1>2. a \in Seq(Nat) /\ Len(a) = r - 1 /\ \A i \in 1 .. r - 1 : a[i] = q[i]
  OBVIOUS
<1>3. b \in Seq(Nat) /\ Len(b) = Len(q) - r
  OBVIOUS
<1> HIDE DEF a, b
<1>4. a \o b \in Seq(Nat) /\ Len(a \o b) = Len(q) - 1 /\ \A i \in 1 .. r - 1 : (a \o b)[i] = q[i]
  <2>1. a \in Seq(Nat) /\ b \in Seq(Nat)
    BY <1>2, <1>3
  <2>2. a \o b \in Seq(Nat) /\ Len(a \o b) = Len(a) + Len(b)
    BY <2>1
  <2>3. \A i \in 1 .. Len(a) : (a \o b)[i] = a[i]
    BY <2>1
  <2> QED BY <1>1, <1>2, <1>3, <2>2, <2>3
<1> QED BY <1>4 DEF RemoveAt, a, b

LEMMA Inserted ==
    ASSUME NEW q \in Seq(Nat), NEW r \in 1 .. Len(q) + 1, NEW e \in Nat
    PROVE  /\ InsertAt(q, r, e) \in Seq(Nat) /\ Len(InsertAt(q, r, e)) = Len(q) + 1
           /\ InsertAt(q, r, e)[r] = e
           /\ \A i \in 1 .. r - 1 : InsertAt(q, r, e)[i] = q[i]
<1> DEFINE a == SubSeq(q, 1, r - 1)
           b == SubSeq(q, r, Len(q))
           c == a \o <<e>>
<1>1. Len(q) \in Nat
  OBVIOUS
<1>2. a \in Seq(Nat) /\ Len(a) = r - 1 /\ \A i \in 1 .. r - 1 : a[i] = q[i]
  OBVIOUS
<1>3. b \in Seq(Nat) /\ Len(b) = Len(q) - r + 1
  OBVIOUS
<1> HIDE DEF a, b
<1>4. c \in Seq(Nat) /\ Len(c) = r /\ c[r] = e /\ \A i \in 1 .. r - 1 : c[i] = q[i]
  <2>1. r \in Nat /\ r >= 1
    BY <1>1
  <2>2. c \in Seq(Nat) /\ Len(c) = Len(a) + 1
    BY <1>2
  <2>3. \A i \in 1 .. Len(a) : c[i] = a[i]
    BY <1>2
  <2>4. c[Len(a) + 1] = e
    BY <1>2
  <2> HIDE DEF c
  <2> QED BY <1>2, <2>1, <2>2, <2>3, <2>4
<1> HIDE DEF c
<1>5. /\ c \o b \in Seq(Nat) /\ Len(c \o b) = Len(q) + 1 /\ (c \o b)[r] = e
      /\ \A i \in 1 .. r - 1 : (c \o b)[i] = q[i]
  <2>0. c \in Seq(Nat) /\ b \in Seq(Nat)
    BY <1>3, <1>4
  <2>1. Len(c \o b) = Len(c) + Len(b) /\ c \o b \in Seq(Nat)
    BY <2>0
  <2>2. \A i \in 1 .. Len(c) : (c \o b)[i] = c[i]
    BY <1>3, <1>4
  <2>3. r \in Nat /\ r >= 1
    BY <1>1
  <2> QED BY <1>1, <1>3, <1>4, <2>1, <2>2, <2>3
<1> QED BY <1>5 DEF InsertAt, a, b, c

\* One name of updateRows.
LEMMA UpdateRowKeeps ==
    ASSUME NEW has, NEW s, RowsSound(s, has), NEW name \in Nat
    PROVE  /\ RowsSound(updateRow(s, name, has), has)
           /\ name \in has => Placed(s, updateRow(s, name, has), name)
<1> DEFINE r == s.row
           q == s.rows
           u == updateRow(s, name, has)
<1>1. /\ r \in Nat \ {0} /\ q \in Seq(Nat) /\ Len(q) \in Nat /\ r <= Len(q) + 1
      /\ \A i \in 1 .. r - 1 : q[i] \in has
      /\ s = [row |-> r, rows |-> q]
  BY DEF RowsSound, RowState
<1>2. CASE r <= Len(q) /\ q[r] = name /\ name \in has
  <2>1. u = [row |-> r + 1, rows |-> q]
    BY <1>1, <1>2 DEF updateRow
  <2> HIDE DEF u, r, q
  <2>2. RowsSound(u, has)
    BY <1>1, <1>2, <2>1 DEF RowsSound, RowState
  <2> QED BY <1>2, <2>1, <2>2 DEF u, r, q, Placed
<1>3. CASE r <= Len(q) /\ q[r] = name /\ name \notin has
  <2> DEFINE t == RemoveAt(q, r)
  <2>1. u = [row |-> r, rows |-> t]
    BY <1>1, <1>3 DEF updateRow
  <2> HIDE DEF u, r, q
  <2>2. t \in Seq(Nat) /\ Len(t) = Len(q) - 1 /\ \A i \in 1 .. r - 1 : t[i] = q[i]
    BY <1>1, <1>3, Removed
  <2> HIDE DEF t
  <2>3. RowsSound(u, has)
    <3>1. u \in RowState /\ u.row = r /\ u.rows = t
      BY <1>1, <2>1, <2>2 DEF RowState
    <3>2. r <= Len(t) + 1 /\ \A i \in 1 .. r - 1 : t[i] \in has
      BY <1>1, <1>3, <2>2
    <3> QED BY <3>1, <3>2 DEF RowsSound
  <2> QED BY <1>3, <2>3 DEF u, r, q
<1>4. CASE ~(r <= Len(q) /\ q[r] = name) /\ name \in has
  <2> DEFINE t == InsertAt(q, r, name)
  <2>1. u = [row |-> r + 1, rows |-> t]
    BY <1>4 DEF updateRow
  <2> HIDE DEF u, r, q
  <2>2. t \in Seq(Nat) /\ Len(t) = Len(q) + 1 /\ t[r] = name /\ \A i \in 1 .. r - 1 : t[i] = q[i]
    <3>1. r \in 1 .. Len(q) + 1
      BY <1>1
    <3>2. q \in Seq(Nat)
      BY <1>1
    <3> QED BY <3>1, <3>2, Inserted
  <2> HIDE DEF t
  <2>3. RowsSound(u, has)
    <3>1. u \in RowState /\ u.row = r + 1 /\ u.rows = t
      BY <1>1, <2>1, <2>2 DEF RowState
    <3>2. r + 1 <= Len(t) + 1 /\ \A i \in 1 .. r : t[i] \in has
      <4>1. ASSUME NEW i \in 1 .. r PROVE t[i] \in has
        BY <1>1, <1>4, <2>2
      <4> QED BY <1>1, <2>2, <4>1
    <3> QED BY <1>1, <3>1, <3>2 DEF RowsSound
  <2> QED BY <2>1, <2>2, <2>3 DEF u, r, q, Placed
<1>5. CASE ~(r <= Len(q) /\ q[r] = name) /\ name \notin has
  <2>1. u = s
    BY <1>5 DEF updateRow
  <2> QED BY <1>5, <2>1
<1> QED BY <1>2, <1>3, <1>4, <1>5

\* updateRows as a function of the sets of names that were seen.
IsUpdate(g, known, has, rows, T) ==
    g = [s \in T |-> IF s = {} THEN [row |-> 1, rows |-> rows]
                     ELSE updateRow(g[s \ {Max(s)}], known[Max(s)], has)]

LEMMA UpdateRowsIs ==
    ASSUME NEW known, NEW has, NEW rows
    PROVE  LET u == (CHOOSE g : IsUpdate(g, known, has, rows, SUBSET DOMAIN known))[DOMAIN known]
           IN  updateRows(known, has, rows) = SubSeq(u.rows, 1, u.row - 1)
BY DEF updateRows, FoldLeft, MapThenFoldSet, IsUpdate

LEMMA GreatestIsIn ==
    ASSUME NEW n \in Nat, NEW S \in SUBSET (1 .. n), S # {}
    PROVE  Max(S) \in S /\ \A x \in S : x <= Max(S)
<1> DEFINE B == {n - x : x \in S}
<1>1. B \in SUBSET Nat /\ B # {}
  OBVIOUS
<1>2. PICK b \in B : \A c \in B : b <= c
  BY <1>1, LeastNumber
<1>3. PICK m \in S : b = n - m
  BY <1>2
<1>4. \A x \in S : n - x \in B
  OBVIOUS
<1> HIDE DEF B
<1>5. \A x \in S : m >= x
  BY <1>2, <1>3, <1>4
<1>6. Max(S) \in S /\ \A x \in S : Max(S) >= x
  BY <1>5 DEF Max
<1> QED BY <1>6

LEMMA UpdateExists ==
    ASSUME NEW n \in Nat, NEW known, NEW has, NEW rows
    PROVE  \E g : IsUpdate(g, known, has, rows, SUBSET (1 .. n))
<1> DEFINE Bad == {k \in Nat : ~ \E g : IsUpdate(g, known, has, rows, SUBSET (1 .. k))}
<1>1. ASSUME Bad # {} PROVE FALSE
  <2>1. PICK k \in Bad : \A m \in Bad : k <= m
    BY <1>1, LeastNumber
  <2>2. CASE k = 0
    <3> DEFINE g == [s \in {{}} |-> [row |-> 1, rows |-> rows]]
    <3>1. SUBSET (1 .. 0) = {{}}
      OBVIOUS
    <3>2. IsUpdate(g, known, has, rows, SUBSET (1 .. 0))
      BY <3>1 DEF IsUpdate
    <3> QED BY <2>1, <2>2, <3>2
  <2>3. CASE k # 0
    <3>1. PICK g : IsUpdate(g, known, has, rows, SUBSET (1 .. k - 1))
      <4>1. k - 1 \in Nat /\ ~(k <= k - 1)
        BY <2>3
      <4> QED BY <2>1, <4>1
    <3> DEFINE T == SUBSET (1 .. k)
               U == SUBSET (1 .. k - 1)
               Next1(s) == updateRow(g[s \ {Max(s)}], known[Max(s)], has)
               h == [s \in T |-> IF s = {} THEN [row |-> 1, rows |-> rows] ELSE Next1(s)]
    <3>2. g = [s \in U |-> IF s = {} THEN [row |-> 1, rows |-> rows] ELSE Next1(s)]
      BY <3>1 DEF IsUpdate
    <3>3. U \subseteq T
      OBVIOUS
    <3>4. ASSUME NEW s \in T, s # {} PROVE s \ {Max(s)} \in U
      <4>1. Max(s) \in s /\ \A x \in s : x <= Max(s)
        BY <3>4, GreatestIsIn
      <4>2. s \in SUBSET (1 .. k) /\ Max(s) \in 1 .. k
        BY <4>1
      <4>3. ASSUME NEW x \in s, x # Max(s) PROVE x \in 1 .. k - 1
        BY <4>1, <4>2, <4>3
      <4> QED BY <4>3
    <3>5. k \in Bad => ~IsUpdate(h, known, has, rows, T)
      OBVIOUS
    <3> HIDE DEF T, U
    <3>6. \A s \in U : h[s] = g[s]
      BY <3>2, <3>3
    <3>7. \A s \in T : s # {} => h[s \ {Max(s)}] = g[s \ {Max(s)}]
      BY <3>4, <3>6
    <3>8. h = [s \in T |-> IF s = {} THEN [row |-> 1, rows |-> rows]
                           ELSE updateRow(h[s \ {Max(s)}], known[Max(s)], has)]
      BY <3>7
    <3>9. IsUpdate(h, known, has, rows, T)
      BY <3>8 DEF IsUpdate
    <3> QED BY <2>1, <3>5, <3>9
  <2> QED BY <2>2, <2>3
<1> QED BY <1>1

\* What has no data has no row; when all of it has, the rows are the names.
LEMMA UpdateRowsShows ==
    ASSUME NEW known \in Seq(Nat), NEW rows \in Seq(Nat), NEW has
    PROVE  /\ updateRows(known, has, rows) \in Seq(Nat)
           /\ ToSet(updateRows(known, has, rows)) \subseteq has
           /\ ToSet(known) \subseteq has => updateRows(known, has, rows) = known
<1> DEFINE n == Len(known)
           g == CHOOSE g : IsUpdate(g, known, has, rows, SUBSET DOMAIN known)
           G(k) == g[1 .. k]
           All == \A i \in 1 .. n : known[i] \in has
           Prefix(k) == G(k).row = k + 1 /\ \A i \in 1 .. k : G(k).rows[i] = known[i]
           Bad == {k \in 0 .. n : ~(RowsSound(G(k), has) /\ (All => Prefix(k)))}
<1>1. n \in Nat /\ DOMAIN known = 1 .. n /\ \A i \in 1 .. n : known[i] \in Nat
  OBVIOUS
<1>2. IsUpdate(g, known, has, rows, SUBSET (1 .. n))
  BY <1>1, UpdateExists
<1>3. updateRows(known, has, rows) = SubSeq(G(n).rows, 1, G(n).row - 1)
  BY <1>1, UpdateRowsIs
<1> HIDE DEF g, n
<1>4. \A s \in SUBSET (1 .. n) :
        g[s] = IF s = {} THEN [row |-> 1, rows |-> rows] ELSE updateRow(g[s \ {Max(s)}], known[Max(s)], has)
  BY <1>2 DEF IsUpdate
<1>5. G(0) = [row |-> 1, rows |-> rows]
  <2>1. 1 .. 0 = {} /\ {} \in SUBSET (1 .. n)
    OBVIOUS
  <2> QED BY <1>4, <2>1
<1>6. ASSUME NEW k \in 1 .. n PROVE G(k) = updateRow(G(k - 1), known[k], has)
  <2>1. k \in Nat /\ k \in 1 .. k /\ 1 .. k \in SUBSET (1 .. n) /\ 1 .. k # {}
    <3>1. k \in Nat /\ k >= 1 /\ k <= n
      BY <1>1
    <3>2. \A i \in 1 .. k : i \in 1 .. n
      BY <1>1, <3>1
    <3> QED BY <3>1, <3>2
  <2>2. Max(1 .. k) = k
    <3>1. Max(1 .. k) \in 1 .. k /\ k <= Max(1 .. k)
      BY <2>1, GreatestIsIn
    <3> QED BY <2>1, <3>1
  <2>3. (1 .. k) \ {k} = 1 .. k - 1
    BY <2>1
  <2> QED BY <1>4, <2>1, <2>2, <2>3
<1> HIDE DEF G, All
<1>7. RowsSound(G(0), has) /\ Prefix(0)
  BY <1>5 DEF RowsSound, RowState
<1>8. ASSUME NEW k \in 1 .. n, RowsSound(G(k - 1), has), All => Prefix(k - 1)
      PROVE  RowsSound(G(k), has) /\ (All => Prefix(k))
  <2> DEFINE s == G(k - 1)
             t == G(k)
  <2>1. known[k] \in Nat /\ (All => known[k] \in has) /\ k \in Nat
    BY <1>1 DEF All
  <2>2. t = updateRow(s, known[k], has)
    BY <1>6
  <2>3. RowsSound(t, has)
    BY <1>8, <2>1, <2>2, UpdateRowKeeps
  <2>4. ASSUME All PROVE Prefix(k)
    <3>1. s.row = k /\ \A i \in 1 .. k - 1 : s.rows[i] = known[i]
      BY <1>8, <2>1, <2>4
    <3>2. Placed(s, t, known[k])
      <4>1. known[k] \in Nat /\ known[k] \in has /\ RowsSound(s, has)
        BY <1>8, <2>1, <2>4
      <4> HIDE DEF s, t, Prefix
      <4> QED BY <2>2, <4>1, UpdateRowKeeps
    <3> HIDE DEF s, t
    <3>3. t.row = k + 1 /\ \A i \in 1 .. k : t.rows[i] = known[i]
      BY <2>1, <3>1, <3>2 DEF Placed
    <3> QED BY <3>3 DEF t
  <2> QED BY <2>3, <2>4
<1>9. ASSUME Bad # {} PROVE FALSE
  <2>1. Bad \in SUBSET Nat
    BY <1>1
  <2>2. PICK k \in Bad : \A m \in Bad : k <= m
    BY <1>9, <2>1, LeastNumber
  <2> HIDE DEF Prefix
  <2>3. k # 0
    BY <1>7, <2>2
  <2>4. k \in 1 .. n /\ k - 1 \in 0 .. n /\ ~(k <= k - 1)
    BY <1>1, <2>2, <2>3
  <2>5. k - 1 \notin Bad
    BY <2>2, <2>4
  <2> QED BY <1>8, <2>2, <2>4, <2>5
<1>10. RowsSound(G(n), has) /\ (All => Prefix(n))
  <2>1. n \in 0 .. n /\ n \notin Bad
    BY <1>1, <1>9
  <2> HIDE DEF Prefix
  <2> QED BY <2>1
<1> DEFINE u == G(n)
           q == updateRows(known, has, rows)
<1>11. /\ u.rows \in Seq(Nat) /\ u.row \in Nat \ {0} /\ u.row <= Len(u.rows) + 1
       /\ \A i \in 1 .. u.row - 1 : u.rows[i] \in has
       /\ All => u.row = n + 1 /\ \A i \in 1 .. n : u.rows[i] = known[i]
  BY <1>10 DEF RowsSound, RowState
<1>12. q = SubSeq(u.rows, 1, u.row - 1)
  BY <1>3
<1> HIDE DEF u, q
<1>13. q \in Seq(Nat) /\ Len(q) = u.row - 1 /\ \A i \in 1 .. u.row - 1 : q[i] = u.rows[i]
  <2> DEFINE m == u.row - 1
             f == u.rows
  <2>1. f \in Seq(Nat) /\ m \in 0 .. Len(f) /\ Len(f) \in Nat /\ q = SubSeq(f, 1, m)
    BY <1>11, <1>12
  <2> HIDE DEF m, f
  <2>2. q \in Seq(Nat) /\ Len(q) = m /\ \A i \in 1 .. m : q[i] = f[i]
    BY <2>1
  <2> QED BY <2>2 DEF m, f
<1>14. ToSet(q) \subseteq has
  <2>1. DOMAIN q = 1 .. u.row - 1
    BY <1>13
  <2> QED BY <1>11, <1>13, <2>1 DEF ToSet
<1>15. ASSUME All PROVE q = known
  <2>1. Len(q) = n /\ \A i \in 1 .. n : q[i] = known[i]
    <3>1. u.row = n + 1 /\ \A i \in 1 .. n : u.rows[i] = known[i]
      BY <1>11, <1>15
    <3>2. u.row - 1 = n
      BY <1>1, <3>1
    <3> QED BY <1>13, <3>1, <3>2
  <2>2. q \in Seq(Nat) /\ known \in Seq(Nat) /\ Len(known) = n
    BY <1>13 DEF n
  <2> QED BY <2>1, <2>2
<1>16. ToSet(known) \subseteq has => All
  BY <1>1 DEF ToSet, All
<1> QED BY <1>13, <1>14, <1>15, <1>16 DEF q

-----------------------------------------------------------------------------
(* Messages.                                                               *)

Sequence(s) == \E S : s \in Seq(S)

\* A question of queryAndUpdateDisplays, or the answer.
Query(m) == m.what \in {"names", "data"}
Single(s) == \A i, j \in 1 .. Len(s) : Query(s[i]) /\ Query(s[j]) => i = j

LEMMA Members ==
    ASSUME NEW s, Sequence(s)
    PROVE  /\ Len(s) \in Nat /\ DOMAIN s = 1 .. Len(s)
           /\ \A m : m \in ToSet(s) <=> \E i \in 1 .. Len(s) : s[i] = m
BY DEF Sequence, ToSet

LEMMA Emptied ==
    Sequence(<<>>) /\ ToSet(<<>>) = {} /\ Single(<<>>) /\ Len(<<>>) = 0
<1>1. <<>> \in Seq({}) /\ Len(<<>>) = 0 /\ DOMAIN <<>> = {}
  OBVIOUS
<1> QED BY <1>1 DEF Sequence, ToSet, Single

LEMMA Joined ==
    ASSUME NEW s, NEW t, Sequence(s), Sequence(t)
    PROVE  /\ Sequence(s \o t) /\ Len(s \o t) = Len(s) + Len(t)
           /\ \A i \in 1 .. Len(s) : (s \o t)[i] = s[i]
           /\ \A i \in 1 .. Len(t) : (s \o t)[Len(s) + i] = t[i]
           /\ ToSet(s \o t) = ToSet(s) \union ToSet(t)
           /\ Single(s) /\ (\A m \in ToSet(t) : ~Query(m)) => Single(s \o t)
<1>1. PICK S, T : s \in Seq(S) /\ t \in Seq(T)
  BY DEF Sequence
<1> DEFINE U == S \union T
           u == s \o t
<1>2. s \in Seq(U) /\ t \in Seq(U)
  <2>1. \A i \in 1 .. Len(s) : s[i] \in U
    BY <1>1
  <2>2. \A i \in 1 .. Len(t) : t[i] \in U
    BY <1>1
  <2> QED BY <1>1, <2>1, <2>2
<1> HIDE DEF U
<1>3. /\ u \in Seq(U) /\ Len(u) = Len(s) + Len(t) /\ Len(s) \in Nat /\ Len(t) \in Nat
      /\ \A i \in 1 .. Len(s) : u[i] = s[i]
  BY <1>2
<1>4. ASSUME NEW i \in 1 .. Len(t) PROVE u[Len(s) + i] = t[i]
  BY <1>2, <1>3
<1> HIDE DEF u
<1>5. \A i \in 1 .. Len(u) : i \in 1 .. Len(s) \/ \E j \in 1 .. Len(t) : i = Len(s) + j
  <2>1. ASSUME NEW i \in 1 .. Len(u), i \notin 1 .. Len(s) PROVE i - Len(s) \in 1 .. Len(t) /\ i = Len(s) + (i - Len(s))
    BY <1>3, <2>1
  <2> QED BY <2>1
<1>6. \A j \in 1 .. Len(t) : Len(s) + j \in 1 .. Len(u)
  BY <1>3
<1>7. \A j \in 1 .. Len(s) : j \in 1 .. Len(u)
  BY <1>3
<1>8. Sequence(u)
  BY <1>3 DEF Sequence
<1>9. ToSet(u) = ToSet(s) \union ToSet(t)
  <2>1. ASSUME NEW m \in ToSet(u) PROVE m \in ToSet(s) \union ToSet(t)
    <3>1. PICK i \in 1 .. Len(u) : u[i] = m
      BY <1>8, Members
    <3>2. CASE i \in 1 .. Len(s)
      BY <1>3, <3>1, <3>2, Members
    <3>3. ASSUME NEW j \in 1 .. Len(t), i = Len(s) + j PROVE m \in ToSet(t)
      BY <1>4, <3>1, <3>3, Members
    <3> QED BY <1>5, <3>2, <3>3
  <2>2. ASSUME NEW m \in ToSet(s) PROVE m \in ToSet(u)
    BY <1>3, <1>7, <1>8, <2>2, Members
  <2>3. ASSUME NEW m \in ToSet(t) PROVE m \in ToSet(u)
    BY <1>4, <1>6, <1>8, <2>3, Members
  <2> QED BY <2>1, <2>2, <2>3
<1>10. ASSUME Single(s), \A m \in ToSet(t) : ~Query(m) PROVE Single(u)
  <2>1. ASSUME NEW i \in 1 .. Len(u), Query(u[i]) PROVE i \in 1 .. Len(s) /\ Query(s[i])
    <3>1. ASSUME NEW j \in 1 .. Len(t), i = Len(s) + j PROVE FALSE
      <4>1. u[i] \in ToSet(t)
        BY <1>4, <3>1, Members
      <4> QED BY <1>10, <2>1, <4>1
    <3> QED BY <1>3, <1>5, <2>1, <3>1
  <2> QED BY <1>10, <2>1 DEF Single
<1> QED BY <1>3, <1>4, <1>8, <1>9, <1>10 DEF u

LEMMA Added ==
    ASSUME NEW s, NEW m, Sequence(s)
    PROVE  /\ Sequence(Append(s, m)) /\ Len(Append(s, m)) = Len(s) + 1
           /\ \A i \in 1 .. Len(s) : Append(s, m)[i] = s[i]
           /\ Append(s, m)[Len(s) + 1] = m
           /\ ToSet(Append(s, m)) = ToSet(s) \union {m}
           /\ Single(s) /\ (Query(m) => \A k \in ToSet(s) : ~Query(k)) => Single(Append(s, m))
<1>1. PICK S : s \in Seq(S)
  BY DEF Sequence
<1> DEFINE U == S \union {m}
           u == Append(s, m)
<1>2. s \in Seq(U) /\ m \in U
  <2>1. \A i \in 1 .. Len(s) : s[i] \in U
    BY <1>1
  <2> QED BY <1>1, <2>1
<1> HIDE DEF U
<1>3. /\ u \in Seq(U) /\ Len(u) = Len(s) + 1 /\ Len(s) \in Nat
      /\ \A i \in 1 .. Len(s) : u[i] = s[i]
      /\ u[Len(s) + 1] = m
  BY <1>2
<1> HIDE DEF u
<1>4. Sequence(u)
  BY <1>3 DEF Sequence
<1>5. \A i \in 1 .. Len(u) : i \in 1 .. Len(s) \/ i = Len(s) + 1
  BY <1>3
<1>6. \A i \in 1 .. Len(s) : i \in 1 .. Len(u)
  BY <1>3
<1>7. Len(s) + 1 \in 1 .. Len(u)
  BY <1>3
<1>8. ToSet(u) = ToSet(s) \union {m}
  <2>1. ASSUME NEW k \in ToSet(u) PROVE k \in ToSet(s) \union {m}
    BY <1>3, <1>4, <1>5, <2>1, Members
  <2>2. ASSUME NEW k \in ToSet(s) PROVE k \in ToSet(u)
    BY <1>3, <1>4, <1>6, <2>2, Members
  <2>3. m \in ToSet(u)
    BY <1>3, <1>4, <1>7, Members
  <2> QED BY <2>1, <2>2, <2>3
<1>9. ASSUME Single(s), Query(m) => \A k \in ToSet(s) : ~Query(k) PROVE Single(u)
  <2>1. \A i \in 1 .. Len(s) : s[i] \in ToSet(s)
    BY Members
  <2> QED BY <1>3, <1>5, <1>9, <2>1 DEF Single
<1> QED BY <1>3, <1>4, <1>8, <1>9 DEF u

LEMMA Taken ==
    ASSUME NEW s, Sequence(s), s # <<>>
    PROVE  /\ Sequence(Tail(s)) /\ Len(Tail(s)) = Len(s) - 1 /\ Len(s) \in Nat \ {0}
           /\ \A i \in 1 .. Len(s) - 1 : Tail(s)[i] = s[i + 1]
           /\ ToSet(s) = ToSet(Tail(s)) \union {s[1]}
           /\ Single(s) => /\ Single(Tail(s))
                           /\ Query(s[1]) => \A k \in ToSet(Tail(s)) : ~Query(k)
<1>1. PICK S : s \in Seq(S)
  BY DEF Sequence
<1> DEFINE u == Tail(s)
<1>3. /\ u \in Seq(S) /\ Len(u) = Len(s) - 1 /\ Len(s) \in Nat /\ Len(s) # 0
      /\ \A i \in 1 .. Len(s) - 1 : u[i] = s[i + 1]
  BY <1>1
<1> HIDE DEF u
<1>4. Sequence(u)
  BY <1>3 DEF Sequence
<1>5. \A i \in 1 .. Len(s) : i = 1 \/ (i - 1 \in 1 .. Len(u) /\ u[i - 1] = s[i])
  BY <1>3
<1>6. \A i \in 1 .. Len(u) : i + 1 \in 1 .. Len(s) /\ i + 1 # 1 /\ u[i] = s[i + 1]
  BY <1>3
<1>7. 1 \in 1 .. Len(s)
  BY <1>3
<1>8. ToSet(s) = ToSet(u) \union {s[1]}
  <2>1. ASSUME NEW k \in ToSet(s) PROVE k \in ToSet(u) \union {s[1]}
    BY <1>4, <1>5, <2>1, Members
  <2>2. ASSUME NEW k \in ToSet(u) PROVE k \in ToSet(s)
    BY <1>4, <1>6, <2>2, Members
  <2>3. s[1] \in ToSet(s)
    BY <1>7, Members
  <2> QED BY <2>1, <2>2, <2>3
<1>9. ASSUME Single(s) PROVE Single(u)
  <2>1. ASSUME NEW i \in 1 .. Len(u), NEW j \in 1 .. Len(u), Query(u[i]), Query(u[j]) PROVE i = j
    <3>1. i + 1 = j + 1
      BY <1>6, <1>9, <2>1 DEF Single
    <3> QED BY <1>3, <3>1
  <2> QED BY <2>1 DEF Single
<1>10. ASSUME Single(s), Query(s[1]), NEW k \in ToSet(u) PROVE ~Query(k)
  <2>1. PICK i \in 1 .. Len(u) : u[i] = k
    BY <1>4, Members
  <2>2. i + 1 # 1 /\ i + 1 \in 1 .. Len(s) /\ s[i + 1] = k
    BY <1>6, <2>1
  <2> QED BY <1>7, <1>10, <2>2 DEF Single
<1> QED BY <1>3, <1>4, <1>8, <1>9, <1>10 DEF u

-----------------------------------------------------------------------------
(* The applet's list of displays.                                          *)

Live == {displayChildren[o] : o \in DOMAIN tracked}
GivenNames == 1 .. nextDisplayIndex - 1

\* The applet will learn that there are other displays.
Ahead == recheck \/ \E m \in ToSet(bus) : m.what = "propertiesChanged"

Setting(m, n) == m.what = "set" /\ m.name = n

\* A name is given to one display, ever.
NumbersInv ==
    /\ nextDisplayIndex \in Nat \ {0}
    /\ \A o \in DOMAIN tracked : displayChildren[o] \in GivenNames
    /\ \A o, p \in DOMAIN tracked : displayChildren[o] = displayChildren[p] => o = p
    /\ knownNames \in Seq(Nat) /\ IsInjective(knownNames) /\ ToSet(knownNames) \subseteq GivenNames
    /\ \A m \in ToSet(bus) : m.what = "names" =>
         /\ m.names \in Seq(Nat) /\ IsInjective(m.names) /\ ToSet(m.names) \subseteq GivenNames
         /\ Live \cap ToSet(knownNames) \subseteq ToSet(m.names)
    /\ \A m \in ToSet(bus) : m.what \in {"changed", "set", "data"} => m.name \in GivenNames
    /\ \A m \in ToSet(calls) : m.what \in {"set", "data"} => m.name \in GivenNames

\* One question at a time is under way, which is the one that is waited for.
QueryInv ==
    /\ Sequence(bus) /\ Sequence(calls) /\ Single(bus) /\ Single(calls)
    /\ \A m \in ToSet(bus), k \in ToSet(calls) : ~(Query(m) /\ Query(k))
    /\ \A m \in ToSet(bus) \union ToSet(calls) :
         Query(m) => m.what = querying.for /\ (m.what = "data" => m.name = querying.todo[1])
    /\ querying.for # "nothing" => \E m \in ToSet(bus) \union ToSet(calls) : Query(m)
    /\ querying.for = "data" =>
         /\ querying.todo \in Seq(Nat) /\ querying.todo # <<>> /\ IsInjective(querying.todo)
         /\ ToSet(querying.todo) \subseteq ToSet(knownNames) \ DOMAIN displayData
    /\ recheck \in BOOLEAN /\ (recheck => querying.for # "nothing")

\* It has the names, or they are on their way to it, or it will ask for them.
NamesInv ==
    \/ Ahead
    \/ \E m \in ToSet(calls) : m.what = "names"
    \/ \E m \in ToSet(bus) : m.what = "names" /\ m.names = Names
    \/ querying.for # "names" /\ knownNames = Names

\* It shows the names it has data of, and has still to ask for those it has not.
ShownInv ==
    /\ shownNames \in Seq(Nat)
    /\ DOMAIN displayData \subseteq ToSet(knownNames)
    /\ ToSet(shownNames) \subseteq DOMAIN displayData
    /\ ToSet(knownNames) \subseteq DOMAIN displayData => shownNames = knownNames
    /\ querying.for # "names" /\ ~Ahead =>
         ToSet(knownNames) \ DOMAIN displayData \subseteq
            (IF querying.for = "data" THEN ToSet(querying.todo) ELSE {})
    /\ \A m \in ToSet(bus) : m.what = "data" /\ m.value = NoValue => Ahead

\* What it sets is shown, and is set unless the display is gone.
SetsInv ==
    \A n \in Live :
        /\ n \notin DOMAIN displayData => \A m \in ToSet(bus) \union ToSet(calls) : ~Setting(m, n)
        /\ \A m \in ToSet(bus) : Setting(m, n) => m.ok

ListInv == NumbersInv /\ QueryInv /\ NamesInv /\ ShownInv /\ SetsInv

(* What the applet will show for the display n, from what it shows (data)  *)
(* and what is under way to it (b) and from it (c).                        *)

Changes(m, n) == m.what = "changed" /\ m.name = n /\ m.client # "applet"
NoneAfter(b, n, i) == \A j \in 1 .. Len(b) : j > i => ~Changes(b[j], n)

\* It will be told of a change while it waits for its own.
Doomed(b, c, n) ==
    \E i \in 1 .. Len(b) : /\ Changes(b[i], n)
                           /\ \/ \E k \in 1 .. Len(c) : Setting(c[k], n)
                              \/ \E j \in 1 .. Len(b) : j > i /\ Setting(b[j], n)

LastSet(c, n, k) == Setting(c[k], n) /\ \A j \in 1 .. Len(c) : j > k => ~Setting(c[j], n)

\* The last it will hear of the value is v.
LastHeard(b, n, v) == \A i \in 1 .. Len(b) : Changes(b[i], n) /\ NoneAfter(b, n, i) => b[i].value = v
LastRead(b, n, v) ==
    \A i \in 1 .. Len(b) : b[i].what = "data" /\ b[i].name = n =>
        b[i].value # NoValue /\ (NoneAfter(b, n, i) => b[i].value = v)
Displayed(c, shown, n, v) ==
    /\ (\A k \in 1 .. Len(c) : ~Setting(c[k], n)) => shown = v
    /\ \A k \in 1 .. Len(c) : LastSet(c, n, k) => c[k].value = shown
Agrees(b, c, data, n, v) ==
    /\ LastHeard(b, n, v)
    /\ n \notin DOMAIN data => LastRead(b, n, v)
    /\ n \in DOMAIN data /\ NoneAfter(b, n, 0) => Displayed(c, data[n], n, v)

Fits(b, c, data, n, v) == Doomed(b, c, n) \/ Agrees(b, c, data, n, v)

\* What the applet will show is what is tracked.
ValuesInv ==
    ~overlapped /\ ~crossed =>
        \A o \in DOMAIN tracked : Fits(bus, calls, displayData, displayChildren[o], tracked[o].value)

AppletInv == ListInv /\ ValuesInv

\* The displays are those of the copy.
Sane == /\ IsFiniteSet(DOMAIN tracked) /\ DOMAIN tracked \in SUBSET Nat
        /\ DOMAIN displayChildren = DOMAIN tracked
        /\ \A o \in DOMAIN tracked : tracked[o].value \in Values

LEMMA CoreIsSane == ASSUME CoreTypeOK PROVE Sane
<1>1. DOMAIN tracked = Managed(config) /\ DOMAIN displayChildren = Managed(config)
  BY DEF CoreTypeOK
<1>2. Managed(config) \subseteq Outputs /\ IsFiniteSet(Outputs) /\ Outputs \subseteq Nat
  BY ManagedOutputs, KWinAssumption
<1>3. IsFiniteSet(Managed(config))
  BY <1>2, FS_Subset
<1>4. \A o \in DOMAIN tracked : tracked[o].value \in Values
  BY <1>1 DEF CoreTypeOK, Tracked
<1> QED BY <1>1, <1>2, <1>3, <1>4 DEF Sane

LEMMA NamesList ==
    ASSUME Sane, NumbersInv
    PROVE  /\ Names \in Seq(Nat) /\ IsInjective(Names) /\ ToSet(Names) = Live
           /\ ToSet(Names) \subseteq GivenNames
<1>1. /\ Ids \in Seq(DOMAIN tracked)
      /\ \A i, j \in 1 .. Len(Ids) : Ids[i] = Ids[j] => i = j
      /\ \A x \in DOMAIN tracked : \E i \in 1 .. Len(Ids) : Ids[i] = x
  BY InOrderLists DEF Sane, Ids
<1> HIDE DEF Ids
<1>2. Len(Ids) \in Nat /\ \A i \in 1 .. Len(Ids) : Ids[i] \in DOMAIN tracked
  BY <1>1
<1>3. GivenNames \in SUBSET Nat
  BY DEF NumbersInv, GivenNames
<1>4. \A i \in 1 .. Len(Ids) : displayChildren[Ids[i]] \in GivenNames /\ displayChildren[Ids[i]] \in Nat
  BY <1>2, <1>3 DEF NumbersInv
<1>5. Names = [i \in 1 .. Len(Ids) |-> displayChildren[Ids[i]]]
  BY DEF Names
<1>6. Names \in Seq(Nat)
  BY <1>2, <1>4, <1>5
<1>7. ToSet(Names) = Live
  <2>1. ASSUME NEW n \in ToSet(Names) PROVE n \in Live
    BY <1>2, <1>5, <2>1 DEF Live, ToSet
  <2>2. ASSUME NEW o \in DOMAIN tracked PROVE displayChildren[o] \in ToSet(Names)
    <3>1. PICK i \in 1 .. Len(Ids) : Ids[i] = o
      BY <1>1
    <3> QED BY <1>5, <3>1 DEF ToSet
  <2> QED BY <2>1, <2>2 DEF Live
<1>8. ASSUME NEW i \in 1 .. Len(Ids), NEW j \in 1 .. Len(Ids), Names[i] = Names[j] PROVE i = j
  <2>1. displayChildren[Ids[i]] = displayChildren[Ids[j]]
    BY <1>5, <1>8
  <2>2. Ids[i] = Ids[j]
    BY <1>2, <2>1 DEF NumbersInv
  <2> QED BY <1>1, <2>2
<1>9. IsInjective(Names)
  <2>1. DOMAIN Names = 1 .. Len(Ids)
    BY <1>5
  <2> QED BY <1>8, <2>1 DEF IsInjective
<1>10. Live \subseteq GivenNames
  BY DEF Live, NumbersInv
<1> QED BY <1>6, <1>7, <1>9, <1>10

LEMMA SameNames ==
    ASSUME Sane, DOMAIN tracked' = DOMAIN tracked,
           \A o \in DOMAIN tracked : displayChildren'[o] = displayChildren[o]
    PROVE  Names' = Names /\ Live' = Live
<1>1. Ids' = Ids
  BY DEF Ids
<1>2. Len(Ids) \in Nat /\ \A i \in 1 .. Len(Ids) : Ids[i] \in DOMAIN tracked
  <2>1. Ids \in Seq(DOMAIN tracked)
    BY InOrderLists DEF Sane, Ids
  <2> QED BY <2>1
<1>3. Names' = [i \in 1 .. Len(Ids) |-> displayChildren'[Ids[i]]]
  BY <1>1 DEF Names
<1> HIDE DEF Ids
<1> QED BY <1>2, <1>3 DEF Names, Live

LEMMA ModelShows ==
    ASSUME NEW known \in Seq(Nat), NEW data, shownNames \in Seq(Nat), modelBecomes(known, data)
    PROVE  /\ knownNames' = known
           /\ DOMAIN displayData' = DOMAIN data \cap ToSet(known)
           /\ \A n \in DOMAIN displayData' : displayData'[n] = data[n]
           /\ shownNames' \in Seq(Nat)
           /\ ToSet(shownNames') \subseteq DOMAIN displayData'
           /\ ToSet(known) \subseteq DOMAIN displayData' => shownNames' = known
<1> DEFINE has == DOMAIN data \cap ToSet(known)
<1>1. /\ knownNames' = known /\ DOMAIN displayData' = has
      /\ \A n \in has : displayData'[n] = data[n]
      /\ shownNames' = updateRows(known, has, shownNames)
  BY DEF modelBecomes
<1> HIDE DEF has
<1>2. /\ updateRows(known, has, shownNames) \in Seq(Nat)
      /\ ToSet(updateRows(known, has, shownNames)) \subseteq has
      /\ ToSet(known) \subseteq has => updateRows(known, has, shownNames) = known
  BY UpdateRowsShows
<1> QED BY <1>1, <1>2 DEF has

-----------------------------------------------------------------------------
(* The daemon tells the applet.                                            *)

\* What the applet is told of the values by `told`.
TellsValues(told) ==
    \A o \in DOMAIN tracked' \cap DOMAIN tracked :
        /\ \A m \in ToSet(told) : m.what = "changed" /\ m.name = displayChildren[o] => m.value = tracked'[o].value
        /\ \/ tracked'[o].value = tracked[o].value
           \/ \E m \in ToSet(told) : m.what = "changed" /\ m.name = displayChildren[o]

Tells(told) ==
    /\ Sequence(told) /\ bus' = bus \o told
    /\ \A m \in ToSet(told) :
         \/ m.what = "propertiesChanged"
         \/ m.what = "changed" /\ m.client = "" /\ m.name \in Live
    /\ DOMAIN tracked' # DOMAIN tracked => \E m \in ToSet(told) : m.what = "propertiesChanged"
    /\ nextDisplayIndex' \in Nat /\ nextDisplayIndex' >= nextDisplayIndex
    /\ \A o \in DOMAIN tracked' \cap DOMAIN tracked : displayChildren'[o] = displayChildren[o]
    /\ \A o \in DOMAIN tracked' \ DOMAIN tracked :
         displayChildren'[o] \in nextDisplayIndex .. nextDisplayIndex' - 1
    /\ \A o, p \in DOMAIN tracked' : displayChildren'[o] = displayChildren'[p] => o = p
    /\ overlapped => overlapped'
    /\ ~overlapped' => TellsValues(told)
    /\ UNCHANGED <<calls, applet>>

LEMMA Told ==
    ASSUME ListInv, NEW told, Tells(told)
    PROVE  /\ Sequence(bus) /\ Sequence(calls) /\ Sequence(bus') /\ Len(bus') = Len(bus) + Len(told)
           /\ ToSet(bus') = ToSet(bus) \union ToSet(told) /\ Single(bus')
           /\ \A m \in ToSet(told) : ~Query(m) /\ m.what \notin {"names", "data", "set"}
           /\ UNCHANGED calls /\ UNCHANGED knownNames /\ UNCHANGED shownNames /\ UNCHANGED displayData
           /\ UNCHANGED querying /\ UNCHANGED recheck /\ UNCHANGED changeWatcher /\ UNCHANGED crossed
<1>1. Sequence(bus) /\ Sequence(calls) /\ Single(bus)
  BY DEF ListInv, QueryInv
<1>2. \A m \in ToSet(told) : ~Query(m) /\ m.what \notin {"names", "data", "set"}
  BY DEF Tells, Query
<1>3. /\ UNCHANGED calls /\ UNCHANGED knownNames /\ UNCHANGED shownNames /\ UNCHANGED displayData
      /\ UNCHANGED querying /\ UNCHANGED recheck /\ UNCHANGED changeWatcher /\ UNCHANGED crossed
  BY DEF Tells, applet, model
<1>4. bus' = bus \o told /\ Sequence(told)
  BY DEF Tells
<1> QED BY <1>1, <1>2, <1>3, <1>4, Joined

LEMMA Widened == ASSUME NEW a \in Nat, NEW b \in Nat, a <= b PROVE 1 .. a - 1 \subseteq 1 .. b - 1
OBVIOUS

LEMMA TellsList ==
    ASSUME Sane, ListInv, NEW told, Tells(told)
    PROVE  ListInv'
<1>1. /\ Sequence(bus) /\ Sequence(calls) /\ Sequence(bus')
      /\ ToSet(bus') = ToSet(bus) \union ToSet(told) /\ Single(bus')
      /\ \A m \in ToSet(told) : ~Query(m) /\ m.what \notin {"names", "data", "set"}
      /\ UNCHANGED calls /\ UNCHANGED knownNames /\ UNCHANGED shownNames /\ UNCHANGED displayData
      /\ UNCHANGED querying /\ UNCHANGED recheck
  BY Told
<1>2. /\ nextDisplayIndex \in Nat \ {0} /\ nextDisplayIndex' \in Nat /\ nextDisplayIndex' >= nextDisplayIndex
      /\ GivenNames \subseteq GivenNames'
  <2>1. nextDisplayIndex \in Nat \ {0} /\ nextDisplayIndex' \in Nat /\ nextDisplayIndex' >= nextDisplayIndex
    BY DEF ListInv, NumbersInv, Tells
  <2>2. nextDisplayIndex <= nextDisplayIndex'
    BY <2>1
  <2> QED BY <2>1, <2>2, Widened DEF GivenNames
\* The names of the new displays are new.
<1>3. \A n \in Live' : n \in GivenNames' /\ (n \in Live \/ n \notin GivenNames)
  <2>1. ASSUME NEW o \in DOMAIN tracked', o \in DOMAIN tracked
        PROVE  displayChildren'[o] \in Live /\ displayChildren'[o] \in GivenNames
    BY <2>1 DEF Live, Tells, ListInv, NumbersInv
  <2>2. ASSUME NEW o \in DOMAIN tracked', o \notin DOMAIN tracked
        PROVE  displayChildren'[o] \in GivenNames' /\ displayChildren'[o] \notin GivenNames
    <3>1. displayChildren'[o] \in nextDisplayIndex .. nextDisplayIndex' - 1
      BY <2>2 DEF Tells
    <3> QED BY <1>2, <3>1 DEF GivenNames
  <2> QED BY <1>2, <2>1, <2>2 DEF Live
<1>4. NumbersInv'
  <2>1. \A o \in DOMAIN tracked' : displayChildren'[o] \in GivenNames'
    BY <1>3 DEF Live
  <2>2. \A o, p \in DOMAIN tracked' : displayChildren'[o] = displayChildren'[p] => o = p
    BY DEF Tells
  <2>3. knownNames' \in Seq(Nat) /\ IsInjective(knownNames') /\ ToSet(knownNames') \subseteq GivenNames'
    BY <1>1, <1>2 DEF ListInv, NumbersInv
  <2>4. ASSUME NEW m \in ToSet(bus'), m.what = "names"
        PROVE  /\ m.names \in Seq(Nat) /\ IsInjective(m.names) /\ ToSet(m.names) \subseteq GivenNames'
               /\ Live' \cap ToSet(knownNames') \subseteq ToSet(m.names)
    <3>1. m \in ToSet(bus)
      BY <1>1, <2>4
    <3>2. /\ m.names \in Seq(Nat) /\ IsInjective(m.names) /\ ToSet(m.names) \subseteq GivenNames
          /\ Live \cap ToSet(knownNames) \subseteq ToSet(m.names) /\ ToSet(knownNames) \subseteq GivenNames
      BY <2>4, <3>1 DEF ListInv, NumbersInv
    <3> QED BY <1>1, <1>2, <1>3, <3>2
  <2>5. ASSUME NEW m \in ToSet(bus'), m.what \in {"changed", "set", "data"} PROVE m.name \in GivenNames'
    <3>1. CASE m \in ToSet(bus)
      BY <1>2, <2>5, <3>1 DEF ListInv, NumbersInv
    <3>2. CASE m \in ToSet(told)
      <4>1. m.name \in Live
        BY <2>5, <3>2 DEF Tells
      <4> QED BY <1>2, <4>1 DEF Live, ListInv, NumbersInv
    <3> QED BY <1>1, <3>1, <3>2
  <2>6. \A m \in ToSet(calls') : m.what \in {"set", "data"} => m.name \in GivenNames'
    BY <1>1, <1>2 DEF ListInv, NumbersInv
  <2> QED BY <1>2, <2>1, <2>2, <2>3, <2>4, <2>5, <2>6 DEF NumbersInv
<1>5. QueryInv'
  BY <1>1 DEF ListInv, QueryInv
<1>6. Ahead => Ahead'
  BY <1>1 DEF Ahead
<1>7. NamesInv'
  <2>1. CASE DOMAIN tracked' # DOMAIN tracked
    <3>1. Ahead'
      BY <1>1, <2>1 DEF Ahead, Tells
    <3> QED BY <3>1 DEF NamesInv
  <2>2. CASE DOMAIN tracked' = DOMAIN tracked
    <3>1. Names' = Names
      BY <2>2, SameNames DEF Tells
    <3> QED BY <1>1, <1>6, <3>1 DEF ListInv, NamesInv
  <2> QED BY <2>1, <2>2
<1>8. ShownInv'
  <2>1. \A m \in ToSet(bus') : m.what = "data" /\ m.value = NoValue => Ahead'
    BY <1>1, <1>6 DEF ListInv, ShownInv
  <2> QED BY <1>1, <1>6, <2>1 DEF ListInv, ShownInv
<1>9. SetsInv'
  <2>1. ASSUME NEW n \in Live', NEW m, m \in ToSet(bus') \/ m \in ToSet(calls'), Setting(m, n)
        PROVE  n \in Live /\ (m \in ToSet(bus) \/ m \in ToSet(calls))
    <3>1. m \in ToSet(bus) \/ m \in ToSet(calls)
      BY <1>1, <2>1 DEF Setting
    <3>2. n \in GivenNames
      BY <2>1, <3>1 DEF ListInv, NumbersInv, Setting
    <3> QED BY <1>3, <3>1, <3>2
  <2>2. SetsInv
    BY DEF ListInv
  <2>3. ASSUME NEW n \in Live', n \notin DOMAIN displayData', NEW m \in ToSet(bus') \union ToSet(calls')
        PROVE  ~Setting(m, n)
    BY <1>1, <2>1, <2>2, <2>3 DEF SetsInv
  <2>4. ASSUME NEW n \in Live', NEW m \in ToSet(bus'), Setting(m, n)
        PROVE  m.ok
    <3>1. n \in Live /\ m \in ToSet(bus)
      BY <1>1, <2>1, <2>4 DEF Setting
    <3> QED BY <2>2, <2>4, <3>1 DEF SetsInv
  <2> QED BY <2>3, <2>4 DEF SetsInv
<1> QED BY <1>4, <1>5, <1>7, <1>8, <1>9 DEF ListInv

-----------------------------------------------------------------------------
(* What comes of Fits.                                                     *)

\* It is told of w, or v stays.
LEMMA FitsTold ==
    ASSUME NEW b, NEW t, NEW c, NEW data, NEW n, NEW v, NEW w,
           Sequence(b), Sequence(t), Fits(b, c, data, n, v),
           \A m \in ToSet(t) : ~(m.what = "data" /\ m.name = n) /\ (Changes(m, n) => m.value = w),
           w = v \/ \E m \in ToSet(t) : Changes(m, n)
    PROVE  Fits(b \o t, c, data, n, w)
<1> DEFINE u == b \o t
<1>1. /\ Len(u) = Len(b) + Len(t) /\ Len(b) \in Nat /\ Len(t) \in Nat
      /\ \A i \in 1 .. Len(b) : u[i] = b[i]
      /\ \A i \in 1 .. Len(t) : u[Len(b) + i] = t[i]
  BY Joined, Members
<1> HIDE DEF u
<1>2. \A i \in 1 .. Len(b) : i \in 1 .. Len(u)
  BY <1>1
<1>3. \A i \in 1 .. Len(t) : Len(b) + i \in 1 .. Len(u)
  BY <1>1
<1>4. \A i \in 1 .. Len(u) : i \in 1 .. Len(b) \/ (i > Len(b) /\ u[i] \in ToSet(t))
  <2>1. ASSUME NEW i \in 1 .. Len(u), i \notin 1 .. Len(b) PROVE i > Len(b) /\ u[i] \in ToSet(t)
    <3>1. i > Len(b) /\ i - Len(b) \in 1 .. Len(t) /\ i = Len(b) + (i - Len(b))
      BY <1>1, <2>1
    <3>2. u[i] = t[i - Len(b)]
      BY <1>1, <3>1
    <3> QED BY <3>1, <3>2, Members
  <2> QED BY <2>1
<1>5. CASE Doomed(b, c, n)
  <2>1. Doomed(u, c, n)
    BY <1>1, <1>2, <1>5 DEF Doomed
  <2> QED BY <2>1 DEF Fits, u
<1>6. CASE Agrees(b, c, data, n, v) /\ \E m \in ToSet(t) : Changes(m, n)
  <2>1. PICK i \in 1 .. Len(u) : i > Len(b) /\ Changes(u[i], n)
    <3>1. PICK i \in 1 .. Len(t) : Changes(t[i], n)
      BY <1>6, Members
    <3> QED BY <1>1, <1>3, <3>1
  <2>2. LastHeard(u, n, w)
    BY <1>1, <1>4, <2>1 DEF LastHeard, NoneAfter
  <2>3. n \notin DOMAIN data => LastRead(u, n, w)
    <3>1. ASSUME NEW j \in 1 .. Len(u), u[j].what = "data", u[j].name = n, n \notin DOMAIN data
          PROVE  u[j].value # NoValue /\ ~NoneAfter(u, n, j)
      <4>1. j \in 1 .. Len(b)
        BY <1>4, <3>1
      <4> QED BY <1>1, <1>6, <2>1, <3>1, <4>1 DEF Agrees, LastRead, NoneAfter
    <3> QED BY <3>1 DEF LastRead
  <2>4. ~NoneAfter(u, n, 0)
    BY <2>1 DEF NoneAfter
  <2> QED BY <2>2, <2>3, <2>4 DEF Agrees, Fits, u
<1>7. CASE Agrees(b, c, data, n, v) /\ ~ \E m \in ToSet(t) : Changes(m, n)
  <2>1. w = v /\ \A i \in 1 .. Len(u) : Changes(u[i], n) => i \in 1 .. Len(b)
    BY <1>4, <1>7
  <2>2. \A i \in 1 .. Len(b) : NoneAfter(u, n, i) => NoneAfter(b, n, i)
    BY <1>1, <1>2 DEF NoneAfter
  <2>3. NoneAfter(u, n, 0) => NoneAfter(b, n, 0)
    BY <1>1, <1>2 DEF NoneAfter
  <2>4. LastHeard(u, n, w)
    BY <1>1, <1>7, <2>1, <2>2 DEF Agrees, LastHeard
  <2>5. n \notin DOMAIN data => LastRead(u, n, w)
    BY <1>1, <1>4, <1>7, <2>1, <2>2 DEF Agrees, LastRead
  <2> QED BY <1>7, <2>1, <2>3, <2>4, <2>5 DEF Agrees, Fits, u
<1> QED BY <1>5, <1>6, <1>7 DEF Fits

\* Nothing is known of it yet.
LEMMA FitsNew ==
    ASSUME NEW b, NEW c, NEW data, NEW n, NEW v, Sequence(b), n \notin DOMAIN data,
           \A m \in ToSet(b) : m.what \in {"changed", "data"} => m.name # n
    PROVE  Fits(b, c, data, n, v)
<1>1. \A i \in 1 .. Len(b) : b[i].what \in {"changed", "data"} => b[i].name # n
  BY Members
<1> QED BY <1>1 DEF Fits, Agrees, LastHeard, LastRead, Changes

\* Another message to the applet, which does not change it.
LEMMA FitsAdded ==
    ASSUME NEW b, NEW m, NEW c, NEW data, NEW n, NEW v, Sequence(b), Fits(b, c, data, n, v),
           ~Changes(m, n), m.what = "data" /\ m.name = n => m.value = v /\ v # NoValue
    PROVE  Fits(Append(b, m), c, data, n, v)
<1> DEFINE u == Append(b, m)
<1>1. /\ Len(u) = Len(b) + 1 /\ Len(b) \in Nat
      /\ \A i \in 1 .. Len(b) : u[i] = b[i]
      /\ u[Len(b) + 1] = m
  BY Added, Members
<1> HIDE DEF u
<1>2. \A i \in 1 .. Len(b) : i \in 1 .. Len(u)
  BY <1>1
<1>3. \A i \in 1 .. Len(u) : i \in 1 .. Len(b) \/ u[i] = m
  BY <1>1
<1>4. CASE Doomed(b, c, n)
  <2>1. Doomed(u, c, n)
    BY <1>1, <1>2, <1>4 DEF Doomed
  <2> QED BY <2>1 DEF Fits, u
<1>5. CASE Agrees(b, c, data, n, v)
  <2>2. \A i \in 1 .. Len(b) : NoneAfter(u, n, i) => NoneAfter(b, n, i)
    BY <1>1, <1>2 DEF NoneAfter
  <2>3. NoneAfter(u, n, 0) => NoneAfter(b, n, 0)
    BY <1>1, <1>2 DEF NoneAfter
  <2>4. LastHeard(u, n, v)
    BY <1>1, <1>3, <1>5, <2>2 DEF Agrees, LastHeard
  <2>5. n \notin DOMAIN data => LastRead(u, n, v)
    BY <1>1, <1>3, <1>5, <2>2 DEF Agrees, LastRead
  <2> QED BY <1>5, <2>3, <2>4, <2>5 DEF Agrees, Fits, u
<1> QED BY <1>4, <1>5 DEF Fits

\* It reads a message that does not change it.
LEMMA FitsTaken ==
    ASSUME NEW b, NEW c, NEW data, NEW n, NEW v, Sequence(b), b # <<>>, Fits(b, c, data, n, v),
           ~Changes(b[1], n)
    PROVE  Fits(Tail(b), c, data, n, v)
<1> DEFINE u == Tail(b)
<1>1. /\ Len(u) = Len(b) - 1 /\ Len(b) \in Nat \ {0}
      /\ \A i \in 1 .. Len(u) : u[i] = b[i + 1] /\ i + 1 \in 1 .. Len(b)
  BY Taken
<1> HIDE DEF u
<1>2. \A i \in 1 .. Len(b) : i = 1 \/ (i - 1 \in 1 .. Len(u) /\ u[i - 1] = b[i])
  BY <1>1
<1>3. CASE Doomed(b, c, n)
  <2>1. PICK i \in 1 .. Len(b) : /\ Changes(b[i], n)
                           /\ \/ \E k \in 1 .. Len(c) : Setting(c[k], n)
                              \/ \E j \in 1 .. Len(b) : j > i /\ Setting(b[j], n)
    BY <1>3 DEF Doomed
  <2>2. i - 1 \in 1 .. Len(u) /\ Changes(u[i - 1], n)
    BY <1>2, <2>1
  <2>3. ASSUME NEW j \in 1 .. Len(b), j > i, Setting(b[j], n) PROVE \E k \in 1 .. Len(u) : k > i - 1 /\ Setting(u[k], n)
    <3>1. j - 1 \in 1 .. Len(u) /\ u[j - 1] = b[j] /\ j - 1 > i - 1
      BY <1>1, <1>2, <2>3
    <3> QED BY <2>3, <3>1
  <2>4. Doomed(u, c, n)
    BY <2>1, <2>2, <2>3 DEF Doomed
  <2> QED BY <2>4 DEF Fits, u
<1>4. CASE Agrees(b, c, data, n, v)
  <2>1. ASSUME NEW i \in 1 .. Len(u), NoneAfter(u, n, i) PROVE NoneAfter(b, n, i + 1)
    <3>1. ASSUME NEW j \in 1 .. Len(b), j > i + 1 PROVE ~Changes(b[j], n)
      <4>1. j - 1 \in 1 .. Len(u) /\ u[j - 1] = b[j] /\ j - 1 > i
        BY <1>1, <1>2, <3>1
      <4> QED BY <2>1, <4>1 DEF NoneAfter
    <3> QED BY <3>1 DEF NoneAfter
  <2>2. ASSUME NoneAfter(u, n, 0) PROVE NoneAfter(b, n, 0)
    <3>1. ASSUME NEW j \in 1 .. Len(b) PROVE ~Changes(b[j], n)
      <4>1. CASE j = 1
        BY <4>1
      <4>2. CASE j # 1
        <5>1. j - 1 \in 1 .. Len(u) /\ u[j - 1] = b[j] /\ j - 1 > 0
          BY <1>1, <1>2, <4>2
        <5> QED BY <2>2, <5>1 DEF NoneAfter
      <4> QED BY <4>1, <4>2
    <3> QED BY <3>1 DEF NoneAfter
  <2>3. LastHeard(u, n, v)
    BY <1>1, <1>4, <2>1 DEF Agrees, LastHeard
  <2>4. n \notin DOMAIN data => LastRead(u, n, v)
    BY <1>1, <1>4, <2>1 DEF Agrees, LastRead
  <2> QED BY <1>4, <2>2, <2>3, <2>4 DEF Agrees, Fits, u
<1> QED BY <1>3, <1>4 DEF Fits

\* It reads the change, while it has asked for none itself.
LEMMA FitsHeard ==
    ASSUME NEW b, NEW c, NEW data, NEW d, NEW n, NEW v, Sequence(b), Sequence(c), b # <<>>,
           Fits(b, c, data, n, v), Changes(b[1], n),
           \A m \in ToSet(b) \union ToSet(c) : ~Setting(m, n),
           n \in DOMAIN d <=> n \in DOMAIN data, n \in DOMAIN d => d[n] = b[1].value
    PROVE  Fits(Tail(b), c, d, n, v)
<1> DEFINE u == Tail(b)
<1>1. /\ Len(u) = Len(b) - 1 /\ Len(b) \in Nat \ {0}
      /\ \A i \in 1 .. Len(u) : u[i] = b[i + 1] /\ i + 1 \in 1 .. Len(b)
  BY Taken
<1> HIDE DEF u
<1>2. \A i \in 1 .. Len(b) : i = 1 \/ (i - 1 \in 1 .. Len(u) /\ u[i - 1] = b[i])
  BY <1>1
<1>3. (\A i \in 1 .. Len(b) : ~Setting(b[i], n)) /\ \A i \in 1 .. Len(c) : ~Setting(c[i], n)
  BY Members
<1>4. Agrees(b, c, data, n, v)
  BY <1>3 DEF Fits, Doomed
<1>5. ASSUME NEW i \in 1 .. Len(u), NoneAfter(u, n, i) PROVE NoneAfter(b, n, i + 1)
  <2>1. ASSUME NEW j \in 1 .. Len(b), j > i + 1 PROVE ~Changes(b[j], n)
    <3>1. j - 1 \in 1 .. Len(u) /\ u[j - 1] = b[j] /\ j - 1 > i
      BY <1>1, <1>2, <2>1
    <3> QED BY <1>5, <3>1 DEF NoneAfter
  <2> QED BY <2>1 DEF NoneAfter
<1>6. ASSUME NoneAfter(u, n, 0) PROVE b[1].value = v
  <2>1. ASSUME NEW j \in 1 .. Len(b), j > 1 PROVE ~Changes(b[j], n)
    <3>1. j - 1 \in 1 .. Len(u) /\ u[j - 1] = b[j] /\ j - 1 > 0
      BY <1>1, <1>2, <2>1
    <3> QED BY <1>6, <3>1 DEF NoneAfter
  <2>2. NoneAfter(b, n, 1) /\ 1 \in 1 .. Len(b)
    BY <1>1, <2>1 DEF NoneAfter
  <2> QED BY <1>4, <2>2 DEF Agrees, LastHeard
<1>7. LastHeard(u, n, v)
  BY <1>1, <1>4, <1>5 DEF Agrees, LastHeard
<1>8. n \notin DOMAIN d => LastRead(u, n, v)
  BY <1>1, <1>4, <1>5 DEF Agrees, LastRead
<1>9. n \in DOMAIN d /\ NoneAfter(u, n, 0) => Displayed(c, d[n], n, v)
  BY <1>3, <1>6 DEF Displayed, LastSet
<1> QED BY <1>7, <1>8, <1>9 DEF Agrees, Fits, u

\* It reads the data it had not.
LEMMA FitsRead ==
    ASSUME NEW b, NEW c, NEW data, NEW d, NEW n, NEW v, Sequence(b), Sequence(c), b # <<>>,
           Fits(b, c, data, n, v), b[1].what = "data", b[1].name = n, n \notin DOMAIN data,
           \A m \in ToSet(b) \union ToSet(c) : ~Setting(m, n),
           b[1].value # NoValue => n \in DOMAIN d /\ d[n] = b[1].value
    PROVE  Fits(Tail(b), c, d, n, v)
<1> DEFINE u == Tail(b)
<1>1. /\ Len(u) = Len(b) - 1 /\ Len(b) \in Nat \ {0}
      /\ \A i \in 1 .. Len(u) : u[i] = b[i + 1] /\ i + 1 \in 1 .. Len(b)
  BY Taken
<1> HIDE DEF u
<1>2. \A i \in 1 .. Len(b) : i = 1 \/ (i - 1 \in 1 .. Len(u) /\ u[i - 1] = b[i])
  BY <1>1
<1>3. (\A i \in 1 .. Len(b) : ~Setting(b[i], n)) /\ \A i \in 1 .. Len(c) : ~Setting(c[i], n)
  BY Members
<1>4. Agrees(b, c, data, n, v)
  BY <1>3 DEF Fits, Doomed
<1>5. ASSUME NEW i \in 1 .. Len(u), NoneAfter(u, n, i) PROVE NoneAfter(b, n, i + 1)
  <2>1. ASSUME NEW j \in 1 .. Len(b), j > i + 1 PROVE ~Changes(b[j], n)
    <3>1. j - 1 \in 1 .. Len(u) /\ u[j - 1] = b[j] /\ j - 1 > i
      BY <1>1, <1>2, <2>1
    <3> QED BY <1>5, <3>1 DEF NoneAfter
  <2> QED BY <2>1 DEF NoneAfter
<1>6. 1 \in 1 .. Len(b) /\ b[1].value # NoValue /\ n \in DOMAIN d /\ d[n] = b[1].value
  BY <1>1, <1>4 DEF Agrees, LastRead
<1>7. ASSUME NoneAfter(u, n, 0) PROVE b[1].value = v
  <2>1. ASSUME NEW j \in 1 .. Len(b), j > 1 PROVE ~Changes(b[j], n)
    <3>1. j - 1 \in 1 .. Len(u) /\ u[j - 1] = b[j] /\ j - 1 > 0
      BY <1>1, <1>2, <2>1
    <3> QED BY <1>7, <3>1 DEF NoneAfter
  <2>2. NoneAfter(b, n, 1)
    BY <1>1, <2>1 DEF NoneAfter
  <2> QED BY <1>4, <1>6, <2>2 DEF Agrees, LastRead
<1>8. LastHeard(u, n, v)
  BY <1>1, <1>4, <1>5 DEF Agrees, LastHeard
<1>9. NoneAfter(u, n, 0) => Displayed(c, d[n], n, v)
  BY <1>3, <1>6, <1>7 DEF Displayed, LastSet
<1> QED BY <1>6, <1>8, <1>9 DEF Agrees, Fits, u

\* Its list changes, and keeps what it shows of the display.
LEMMA FitsListed ==
    ASSUME NEW b, NEW c, NEW data, NEW d, NEW n, NEW v, Fits(b, c, data, n, v),
           n \in DOMAIN d <=> n \in DOMAIN data, n \in DOMAIN d => d[n] = data[n]
    PROVE  Fits(b, c, d, n, v)
BY DEF Fits, Agrees

\* It asks for something else.
LEMMA FitsAsked ==
    ASSUME NEW b, NEW c, NEW data, NEW n, NEW v, NEW m, Sequence(c), Fits(b, c, data, n, v),
           ~Setting(m, n)
    PROVE  Fits(b, Append(c, m), data, n, v)
<1> DEFINE u == Append(c, m)
<1>1. /\ Len(u) = Len(c) + 1 /\ Len(c) \in Nat
      /\ \A i \in 1 .. Len(c) : u[i] = c[i]
      /\ u[Len(c) + 1] = m
  BY Added, Members
<1> HIDE DEF u
<1>2. \A i \in 1 .. Len(c) : i \in 1 .. Len(u)
  BY <1>1
<1>3. \A i \in 1 .. Len(u) : i \in 1 .. Len(c) \/ u[i] = m
  BY <1>1
<1>4. Doomed(b, c, n) => Doomed(b, u, n)
  BY <1>1, <1>2 DEF Doomed
<1>5. ASSUME NEW x, Displayed(c, x, n, v) PROVE Displayed(u, x, n, v)
  <2>1. \A k \in 1 .. Len(u) : LastSet(u, n, k) => k \in 1 .. Len(c) /\ LastSet(c, n, k) /\ u[k] = c[k]
    BY <1>1, <1>2, <1>3 DEF LastSet
  <2> QED BY <1>1, <1>2, <1>5, <2>1 DEF Displayed
<1> QED BY <1>4, <1>5 DEF Fits, Agrees, u

\* It asks for a value, and shows it.
LEMMA FitsSet ==
    ASSUME NEW b, NEW c, NEW data, NEW d, NEW n, NEW v, NEW m, Sequence(c), Fits(b, c, data, n, v),
           Setting(m, n), n \in DOMAIN data, n \in DOMAIN d, d[n] = m.value
    PROVE  Fits(b, Append(c, m), d, n, v)
<1> DEFINE u == Append(c, m)
<1>1. /\ Len(u) = Len(c) + 1 /\ Len(c) \in Nat
      /\ \A i \in 1 .. Len(c) : u[i] = c[i]
      /\ u[Len(c) + 1] = m /\ Len(c) + 1 \in 1 .. Len(u)
  BY Added, Members
<1> HIDE DEF u
<1>2. CASE \E i \in 1 .. Len(b) : Changes(b[i], n)
  BY <1>1, <1>2 DEF Doomed, Fits, u
<1>3. CASE ~ \E i \in 1 .. Len(b) : Changes(b[i], n)
  <2>1. LastHeard(b, n, v)
    BY <1>3 DEF LastHeard
  <2>2. \A k \in 1 .. Len(u) : LastSet(u, n, k) => u[k] = m
    <3>1. ASSUME NEW k \in 1 .. Len(u), LastSet(u, n, k) PROVE k = Len(c) + 1
      BY <1>1, <3>1 DEF LastSet
    <3> QED BY <1>1, <3>1
  <2>3. Displayed(u, d[n], n, v)
    BY <1>1, <2>2 DEF Displayed
  <2> QED BY <2>1, <2>3 DEF Fits, Agrees, u
<1> QED BY <1>2, <1>3

\* The daemon takes up a call that does not set it.
LEMMA FitsServed ==
    ASSUME NEW b, NEW c, NEW data, NEW n, NEW v, Sequence(c), c # <<>>, Fits(b, c, data, n, v),
           ~Setting(c[1], n)
    PROVE  Fits(b, Tail(c), data, n, v)
<1> DEFINE u == Tail(c)
<1>1. /\ Len(u) = Len(c) - 1 /\ Len(c) \in Nat \ {0}
      /\ \A i \in 1 .. Len(u) : u[i] = c[i + 1] /\ i + 1 \in 1 .. Len(c)
  BY Taken
<1> HIDE DEF u
<1>2. \A i \in 1 .. Len(c) : i = 1 \/ (i - 1 \in 1 .. Len(u) /\ u[i - 1] = c[i])
  BY <1>1
<1>3. ASSUME NEW i \in 1 .. Len(c), Setting(c[i], n) PROVE i - 1 \in 1 .. Len(u) /\ u[i - 1] = c[i]
  BY <1>2, <1>3
<1>4. Doomed(b, c, n) => Doomed(b, u, n)
  BY <1>3 DEF Doomed
<1>5. ASSUME NEW x, Displayed(c, x, n, v) PROVE Displayed(u, x, n, v)
  <2>1. ASSUME NEW k \in 1 .. Len(u), LastSet(u, n, k) PROVE LastSet(c, n, k + 1) /\ k + 1 \in 1 .. Len(c) /\ u[k] = c[k + 1]
    <3>1. ASSUME NEW j \in 1 .. Len(c), j > k + 1 PROVE ~Setting(c[j], n)
      <4>1. j - 1 \in 1 .. Len(u) /\ u[j - 1] = c[j] /\ j - 1 > k
        BY <1>1, <1>2, <3>1
      <4> QED BY <2>1, <4>1 DEF LastSet
    <3> QED BY <1>1, <2>1, <3>1 DEF LastSet
  <2>2. (\A k \in 1 .. Len(u) : ~Setting(u[k], n)) => \A k \in 1 .. Len(c) : ~Setting(c[k], n)
    BY <1>3
  <2> QED BY <1>5, <2>1, <2>2 DEF Displayed
<1> QED BY <1>4, <1>5 DEF Fits, Agrees, u

\* The daemon sets it.
LEMMA FitsChanged ==
    ASSUME NEW b, NEW t, NEW c, NEW data, NEW n, NEW v, NEW w, NEW m, Sequence(b), Sequence(t),
           Sequence(c), c # <<>>, Fits(b, c, data, n, v),
           Setting(c[1], n), c[1].value = w, Setting(m, n), n \in DOMAIN data,
           \A k \in ToSet(t) : ~Changes(k, n)
    PROVE  Fits(Append(b \o t, m), Tail(c), data, n, w)
<1> DEFINE u == Append(b \o t, m)
           l == Tail(c)
<1>1. /\ Len(u) = Len(b) + Len(t) + 1 /\ Len(b) \in Nat /\ Len(t) \in Nat
      /\ \A i \in 1 .. Len(b) : u[i] = b[i]
      /\ \A i \in 1 .. Len(t) : u[Len(b) + i] = t[i]
      /\ u[Len(u)] = m
  <2>1. /\ Sequence(b \o t) /\ Len(b \o t) = Len(b) + Len(t) /\ Len(b) \in Nat /\ Len(t) \in Nat
        /\ \A i \in 1 .. Len(b) : (b \o t)[i] = b[i]
        /\ \A i \in 1 .. Len(t) : (b \o t)[Len(b) + i] = t[i]
    BY Joined, Members
  <2>2. /\ Len(u) = Len(b \o t) + 1 /\ \A i \in 1 .. Len(b \o t) : u[i] = (b \o t)[i]
        /\ u[Len(b \o t) + 1] = m
    BY <2>1, Added
  <2>3. (\A i \in 1 .. Len(b) : i \in 1 .. Len(b \o t)) /\ \A i \in 1 .. Len(t) : Len(b) + i \in 1 .. Len(b \o t)
    BY <2>1
  <2> QED BY <2>1, <2>2, <2>3
<1>2. /\ Len(l) = Len(c) - 1 /\ Len(c) \in Nat \ {0}
      /\ \A i \in 1 .. Len(l) : l[i] = c[i + 1] /\ i + 1 \in 1 .. Len(c)
  BY Taken
<1> HIDE DEF u, l
<1>3. 1 \in 1 .. Len(c) /\ Len(u) \in 1 .. Len(u) /\ \A i \in 1 .. Len(b) : i \in 1 .. Len(u) /\ Len(u) > i
  BY <1>1, <1>2
<1>4. CASE \E i \in 1 .. Len(b) : Changes(b[i], n)
  <2>1. Doomed(u, l, n)
    BY <1>1, <1>3, <1>4 DEF Doomed
  <2> QED BY <2>1 DEF Fits, u, l
<1>5. CASE ~ \E i \in 1 .. Len(b) : Changes(b[i], n)
  <2>1. \A i \in 1 .. Len(u) : ~Changes(u[i], n)
    <3>1. ASSUME NEW i \in 1 .. Len(u), Changes(u[i], n) PROVE FALSE
      <4>1. i \notin 1 .. Len(b)
        BY <1>1, <1>5, <3>1
      <4>2. i # Len(u)
        BY <1>1, <3>1 DEF Changes, Setting
      <4>3. i - Len(b) \in 1 .. Len(t) /\ i = Len(b) + (i - Len(b))
        BY <1>1, <4>1, <4>2
      <4>4. u[i] = t[i - Len(b)]
        BY <1>1, <4>3
      <4>5. u[i] \in ToSet(t)
        BY <4>3, <4>4, Members
      <4> QED BY <3>1, <4>5
    <3> QED BY <3>1
  <2>2. LastHeard(u, n, w)
    BY <2>1 DEF LastHeard
  <2>3. Displayed(c, data[n], n, v)
    BY <1>5 DEF Fits, Doomed, Agrees, NoneAfter
  <2>4. ASSUME \A k \in 1 .. Len(l) : ~Setting(l[k], n) PROVE data[n] = w
    <3>1. ASSUME NEW j \in 1 .. Len(c), j > 1 PROVE ~Setting(c[j], n)
      <4>1. j - 1 \in 1 .. Len(l) /\ l[j - 1] = c[(j - 1) + 1] /\ (j - 1) + 1 = j
        BY <1>2, <3>1
      <4> QED BY <2>4, <4>1
    <3>2. LastSet(c, n, 1)
      BY <3>1 DEF LastSet
    <3> QED BY <1>3, <2>3, <3>2 DEF Displayed
  <2>5. ASSUME NEW k \in 1 .. Len(l), LastSet(l, n, k) PROVE l[k].value = data[n]
    <3>1. ASSUME NEW j \in 1 .. Len(c), j > k + 1 PROVE ~Setting(c[j], n)
      <4>1. j - 1 \in 1 .. Len(l) /\ l[j - 1] = c[(j - 1) + 1] /\ (j - 1) + 1 = j /\ j - 1 > k
        BY <1>2, <3>1
      <4> QED BY <2>5, <4>1 DEF LastSet
    <3>2. LastSet(c, n, k + 1) /\ k + 1 \in 1 .. Len(c) /\ l[k] = c[k + 1]
      BY <1>2, <2>5, <3>1 DEF LastSet
    <3> QED BY <2>3, <3>2 DEF Displayed
  <2>6. Displayed(l, data[n], n, w)
    BY <2>4, <2>5 DEF Displayed
  <2> QED BY <2>2, <2>6 DEF Fits, Agrees, u, l
<1> QED BY <1>4, <1>5

-----------------------------------------------------------------------------
(* The applet reads and asks.                                              *)

LEMMA ReadsFirst ==
    ASSUME ListInv, NEW what, Reads(what)
    PROVE  /\ Sequence(bus) /\ bus # <<>> /\ bus' = Tail(bus)
           /\ Sequence(bus') /\ Single(bus') /\ ToSet(bus) = ToSet(bus') \union {bus[1]}
           /\ bus[1].what = what
           /\ Query(bus[1]) => /\ \A m \in ToSet(bus') \union ToSet(calls) : ~Query(m)
                               /\ bus[1].what = querying.for
                               /\ bus[1].what = "data" => bus[1].name = querying.todo[1]
<1>1. /\ Sequence(bus) /\ Single(bus) /\ bus # <<>> /\ bus' = Tail(bus) /\ bus[1].what = what
  BY DEF ListInv, QueryInv, Reads
<1>2. /\ Sequence(bus') /\ Single(bus') /\ ToSet(bus) = ToSet(bus') \union {bus[1]}
      /\ Query(bus[1]) => \A m \in ToSet(bus') : ~Query(m)
  BY <1>1, Taken
<1>3. bus[1] \in ToSet(bus)
  BY <1>2
<1> QED BY <1>1, <1>2, <1>3 DEF ListInv, QueryInv

LEMMA ServedLeaves ==
    ASSUME UNCHANGED served
    PROVE  /\ UNCHANGED tracked /\ UNCHANGED displayChildren /\ UNCHANGED nextDisplayIndex
           /\ UNCHANGED overlapped
           /\ Names' = Names /\ Live' = Live /\ GivenNames' = GivenNames
<1>1. /\ UNCHANGED tracked /\ UNCHANGED displayChildren /\ UNCHANGED nextDisplayIndex
      /\ UNCHANGED overlapped
  BY DEF served, controller
<1> QED BY <1>1 DEF Names, Ids, Live, GivenNames

\* It reads what is neither an answer nor news of the displays.
LEMMA TakingList ==
    ASSUME ListInv, NEW what \in {"changed", "set"}, Reads(what),
           UNCHANGED <<served, calls, knownNames, shownNames, querying, recheck>>,
           DOMAIN displayData' = DOMAIN displayData
    PROVE  ListInv'
<1>1. /\ UNCHANGED calls /\ UNCHANGED knownNames /\ UNCHANGED shownNames /\ UNCHANGED querying
      /\ UNCHANGED recheck /\ Names' = Names /\ Live' = Live /\ GivenNames' = GivenNames
      /\ UNCHANGED tracked /\ UNCHANGED displayChildren /\ UNCHANGED nextDisplayIndex
  BY ServedLeaves
<1>2. /\ Sequence(bus') /\ Single(bus') /\ ToSet(bus) = ToSet(bus') \union {bus[1]}
      /\ bus[1].what = what /\ what \notin {"names", "data", "propertiesChanged"} /\ ~Query(bus[1])
  BY ReadsFirst DEF Query
<1>3. Ahead' <=> Ahead
  BY <1>1, <1>2 DEF Ahead
<1>4. NumbersInv'
  BY <1>1, <1>2 DEF ListInv, NumbersInv
<1>5. QueryInv'
  BY <1>1, <1>2 DEF ListInv, QueryInv
<1>6. NamesInv'
  BY <1>1, <1>2, <1>3 DEF ListInv, NamesInv
<1>7. ShownInv'
  BY <1>1, <1>2, <1>3 DEF ListInv, ShownInv
<1>8. SetsInv'
  BY <1>1, <1>2 DEF ListInv, SetsInv
<1> QED BY <1>4, <1>5, <1>6, <1>7, <1>8 DEF ListInv

LEMMA PropertiesList ==
    ASSUME ListInv, onGlobalPropertiesChanged
    PROVE  ListInv'
<1>0. Reads("propertiesChanged") /\ QueryDisplays /\ UNCHANGED <<served, model, changeWatcher, crossed>>
  BY DEF onGlobalPropertiesChanged
<1>1. /\ UNCHANGED knownNames /\ UNCHANGED shownNames /\ UNCHANGED displayData
      /\ Names' = Names /\ Live' = Live /\ GivenNames' = GivenNames
      /\ UNCHANGED tracked /\ UNCHANGED displayChildren /\ UNCHANGED nextDisplayIndex
  BY <1>0, ServedLeaves DEF model
<1>2. /\ Sequence(bus') /\ Single(bus') /\ ToSet(bus) = ToSet(bus') \union {bus[1]}
      /\ bus[1].what = "propertiesChanged" /\ ~Query(bus[1])
  BY <1>0, ReadsFirst DEF Query
<1>3. CASE querying.for # "nothing"
  <2>1. recheck' = TRUE /\ UNCHANGED querying /\ UNCHANGED calls
    BY <1>0, <1>3 DEF QueryDisplays
  <2>2. Ahead'
    BY <2>1 DEF Ahead
  <2>3. NumbersInv'
    BY <1>1, <1>2, <2>1 DEF ListInv, NumbersInv
  <2>4. QueryInv'
    BY <1>1, <1>2, <1>3, <2>1 DEF ListInv, QueryInv
  <2>5. NamesInv'
    BY <2>2 DEF NamesInv
  <2>6. ShownInv'
    BY <1>1, <1>2, <2>2 DEF ListInv, ShownInv
  <2>7. SetsInv'
    BY <1>1, <1>2, <2>1 DEF ListInv, SetsInv
  <2> QED BY <2>3, <2>4, <2>5, <2>6, <2>7 DEF ListInv
<1>4. CASE querying.for = "nothing"
  <2>1. /\ recheck' = FALSE /\ querying' = [Idle EXCEPT !.for = "names"]
        /\ calls' = Append(calls, [what |-> "names"])
    BY <1>0, <1>4 DEF QueryDisplays
  <2>2. querying'.for = "names"
    BY <2>1 DEF Idle
  <2>3. \A m \in ToSet(bus) \union ToSet(calls) : ~Query(m)
    BY <1>4 DEF ListInv, QueryInv, Query
  <2>4. /\ Sequence(calls') /\ Single(calls')
        /\ ToSet(calls') = ToSet(calls) \union {[what |-> "names"]}
    BY <2>1, <2>3, Added DEF ListInv, QueryInv
  <2>5. [what |-> "names"].what = "names" /\ Query([what |-> "names"])
    BY DEF Query
  <2>6. NumbersInv'
    BY <1>1, <1>2, <2>4, <2>5 DEF ListInv, NumbersInv
  <2>7. QueryInv'
    BY <1>1, <1>2, <2>1, <2>2, <2>3, <2>4, <2>5 DEF QueryInv
  <2>8. NamesInv'
    BY <2>4, <2>5 DEF NamesInv
  <2>9. ShownInv'
    <3>1. \A m \in ToSet(bus') : m.what # "data"
      BY <1>2, <2>3 DEF Query
    <3> QED BY <1>1, <2>2, <3>1 DEF ListInv, ShownInv
  <2>10. SetsInv'
    BY <1>1, <1>2, <2>4, <2>5 DEF ListInv, SetsInv, Setting
  <2> QED BY <2>6, <2>7, <2>8, <2>9, <2>10 DEF ListInv
<1> QED BY <1>3, <1>4

\* It goes on to ask, having read an answer.
LEMMA AskingOn ==
    ASSUME Sequence(bus'), Sequence(calls), Single(bus'), Single(calls),
           \A m \in ToSet(bus') \union ToSet(calls) : ~Query(m),
           NEW todo \in Seq(Nat), IsInjective(todo),
           ToSet(todo) \subseteq ToSet(knownNames') \ DOMAIN displayData',
           ToSet(knownNames') \subseteq GivenNames',
           recheck \in BOOLEAN, AskOn(todo)
    PROVE  /\ QueryInv'
           /\ \A m \in ToSet(calls') : m \in ToSet(calls) \/ m.what = "names" \/ (m.what = "data" /\ m.name \in GivenNames')
           /\ \/ querying'.for = "names" /\ \E m \in ToSet(calls') : m.what = "names"
              \/ querying'.for = "data" /\ querying'.todo = todo /\ recheck' = recheck
              \/ querying'.for = "nothing" /\ todo = <<>> /\ recheck' = recheck
<1>1. CASE todo # <<>>
  <2> DEFINE m == [what |-> "data", name |-> todo[1]]
  <2>1. querying' = [for |-> "data", todo |-> todo] /\ UNCHANGED recheck /\ calls' = Append(calls, m)
    BY <1>1 DEF AskOn
  <2>2. m.what = "data" /\ m.name = todo[1] /\ Query(m)
    BY DEF Query
  <2> HIDE DEF m
  <2>3. Sequence(calls') /\ Single(calls') /\ ToSet(calls') = ToSet(calls) \union {m}
    BY <2>1, Added
  <2>4. todo[1] \in GivenNames'
    <3>1. 1 \in DOMAIN todo
      BY <1>1
    <3>2. todo[1] \in ToSet(todo)
      BY <3>1 DEF ToSet
    <3> QED BY <3>2
  <2>5. querying'.for = "data" /\ querying'.todo = todo
    BY <2>1
  <2>6. QueryInv'
    BY <1>1, <2>1, <2>2, <2>3, <2>5 DEF QueryInv
  <2> QED BY <2>1, <2>2, <2>3, <2>4, <2>5, <2>6
<1>2. CASE todo = <<>> /\ recheck
  <2> DEFINE m == [what |-> "names"]
  <2>1. querying' = [Idle EXCEPT !.for = "names"] /\ recheck' = FALSE /\ calls' = Append(calls, m)
    BY <1>2 DEF AskOn
  <2>2. m.what = "names" /\ Query(m)
    BY DEF Query
  <2> HIDE DEF m
  <2>3. Sequence(calls') /\ Single(calls') /\ ToSet(calls') = ToSet(calls) \union {m}
    BY <2>1, Added
  <2>4. querying'.for = "names"
    BY <2>1 DEF Idle
  <2>5. QueryInv'
    BY <2>1, <2>2, <2>3, <2>4 DEF QueryInv
  <2> QED BY <2>2, <2>3, <2>4, <2>5
<1>3. CASE todo = <<>> /\ ~recheck
  <2>1. querying' = Idle /\ UNCHANGED recheck /\ UNCHANGED calls
    BY <1>3 DEF AskOn
  <2>2. querying'.for = "nothing"
    BY <2>1 DEF Idle
  <2>3. QueryInv'
    BY <1>3, <2>1, <2>2 DEF QueryInv
  <2> QED BY <1>3, <2>1, <2>2, <2>3
<1> QED BY <1>1, <1>2, <1>3

LEMMA ReadNamesList ==
    ASSUME ListInv, ReadNames
    PROVE  /\ ListInv'
           /\ UNCHANGED served /\ UNCHANGED crossed /\ bus # <<>> /\ bus' = Tail(bus) /\ bus[1].what = "names"
           /\ \A m \in ToSet(calls') : m \in ToSet(calls) \/ m.what # "set"
           /\ \A n \in Live : /\ n \in DOMAIN displayData' <=> n \in DOMAIN displayData
                              /\ n \in DOMAIN displayData => displayData'[n] = displayData[n]
<1> DEFINE reply == bus[1]
           known == reply.names
           todo == Missing(known, displayData')
<1>1. /\ Reads("names") /\ modelBecomes(known, displayData) /\ AskOn(todo)
      /\ UNCHANGED served /\ UNCHANGED crossed
  BY DEF ReadNames
<1>2. /\ Names' = Names /\ Live' = Live /\ GivenNames' = GivenNames
      /\ UNCHANGED tracked /\ UNCHANGED displayChildren /\ UNCHANGED nextDisplayIndex
  BY <1>1, ServedLeaves
<1>3. /\ bus # <<>> /\ bus' = Tail(bus)
      /\ Sequence(bus') /\ Single(bus') /\ ToSet(bus) = ToSet(bus') \union {reply}
      /\ reply.what = "names" /\ querying.for = "names"
      /\ \A m \in ToSet(bus') \union ToSet(calls) : ~Query(m)
  BY <1>1, ReadsFirst DEF Query
<1> HIDE DEF reply
<1>4. /\ known \in Seq(Nat) /\ IsInjective(known) /\ ToSet(known) \subseteq GivenNames
      /\ Live \cap ToSet(knownNames) \subseteq ToSet(known)
      /\ shownNames \in Seq(Nat) /\ DOMAIN displayData \subseteq ToSet(knownNames)
  BY <1>3 DEF ListInv, NumbersInv, ShownInv
<1> HIDE DEF known
<1>5. /\ knownNames' = known
      /\ DOMAIN displayData' = DOMAIN displayData \cap ToSet(known)
      /\ \A n \in DOMAIN displayData' : displayData'[n] = displayData[n]
      /\ shownNames' \in Seq(Nat)
      /\ ToSet(shownNames') \subseteq DOMAIN displayData'
      /\ ToSet(known) \subseteq DOMAIN displayData' => shownNames' = known
  BY <1>1, <1>4, ModelShows
<1>6. todo \in Seq(Nat) /\ ToSet(todo) = ToSet(known) \ DOMAIN displayData' /\ IsInjective(todo)
  BY <1>4, MissingLists
<1> HIDE DEF todo
<1>7. /\ QueryInv'
      /\ \A m \in ToSet(calls') : m \in ToSet(calls) \/ m.what = "names" \/ (m.what = "data" /\ m.name \in GivenNames')
      /\ \/ querying'.for = "names" /\ \E m \in ToSet(calls') : m.what = "names"
         \/ querying'.for = "data" /\ querying'.todo = todo /\ recheck' = recheck
         \/ querying'.for = "nothing" /\ todo = <<>> /\ recheck' = recheck
  <2>1. ToSet(todo) \subseteq ToSet(knownNames') \ DOMAIN displayData' /\ ToSet(knownNames') \subseteq GivenNames'
    BY <1>2, <1>4, <1>5, <1>6
  <2>2. Sequence(calls) /\ Single(calls) /\ recheck \in BOOLEAN
    BY DEF ListInv, QueryInv
  <2> QED BY <1>1, <1>3, <1>6, <2>1, <2>2, AskingOn
<1>8. NumbersInv'
  <2>1. \A m \in ToSet(bus') : m.what # "names"
    BY <1>3 DEF Query
  <2>2. knownNames' \in Seq(Nat) /\ IsInjective(knownNames') /\ ToSet(knownNames') \subseteq GivenNames'
    BY <1>2, <1>4, <1>5
  <2>3. \A m \in ToSet(calls') : m.what \in {"set", "data"} => m.name \in GivenNames'
    BY <1>2, <1>7 DEF ListInv, NumbersInv
  <2>4. \A m \in ToSet(bus') : m.what \in {"changed", "set", "data"} => m.name \in GivenNames'
    BY <1>2, <1>3 DEF ListInv, NumbersInv
  <2> QED BY <1>2, <2>1, <2>2, <2>3, <2>4 DEF ListInv, NumbersInv
<1>9. recheck' = recheck /\ Ahead => Ahead'
  BY <1>3 DEF Ahead
<1>10. NamesInv'
  <2>1. Ahead \/ known = Names
    <3>1. \A m \in ToSet(bus) \union ToSet(calls) : m.what = "names" => m = reply
      BY <1>3 DEF Query
    <3>2. reply \notin ToSet(calls)
      BY <1>3 DEF Query
    <3> QED BY <1>3, <3>1, <3>2 DEF ListInv, NamesInv, known
  <2>2. CASE querying'.for = "names" /\ \E m \in ToSet(calls') : m.what = "names"
    BY <2>2 DEF NamesInv
  <2>3. CASE querying'.for # "names" /\ recheck' = recheck
    BY <1>2, <1>5, <1>9, <2>1, <2>3 DEF NamesInv
  <2> QED BY <1>7, <2>2, <2>3
<1>11. ShownInv'
  <2>1. \A m \in ToSet(bus') : m.what # "data"
    BY <1>3 DEF Query
  <2>2. querying'.for # "names" => ToSet(known) \ DOMAIN displayData' \subseteq
            (IF querying'.for = "data" THEN ToSet(querying'.todo) ELSE {})
    <3>1. todo = <<>> => ToSet(todo) = {}
      BY Emptied
    <3> QED BY <1>6, <1>7, <3>1
  <2> QED BY <1>5, <2>1, <2>2 DEF ShownInv
<1>12. \A n \in Live : /\ n \in DOMAIN displayData' <=> n \in DOMAIN displayData
                       /\ n \in DOMAIN displayData => displayData'[n] = displayData[n]
  BY <1>4, <1>5
<1>13. \A m \in ToSet(calls') : m \in ToSet(calls) \/ m.what # "set"
  BY <1>7
<1>14. SetsInv'
  BY <1>2, <1>3, <1>12, <1>13 DEF ListInv, SetsInv, Setting
<1> QED BY <1>1, <1>3, <1>7, <1>8, <1>10, <1>11, <1>12, <1>13, <1>14 DEF ListInv, reply

LEMMA TailOfNames ==
    ASSUME NEW s \in Seq(Nat), s # <<>>, IsInjective(s)
    PROVE  Tail(s) \in Seq(Nat) /\ IsInjective(Tail(s)) /\ ToSet(Tail(s)) = ToSet(s) \ {s[1]}
<1> DEFINE t == Tail(s)
<1>1. /\ t \in Seq(Nat) /\ Len(t) = Len(s) - 1 /\ Len(s) \in Nat \ {0}
      /\ \A i \in 1 .. Len(t) : t[i] = s[i + 1] /\ i + 1 \in 1 .. Len(s)
      /\ DOMAIN s = 1 .. Len(s) /\ DOMAIN t = 1 .. Len(t)
  OBVIOUS
<1> HIDE DEF t
<1>2. \A i, j \in 1 .. Len(s) : s[i] = s[j] => i = j
  BY <1>1 DEF IsInjective
<1>3. IsInjective(t)
  <2>1. ASSUME NEW i \in 1 .. Len(t), NEW j \in 1 .. Len(t), t[i] = t[j] PROVE i = j
    <3>1. i + 1 = j + 1
      BY <1>1, <1>2, <2>1
    <3> QED BY <1>1, <3>1
  <2> QED BY <1>1, <2>1 DEF IsInjective
<1>4. ToSet(t) = ToSet(s) \ {s[1]}
  <2>1. ASSUME NEW i \in 1 .. Len(s), i # 1 PROVE s[i] \in ToSet(t)
    <3>1. i - 1 \in 1 .. Len(t) /\ t[i - 1] = s[(i - 1) + 1] /\ (i - 1) + 1 = i
      BY <1>1, <2>1
    <3> QED BY <1>1, <3>1 DEF ToSet
  <2>2. ASSUME NEW i \in 1 .. Len(t) PROVE t[i] \in ToSet(s) /\ t[i] # s[1]
    <3>1. i + 1 # 1 /\ i + 1 \in 1 .. Len(s) /\ 1 \in 1 .. Len(s)
      BY <1>1
    <3>2. t[i] = s[i + 1]
      BY <1>1
    <3>3. t[i] # s[1]
      BY <1>2, <3>1, <3>2
    <3> QED BY <1>1, <3>1, <3>2, <3>3 DEF ToSet
  <2>3. ToSet(t) \subseteq ToSet(s) \ {s[1]}
    BY <1>1, <2>2 DEF ToSet
  <2>4. ToSet(s) \ {s[1]} \subseteq ToSet(t)
    BY <1>1, <2>1 DEF ToSet
  <2> QED BY <2>3, <2>4
<1> QED BY <1>1, <1>3, <1>4 DEF t

LEMMA ReadDataList ==
    ASSUME ListInv, ReadData
    PROVE  /\ ListInv'
           /\ UNCHANGED served /\ UNCHANGED crossed /\ bus # <<>> /\ bus' = Tail(bus) /\ bus[1].what = "data"
           /\ \A m \in ToSet(calls') : m \in ToSet(calls) \/ m.what # "set"
           /\ bus[1].name \notin DOMAIN displayData
           /\ bus[1].value # NoValue => bus[1].name \in DOMAIN displayData' /\ displayData'[bus[1].name] = bus[1].value
           /\ \A n \in Live : n # bus[1].name =>
                /\ n \in DOMAIN displayData' <=> n \in DOMAIN displayData
                /\ n \in DOMAIN displayData => displayData'[n] = displayData[n]
<1> DEFINE reply == bus[1]
           name == reply.name
           todo == Tail(querying.todo)
<1>1. /\ Reads("data") /\ AskOn(todo)
      /\ IF reply.value = NoValue \/ name \notin ToSet(knownNames) THEN UNCHANGED model
         ELSE modelBecomes(knownNames, [n \in DOMAIN displayData \union {name} |->
                                       IF n = name THEN reply.value ELSE displayData[n]])
      /\ UNCHANGED served /\ UNCHANGED crossed
  BY DEF ReadData
<1>2. /\ Names' = Names /\ Live' = Live /\ GivenNames' = GivenNames
      /\ UNCHANGED tracked /\ UNCHANGED displayChildren /\ UNCHANGED nextDisplayIndex
  BY <1>1, ServedLeaves
<1>3. /\ bus # <<>> /\ bus' = Tail(bus)
      /\ Sequence(bus') /\ Single(bus') /\ ToSet(bus) = ToSet(bus') \union {reply}
      /\ reply.what = "data" /\ querying.for = "data" /\ name = querying.todo[1]
      /\ \A m \in ToSet(bus') \union ToSet(calls) : ~Query(m)
  BY <1>1, ReadsFirst DEF Query
<1> HIDE DEF reply
<1>4. /\ querying.todo \in Seq(Nat) /\ querying.todo # <<>> /\ IsInjective(querying.todo)
      /\ ToSet(querying.todo) \subseteq ToSet(knownNames) \ DOMAIN displayData
      /\ name \in ToSet(querying.todo)
  <2>1. /\ querying.todo \in Seq(Nat) /\ querying.todo # <<>> /\ IsInjective(querying.todo)
        /\ ToSet(querying.todo) \subseteq ToSet(knownNames) \ DOMAIN displayData
    BY <1>3 DEF ListInv, QueryInv
  <2>2. 1 \in DOMAIN querying.todo
    BY <2>1
  <2> QED BY <1>3, <2>1, <2>2 DEF ToSet
<1>5. todo \in Seq(Nat) /\ IsInjective(todo) /\ ToSet(todo) = ToSet(querying.todo) \ {name}
  BY <1>3, <1>4, TailOfNames
<1> HIDE DEF name, todo
<1>6. /\ knownNames \in Seq(Nat) /\ IsInjective(knownNames) /\ ToSet(knownNames) \subseteq GivenNames
      /\ shownNames \in Seq(Nat) /\ DOMAIN displayData \subseteq ToSet(knownNames)
      /\ ToSet(shownNames) \subseteq DOMAIN displayData
      /\ ToSet(knownNames) \subseteq DOMAIN displayData => shownNames = knownNames
  BY DEF ListInv, NumbersInv, ShownInv
<1>7. /\ knownNames' = knownNames
      /\ DOMAIN displayData' = DOMAIN displayData \union (IF reply.value = NoValue THEN {} ELSE {name})
      /\ reply.value # NoValue => displayData'[name] = reply.value
      /\ \A n \in DOMAIN displayData : n # name => displayData'[n] = displayData[n]
      /\ shownNames' \in Seq(Nat) /\ ToSet(shownNames') \subseteq DOMAIN displayData'
      /\ ToSet(knownNames) \subseteq DOMAIN displayData' => shownNames' = knownNames
  <2>1. CASE reply.value = NoValue
    <3>1. UNCHANGED knownNames /\ UNCHANGED shownNames /\ UNCHANGED displayData
      BY <1>1, <2>1 DEF model
    <3> QED BY <1>6, <2>1, <3>1
  <2>2. CASE reply.value # NoValue
    <3> DEFINE data == [n \in DOMAIN displayData \union {name} |->
                                       IF n = name THEN reply.value ELSE displayData[n]]
    <3>1. modelBecomes(knownNames, data)
      BY <1>1, <1>4, <2>2
    <3>2. /\ DOMAIN data = DOMAIN displayData \union {name}
          /\ data[name] = reply.value
          /\ \A n \in DOMAIN displayData : n # name => data[n] = displayData[n]
      OBVIOUS
    <3> HIDE DEF data
    <3>3. /\ knownNames' = knownNames
          /\ DOMAIN displayData' = DOMAIN data \cap ToSet(knownNames)
          /\ \A n \in DOMAIN displayData' : displayData'[n] = data[n]
          /\ shownNames' \in Seq(Nat)
          /\ ToSet(shownNames') \subseteq DOMAIN displayData'
          /\ ToSet(knownNames) \subseteq DOMAIN displayData' => shownNames' = knownNames
      BY <1>6, <3>1, ModelShows
    <3>4. DOMAIN displayData' = DOMAIN displayData \union {name}
      BY <1>4, <1>6, <3>2, <3>3
    <3> QED BY <2>2, <3>2, <3>3, <3>4
  <2> QED BY <2>1, <2>2
<1>8. /\ QueryInv'
      /\ \A m \in ToSet(calls') : m \in ToSet(calls) \/ m.what = "names" \/ (m.what = "data" /\ m.name \in GivenNames')
      /\ \/ querying'.for = "names" /\ \E m \in ToSet(calls') : m.what = "names"
         \/ querying'.for = "data" /\ querying'.todo = todo /\ recheck' = recheck
         \/ querying'.for = "nothing" /\ todo = <<>> /\ recheck' = recheck
  <2>1. ToSet(todo) \subseteq ToSet(knownNames') \ DOMAIN displayData' /\ ToSet(knownNames') \subseteq GivenNames'
    BY <1>2, <1>4, <1>5, <1>6, <1>7
  <2>2. Sequence(calls) /\ Single(calls) /\ recheck \in BOOLEAN
    BY DEF ListInv, QueryInv
  <2> QED BY <1>1, <1>3, <1>5, <2>1, <2>2, AskingOn
<1>9. NumbersInv'
  <2>1. \A m \in ToSet(bus') : m.what # "names"
    BY <1>3 DEF Query
  <2>3. \A m \in ToSet(calls') : m.what \in {"set", "data"} => m.name \in GivenNames'
    BY <1>2, <1>8 DEF ListInv, NumbersInv
  <2>4. \A m \in ToSet(bus') : m.what \in {"changed", "set", "data"} => m.name \in GivenNames'
    BY <1>2, <1>3 DEF ListInv, NumbersInv
  <2> QED BY <1>2, <1>6, <1>7, <2>1, <2>3, <2>4 DEF ListInv, NumbersInv
<1>10. recheck' = recheck /\ Ahead => Ahead'
  BY <1>3 DEF Ahead
<1>11. NamesInv'
  <2>1. Ahead \/ knownNames = Names
    <3>1. \A m \in ToSet(bus) \union ToSet(calls) : m.what # "names"
      BY <1>3 DEF Query
    <3> QED BY <3>1 DEF ListInv, NamesInv
  <2>2. CASE querying'.for = "names" /\ \E m \in ToSet(calls') : m.what = "names"
    BY <2>2 DEF NamesInv
  <2>3. CASE querying'.for # "names" /\ recheck' = recheck
    BY <1>2, <1>7, <1>10, <2>1, <2>3 DEF NamesInv
  <2> QED BY <1>8, <2>2, <2>3
<1>12. ShownInv'
  <2>1. \A m \in ToSet(bus') : m.what # "data"
    BY <1>3 DEF Query
  <2>2. ASSUME querying'.for # "names", ~Ahead'
        PROVE  ToSet(knownNames') \ DOMAIN displayData' \subseteq
                 (IF querying'.for = "data" THEN ToSet(querying'.todo) ELSE {})
    <3>1. ~Ahead
      BY <1>8, <1>10, <2>2
    <3>2. reply.value # NoValue
      BY <1>3, <3>1 DEF ListInv, ShownInv
    <3>3. ToSet(knownNames) \ DOMAIN displayData \subseteq ToSet(querying.todo)
      BY <1>3, <3>1 DEF ListInv, ShownInv
    <3>4. todo = <<>> => ToSet(todo) = {}
      BY Emptied
    <3> QED BY <1>5, <1>7, <1>8, <2>2, <3>2, <3>3, <3>4
  <2>3. DOMAIN displayData' \subseteq ToSet(knownNames')
    BY <1>4, <1>6, <1>7
  <2> QED BY <1>7, <2>1, <2>2, <2>3 DEF ShownInv
<1>13. \A m \in ToSet(calls') : m \in ToSet(calls) \/ m.what # "set"
  BY <1>8
<1>14. SetsInv'
  BY <1>2, <1>3, <1>7, <1>13 DEF ListInv, SetsInv, Setting
<1>15. name \notin DOMAIN displayData
  BY <1>4
<1> QED BY <1>1, <1>3, <1>7, <1>8, <1>9, <1>11, <1>12, <1>13, <1>14, <1>15 DEF ListInv, reply, name

-----------------------------------------------------------------------------
(* The daemon serves the questions, and the user moves the slider.         *)

\* The displays of `changed` that have a name are told of, each with its value.
LEMMA Signals ==
    ASSUME Sane, NEW changed, NEW client
    PROVE  /\ Sequence(changedSignals(changed, client))
           /\ \A m \in ToSet(changedSignals(changed, client)) :
                \E o \in DOMAIN changed \cap DOMAIN tracked :
                    /\ m.what = "changed" /\ m.name = displayChildren[o]
                    /\ m.value = changed[o].value /\ m.client = client
           /\ \A o \in DOMAIN changed \cap DOMAIN tracked :
                \E m \in ToSet(changedSignals(changed, client)) :
                    m.what = "changed" /\ m.name = displayChildren[o]
<1> DEFINE S == DOMAIN changed \cap DOMAIN displayChildren
           ids == InOrder(S)
           Signal(o) == [what |-> "changed", name |-> displayChildren[o], value |-> changed[o].value,
                         client |-> client]
           t == changedSignals(changed, client)
<1>1. S = DOMAIN changed \cap DOMAIN tracked /\ S \in SUBSET Nat /\ IsFiniteSet(S)
  <2>1. S = DOMAIN changed \cap DOMAIN tracked /\ S \subseteq DOMAIN tracked
    BY DEF Sane
  <2> QED BY <2>1, FS_Subset DEF Sane
<1> HIDE DEF S
<1>2. ids \in Seq(S) /\ \A x \in S : \E i \in 1 .. Len(ids) : ids[i] = x
  BY <1>1, InOrderLists
<1>3. t = [i \in 1 .. Len(ids) |-> Signal(ids[i])]
  BY DEF changedSignals, S
<1> HIDE DEF ids, t
<1>4. \A o : /\ Signal(o).what = "changed" /\ Signal(o).name = displayChildren[o]
             /\ Signal(o).value = changed[o].value /\ Signal(o).client = client
  OBVIOUS
<1> HIDE DEF Signal
<1>5. Len(ids) \in Nat /\ \A i \in 1 .. Len(ids) : ids[i] \in S
  BY <1>2
<1>6. Sequence(t)
  <2>1. t \in Seq({Signal(o) : o \in S})
    BY <1>3, <1>5
  <2> QED BY <2>1 DEF Sequence
<1>7. DOMAIN t = 1 .. Len(ids)
  BY <1>3
<1>8. ASSUME NEW m \in ToSet(t) PROVE \E o \in S : m = Signal(o)
  <2>1. PICK i \in 1 .. Len(ids) : m = t[i]
    BY <1>7, <1>8 DEF ToSet
  <2> QED BY <1>3, <1>5, <2>1
<1>9. ASSUME NEW o \in S PROVE Signal(o) \in ToSet(t)
  <2>1. PICK i \in 1 .. Len(ids) : ids[i] = o
    BY <1>2
  <2> QED BY <1>3, <1>7, <2>1 DEF ToSet
<1> QED BY <1>1, <1>4, <1>6, <1>8, <1>9 DEF t

LEMMA OneMore == ASSUME NEW s, NEW m, Sequence(s) PROVE s \o <<m>> = Append(s, m)
<1>1. PICK S : s \in Seq(S)
  BY DEF Sequence
<1> DEFINE U == S \union {m}
<1>2. \A i \in 1 .. Len(s) : s[i] \in U
  BY <1>1
<1>3. s \in Seq(U) /\ m \in U
  BY <1>1, <1>2
<1> HIDE DEF U
<1> QED BY <1>3

\* The daemon takes up the first call.
LEMMA TakesUp ==
    ASSUME ListInv, calls # <<>>, calls' = Tail(calls)
    PROVE  /\ Sequence(calls) /\ Sequence(calls') /\ Single(calls')
           /\ ToSet(calls) = ToSet(calls') \union {calls[1]}
           /\ Query(calls[1]) => /\ \A m \in ToSet(bus) \union ToSet(calls') : ~Query(m)
                                 /\ calls[1].what = querying.for
                                 /\ calls[1].what = "data" => calls[1].name = querying.todo[1]
<1>1. Sequence(calls) /\ Single(calls)
  BY DEF ListInv, QueryInv
<1>2. /\ Sequence(calls') /\ Single(calls') /\ ToSet(calls) = ToSet(calls') \union {calls[1]}
      /\ Query(calls[1]) => \A m \in ToSet(calls') : ~Query(m)
  BY <1>1, Taken
<1>3. calls[1] \in ToSet(calls)
  BY <1>2
<1> QED BY <1>1, <1>2, <1>3 DEF ListInv, QueryInv

LEMMA ServeQueryList ==
    ASSUME Sane, ListInv, ServeQuery
    PROVE  ListInv'
<1> DEFINE call == calls[1]
           names == [what |-> "names", names |-> Names]
           value == IF DisplayOf(call.name) = {} THEN NoValue
                    ELSE tracked[CHOOSE o \in DisplayOf(call.name) : TRUE].value
           data == [what |-> "data", name |-> call.name, value |-> value]
<1>1. /\ calls # <<>> /\ calls' = Tail(calls)
      /\ \/ call.what = "names" /\ bus' = Append(bus, names)
         \/ call.what = "data" /\ bus' = Append(bus, data)
  BY DEF ServeQuery, Replies
<1>2. /\ UNCHANGED knownNames /\ UNCHANGED shownNames /\ UNCHANGED displayData
      /\ UNCHANGED querying /\ UNCHANGED recheck
      /\ UNCHANGED tracked /\ UNCHANGED displayChildren /\ UNCHANGED nextDisplayIndex
  BY DEF ServeQuery, controller, applet, model
<1>3. Names' = Names /\ Live' = Live /\ GivenNames' = GivenNames
  BY <1>2 DEF Names, Ids, Live, GivenNames
<1>4. /\ Sequence(calls') /\ Single(calls')
      /\ ToSet(calls) = ToSet(calls') \union {call}
      /\ \A m \in ToSet(bus) \union ToSet(calls') : ~Query(m)
      /\ call.what = querying.for
      /\ call.what = "data" => call.name = querying.todo[1]
  BY <1>1, TakesUp DEF Query
<1> HIDE DEF call
<1>5. /\ names.what = "names" /\ names.names = Names /\ Query(names)
      /\ data.what = "data" /\ data.name = call.name /\ data.value = value /\ Query(data)
  BY DEF Query
<1> HIDE DEF names, data
<1>6. PICK reply : /\ bus' = Append(bus, reply) /\ Query(reply)
                   /\ reply.what = call.what /\ reply \in {names, data}
                   /\ reply = names <=> call.what = "names"
  BY <1>1, <1>5
<1>7. /\ Sequence(bus') /\ ToSet(bus') = ToSet(bus) \union {reply} /\ Single(bus')
  BY <1>4, <1>6, Added DEF ListInv, QueryInv
<1>8. Ahead' <=> Ahead
  BY <1>2, <1>6, <1>7 DEF Ahead, Query
<1>9. reply.what = call.what /\ call.what \in {"names", "data"} /\ (call.what = "names" => reply = names)
      /\ (call.what = "data" => reply = data)
  BY <1>1, <1>5, <1>6
<1>10. NumbersInv'
  <2>1. Names \in Seq(Nat) /\ IsInjective(Names) /\ ToSet(Names) = Live /\ ToSet(Names) \subseteq GivenNames
    BY NamesList DEF ListInv
  <2>2. \A m \in ToSet(bus') : m.what = "names" => m.names = Names
    BY <1>4, <1>5, <1>7, <1>9 DEF Query
  <2>3. call \in ToSet(calls)
    BY <1>4
  <2>4. \A m \in ToSet(bus') : m.what \in {"changed", "set", "data"} => m.name \in GivenNames'
    BY <1>3, <1>5, <1>7, <1>9, <2>3 DEF ListInv, NumbersInv
  <2>5. \A m \in ToSet(calls') : m.what \in {"set", "data"} => m.name \in GivenNames'
    BY <1>3, <1>4 DEF ListInv, NumbersInv
  <2> QED BY <1>2, <1>3, <2>1, <2>2, <2>4, <2>5 DEF ListInv, NumbersInv
<1>11. QueryInv'
  <2>1. \A m \in ToSet(bus'), k \in ToSet(calls') : ~(Query(m) /\ Query(k))
    BY <1>4
  <2>2. \A m \in ToSet(bus') \union ToSet(calls') :
         Query(m) => m.what = querying'.for /\ (m.what = "data" => m.name = querying'.todo[1])
    BY <1>2, <1>4, <1>5, <1>7, <1>9
  <2>3. \E m \in ToSet(bus') \union ToSet(calls') : Query(m)
    BY <1>6, <1>7
  <2> QED BY <1>2, <1>4, <1>7, <2>1, <2>2, <2>3 DEF ListInv, QueryInv
<1>12. NamesInv'
  <2>1. CASE call.what = "names"
    BY <1>3, <1>5, <1>7, <1>9, <2>1 DEF NamesInv
  <2>2. CASE call.what = "data"
    <3>1. \A m \in ToSet(bus) \union ToSet(calls) : m.what # "names"
      BY <1>4, <2>2 DEF Query
    <3> QED BY <1>2, <1>3, <1>8, <3>1 DEF ListInv, NamesInv
  <2> QED BY <1>9, <2>1, <2>2
<1>13. ShownInv'
  <2>1. ASSUME call.what = "data", value = NoValue, ~Ahead PROVE FALSE
    <3>1. \A m \in ToSet(bus) \union ToSet(calls) : m.what # "names"
      BY <1>4, <2>1 DEF Query
    <3>2. knownNames = Names
      BY <2>1, <3>1 DEF ListInv, NamesInv
    <3>3. call.name \in Live
      <4>1. /\ querying.todo \in Seq(Nat) /\ querying.todo # <<>>
            /\ ToSet(querying.todo) \subseteq ToSet(knownNames)
        BY <1>4, <2>1 DEF ListInv, QueryInv
      <4>2. 1 \in DOMAIN querying.todo
        BY <4>1
      <4>3. querying.todo[1] \in ToSet(knownNames)
        BY <4>1, <4>2 DEF ToSet
      <4> QED BY <1>4, <2>1, <3>2, <4>3, NamesList DEF ListInv
    <3>4. DisplayOf(call.name) # {} /\ DisplayOf(call.name) \subseteq DOMAIN tracked
      BY <3>3 DEF Live, DisplayOf, Sane
    <3>5. value \in Values
      BY <3>4 DEF Sane
    <3> QED BY <2>1, <3>5, KWinAssumption DEF Values, NoValue
  <2>2. \A m \in ToSet(bus') : m.what = "data" /\ m.value = NoValue => Ahead'
    BY <1>4, <1>5, <1>7, <1>8, <1>9, <2>1 DEF Query
  <2> QED BY <1>2, <1>8, <2>2 DEF ListInv, ShownInv
<1>14. SetsInv'
  <2>1. \A n : ~Setting(reply, n)
    BY <1>6 DEF Query, Setting
  <2> QED BY <1>2, <1>3, <1>4, <1>7, <2>1 DEF ListInv, SetsInv
<1> QED BY <1>10, <1>11, <1>12, <1>13, <1>14 DEF ListInv

LEMMA SetBrightnessList ==
    ASSUME ListInv, NEW name \in ToSet(shownNames), NEW value, SetBrightness(name, value)
    PROVE  /\ ListInv'
           /\ name \in DOMAIN displayData /\ DOMAIN displayData' = DOMAIN displayData
           /\ displayData'[name] = value
           /\ \A n \in DOMAIN displayData : n # name => displayData'[n] = displayData[n]
<1> DEFINE call == [what |-> "set", name |-> name, value |-> value, serial |-> events]
<1>1. /\ calls' = Append(calls, call)
      /\ UNCHANGED bus /\ UNCHANGED knownNames /\ UNCHANGED shownNames
      /\ UNCHANGED querying /\ UNCHANGED recheck
      /\ UNCHANGED tracked /\ UNCHANGED displayChildren /\ UNCHANGED nextDisplayIndex
      /\ modelBrightness(name, value)
  BY DEF SetBrightness, controller
<1>2. Names' = Names /\ Live' = Live /\ GivenNames' = GivenNames
  BY <1>1 DEF Names, Ids, Live, GivenNames
<1>3. call.what = "set" /\ call.name = name /\ ~Query(call)
  BY DEF Query
<1> HIDE DEF call
<1>4. Sequence(calls') /\ Single(calls') /\ ToSet(calls') = ToSet(calls) \union {call}
  BY <1>1, <1>3, Added DEF ListInv, QueryInv
<1>5. name \in DOMAIN displayData /\ name \in GivenNames
  BY DEF ListInv, ShownInv, NumbersInv
<1>6. displayData' = [displayData EXCEPT ![name] = value]
  BY <1>1, <1>5 DEF modelBrightness
<1>7. DOMAIN displayData' = DOMAIN displayData
  BY <1>6
<1>8. NumbersInv'
  BY <1>1, <1>2, <1>3, <1>4, <1>5 DEF ListInv, NumbersInv
<1>9. QueryInv'
  BY <1>1, <1>3, <1>4, <1>7 DEF ListInv, QueryInv
<1>10. Ahead' <=> Ahead
  BY <1>1 DEF Ahead
<1>11. NamesInv'
  BY <1>1, <1>2, <1>4, <1>10 DEF ListInv, NamesInv
<1>12. ShownInv'
  BY <1>1, <1>7, <1>10 DEF ListInv, ShownInv
<1>13. SetsInv'
  BY <1>1, <1>2, <1>3, <1>4, <1>5, <1>7 DEF ListInv, SetsInv, Setting
<1>14. displayData'[name] = value /\ \A n \in DOMAIN displayData : n # name => displayData'[n] = displayData[n]
  BY <1>5, <1>6
<1> QED BY <1>5, <1>7, <1>8, <1>9, <1>11, <1>12, <1>13, <1>14 DEF ListInv

-----------------------------------------------------------------------------
(* The daemon sets what the applet asks for.                               *)

LEMMA ServeSetFacts ==
    ASSUME Sane, ListInv, CallsInv, ServeSetBrightness
    PROVE  \E told, reply :
        /\ Sequence(told) /\ bus' = Append(bus \o told, reply)
        /\ \A m \in ToSet(told) : m.what = "changed" /\ m.client = "applet" /\ m.name \in Live
        /\ Setting(reply, calls[1].name)
        /\ \A o \in DOMAIN tracked : displayChildren[o] = calls[1].name => reply.ok
        /\ DOMAIN tracked' = DOMAIN tracked
        /\ \A o \in DOMAIN tracked :
             tracked'[o].value = IF displayChildren[o] = calls[1].name THEN calls[1].value ELSE tracked[o].value
        /\ calls # <<>> /\ calls' = Tail(calls) /\ calls[1].what = "set"
        /\ UNCHANGED knownNames /\ UNCHANGED shownNames /\ UNCHANGED displayData
        /\ UNCHANGED querying /\ UNCHANGED recheck /\ UNCHANGED crossed /\ UNCHANGED overlapped
        /\ UNCHANGED displayChildren /\ UNCHANGED nextDisplayIndex
<1> DEFINE call == calls[1]
           D == DisplayOf(call.name)
           v == [o \in D |-> Bound(0, call.value, MaxBrightness)]
           news == [o \in News(v) |-> [value |-> v[o], trackingError |-> 0]]
           told == changedSignals(news, "applet")
           ok == v # <<>>
           reply == [what |-> "set", serial |-> call.serial, name |-> call.name, ok |-> ok]
<1>1. /\ calls # <<>> /\ calls' = Tail(calls) /\ call.what = "set"
      /\ tracked' = With(news) /\ bus' = (bus \o told) \o <<reply>>
      /\ UNCHANGED displayChildren /\ UNCHANGED nextDisplayIndex /\ UNCHANGED overlapped
      /\ UNCHANGED applet
  BY DEF ServeSetBrightness
<1>2. /\ UNCHANGED knownNames /\ UNCHANGED shownNames /\ UNCHANGED displayData
      /\ UNCHANGED querying /\ UNCHANGED recheck /\ UNCHANGED crossed
  BY <1>1 DEF applet, model
<1>3. call.value \in Values /\ Bound(0, call.value, MaxBrightness) = call.value
  <2>1. PICK S : calls \in Seq(S) /\ \A c \in S : c.what = "set" => c.value \in Values
    BY DEF CallsInv
  <2>2. calls[1] \in S
    BY <1>1, <2>1
  <2>3. call.value \in Values
    BY <1>1, <2>1, <2>2
  <2> QED BY <2>3, KWinAssumption DEF Values, Bound
<1>4. D = {o \in DOMAIN tracked : displayChildren[o] = call.name}
  BY DEF DisplayOf, Sane
<1>5. DOMAIN v = D /\ \A o \in D : v[o] = call.value
  BY <1>3
<1>6. ok <=> D # {}
  <2>1. DOMAIN <<>> = {}
    OBVIOUS
  <2>2. D = {} => v = <<>>
    OBVIOUS
  <2> QED BY <1>5, <2>1, <2>2
<1>7. /\ DOMAIN news = News(v) /\ News(v) = {o \in D : v[o] # tracked[o].value}
      /\ \A o \in News(v) : news[o].value = v[o]
  BY <1>5 DEF News
<1>8. /\ reply.what = "set" /\ reply.name = call.name /\ (reply.ok <=> ok)
  OBVIOUS
<1> HIDE DEF ok, reply, v, D
<1> HIDE DEF news
<1>9. /\ Sequence(told)
      /\ \A m \in ToSet(told) : m.what = "changed" /\ m.client = "applet" /\ m.name \in Live
  <2>1. /\ Sequence(told)
        /\ \A m \in ToSet(told) : \E o \in DOMAIN news \cap DOMAIN tracked :
             m.what = "changed" /\ m.name = displayChildren[o] /\ m.client = "applet"
    BY Signals
  <2> HIDE DEF told
  <2> QED BY <2>1 DEF Live
<1> HIDE DEF told
<1>10. /\ DOMAIN tracked' = DOMAIN tracked
       /\ \A o \in DOMAIN tracked : tracked'[o] = IF o \in DOMAIN news THEN news[o] ELSE tracked[o]
  BY <1>1 DEF With
<1>11. \A o \in DOMAIN tracked :
         tracked'[o].value = IF displayChildren[o] = call.name THEN call.value ELSE tracked[o].value
  BY <1>4, <1>5, <1>7, <1>10
<1>12. bus' = Append(bus \o told, reply)
  <2>1. Sequence(bus \o told)
    BY <1>9, Joined DEF ListInv, QueryInv
  <2> QED BY <1>1, <2>1, OneMore
<1>13. \A o \in DOMAIN tracked : displayChildren[o] = call.name => reply.ok
  BY <1>4, <1>6, <1>8
<1>14. Setting(reply, call.name)
  BY <1>8 DEF Setting
<1> QED BY <1>1, <1>2, <1>9, <1>10, <1>11, <1>12, <1>13, <1>14

LEMMA ServeSetApplet ==
    ASSUME Sane, ListInv, ValuesInv, CallsInv, ServeSetBrightness
    PROVE  ListInv' /\ ValuesInv'
<1> DEFINE call == calls[1]
<1>1. PICK told, reply :
        /\ Sequence(told) /\ bus' = Append(bus \o told, reply)
        /\ \A m \in ToSet(told) : m.what = "changed" /\ m.client = "applet" /\ m.name \in Live
        /\ Setting(reply, call.name)
        /\ \A o \in DOMAIN tracked : displayChildren[o] = call.name => reply.ok
        /\ DOMAIN tracked' = DOMAIN tracked
        /\ \A o \in DOMAIN tracked :
             tracked'[o].value = IF displayChildren[o] = call.name THEN call.value ELSE tracked[o].value
        /\ calls # <<>> /\ calls' = Tail(calls) /\ call.what = "set"
        /\ UNCHANGED knownNames /\ UNCHANGED shownNames /\ UNCHANGED displayData
        /\ UNCHANGED querying /\ UNCHANGED recheck /\ UNCHANGED crossed /\ UNCHANGED overlapped
        /\ UNCHANGED displayChildren /\ UNCHANGED nextDisplayIndex
  BY ServeSetFacts
<1>2. Names' = Names /\ Live' = Live /\ GivenNames' = GivenNames
  BY <1>1 DEF Names, Ids, Live, GivenNames
<1>3. Sequence(calls) /\ Sequence(calls') /\ Single(calls') /\ ToSet(calls) = ToSet(calls') \union {call}
  BY <1>1, TakesUp
<1> HIDE DEF call
<1>4. reply.what = "set" /\ reply.name = call.name /\ ~Query(reply) /\ ~Query(call) /\ call.what = "set"
  BY <1>1 DEF Setting, Query
<1>5. \A m \in ToSet(told) : m.what = "changed" /\ ~Query(m) /\ m.name \in Live
  BY <1>1 DEF Query
<1>6. /\ Sequence(bus) /\ Sequence(bus \o told) /\ Single(bus \o told)
      /\ ToSet(bus \o told) = ToSet(bus) \union ToSet(told)
  BY <1>1, <1>5, Joined DEF ListInv, QueryInv
<1>7. /\ Sequence(bus') /\ Single(bus') /\ ToSet(bus') = ToSet(bus) \union ToSet(told) \union {reply}
  <2> DEFINE b == bus \o told
  <2>1. bus' = Append(b, reply) /\ Sequence(b) /\ Single(b) /\ ToSet(b) = ToSet(bus) \union ToSet(told)
    BY <1>1, <1>6
  <2> HIDE DEF b
  <2>2. Sequence(bus') /\ Single(bus') /\ ToSet(bus') = ToSet(b) \union {reply}
    BY <1>4, <2>1, Added
  <2> QED BY <2>1, <2>2
<1>8. Ahead' <=> Ahead
  BY <1>1, <1>4, <1>5, <1>7 DEF Ahead
<1>9. call \in ToSet(calls) /\ call.name \in GivenNames
  BY <1>3, <1>4 DEF ListInv, NumbersInv
<1>10. NumbersInv'
  <2>1. \A m \in ToSet(told) : m.name \in GivenNames
    BY <1>5 DEF Live, ListInv, NumbersInv
  <2>2. \A m \in ToSet(bus') : m.what \in {"changed", "set", "data"} => m.name \in GivenNames'
    BY <1>2, <1>4, <1>7, <1>9, <2>1 DEF ListInv, NumbersInv
  <2>3. \A m \in ToSet(bus') : m.what = "names" => m \in ToSet(bus)
    BY <1>4, <1>5, <1>7
  <2>4. \A m \in ToSet(calls') : m.what \in {"set", "data"} => m.name \in GivenNames'
    BY <1>2, <1>3 DEF ListInv, NumbersInv
  <2> QED BY <1>1, <1>2, <2>2, <2>3, <2>4 DEF ListInv, NumbersInv
<1>11. QueryInv'
  <2>1. \A m \in ToSet(bus') \union ToSet(calls') : Query(m) => m \in ToSet(bus) \union ToSet(calls)
    BY <1>3, <1>4, <1>5, <1>7
  <2>2. \A m \in ToSet(bus') : Query(m) => m \in ToSet(bus)
    BY <1>4, <1>5, <1>7
  <2>3. \A m \in ToSet(bus) \union ToSet(calls) : Query(m) => m \in ToSet(bus') \union ToSet(calls')
    BY <1>3, <1>4, <1>7
  <2> QED BY <1>1, <1>3, <1>7, <2>1, <2>2, <2>3 DEF ListInv, QueryInv
<1>12. NamesInv'
  BY <1>1, <1>2, <1>3, <1>4, <1>7, <1>8 DEF ListInv, NamesInv
<1>13. ShownInv'
  <2>1. \A m \in ToSet(bus') : m.what = "data" => m \in ToSet(bus)
    BY <1>4, <1>5, <1>7
  <2> QED BY <1>1, <1>8, <2>1 DEF ListInv, ShownInv
<1>14. SetsInv'
  <2>1. \A n \in Live, m \in ToSet(bus') : Setting(m, n) => m \in ToSet(bus) \/ (m = reply /\ n = call.name)
    BY <1>4, <1>5, <1>7 DEF Setting
  <2>2. \A n \in Live : n = call.name => reply.ok /\ n \in DOMAIN displayData
    <3>1. \A n \in Live : n = call.name => reply.ok
      BY <1>1 DEF Live
    <3>2. Setting(call, call.name)
      BY <1>4 DEF Setting
    <3> QED BY <1>9, <3>1, <3>2 DEF ListInv, SetsInv
  <2> QED BY <1>1, <1>2, <1>3, <2>1, <2>2 DEF ListInv, SetsInv
<1>15. ValuesInv'
  <2> SUFFICES ASSUME ~overlapped', ~crossed', NEW o \in DOMAIN tracked'
               PROVE  Fits(bus', calls', displayData', displayChildren'[o], tracked'[o].value)
    BY DEF ValuesInv
  <2> DEFINE n == displayChildren[o]
             v == tracked[o].value
  <2>1. o \in DOMAIN tracked /\ Fits(bus, calls, displayData, n, v) /\ n \in Live
    BY <1>1 DEF ValuesInv, Live
  <2>2. UNCHANGED displayData /\ displayChildren'[o] = n
    BY <1>1
  <2>3. tracked'[o].value = IF n = call.name THEN call.value ELSE v
    BY <1>1, <2>1
  <2>4. bus' = Append(bus \o told, reply) /\ calls' = Tail(calls) /\ calls # <<>> /\ Sequence(told)
    BY <1>1
  <2> HIDE DEF n, v
  <2>5. \A m \in ToSet(told) : ~Changes(m, n)
    BY <1>1 DEF Changes
  <2>6. CASE n = call.name
    <3>1. Setting(calls[1], n) /\ Setting(reply, n)
      BY <1>4, <2>6 DEF Setting, call
    <3>2. n \in DOMAIN displayData
      BY <1>9, <2>1, <3>1 DEF ListInv, SetsInv, call
    <3>3. tracked'[o].value = calls[1].value
      BY <2>3, <2>6 DEF call
    <3>4. Fits(Append(bus \o told, reply), Tail(calls), displayData, n, calls[1].value)
      BY <1>3, <1>6, <2>1, <2>4, <2>5, <3>1, <3>2, FitsChanged
    <3> QED BY <2>2, <2>4, <3>3, <3>4
  <2>7. CASE n # call.name
    <3> DEFINE b == bus \o told
    <3>1. Fits(b, calls, displayData, n, v)
      <4>1. \A m \in ToSet(told) : ~(m.what = "data" /\ m.name = n) /\ (Changes(m, n) => m.value = v)
        BY <1>5, <2>5
      <4> QED BY <1>6, <2>1, <2>4, <4>1, FitsTold
    <3>2. Sequence(b)
      BY <1>6
    <3> HIDE DEF b
    <3>3. Fits(Append(b, reply), calls, displayData, n, v)
      BY <1>4, <3>1, <3>2, FitsAdded DEF Changes
    <3>4. ~Setting(calls[1], n)
      BY <2>7 DEF Setting, call
    <3>5. Fits(Append(b, reply), Tail(calls), displayData, n, v)
      BY <1>3, <2>4, <3>3, <3>4, FitsServed
    <3> QED BY <2>2, <2>3, <2>4, <2>7, <3>5 DEF b
  <2> QED BY <2>6, <2>7
<1> QED BY <1>10, <1>11, <1>12, <1>13, <1>14, <1>15 DEF ListInv

-----------------------------------------------------------------------------
(* The values.                                                             *)

LEMMA TellsValuesKept ==
    ASSUME Sane, ListInv, ValuesInv, NEW told, Tells(told)
    PROVE  ValuesInv'
<1>1. /\ Sequence(bus) /\ Sequence(told) /\ bus' = bus \o told
      /\ ToSet(bus') = ToSet(bus) \union ToSet(told)
      /\ \A m \in ToSet(told) : m.what \notin {"names", "data", "set"}
      /\ UNCHANGED calls /\ UNCHANGED displayData /\ UNCHANGED crossed
  BY Told DEF Tells
<1> SUFFICES ASSUME ~overlapped', ~crossed', NEW o \in DOMAIN tracked'
             PROVE  Fits(bus', calls', displayData', displayChildren'[o], tracked'[o].value)
  BY DEF ValuesInv
<1>2. ~overlapped /\ ~crossed /\ TellsValues(told)
  BY <1>1 DEF Tells
<1>3. CASE o \in DOMAIN tracked
  <2> DEFINE n == displayChildren[o]
             v == tracked[o].value
             w == tracked'[o].value
  <2>1. Fits(bus, calls, displayData, n, v) /\ displayChildren'[o] = n
    BY <1>2, <1>3 DEF ValuesInv, Tells
  <2>2. /\ \A m \in ToSet(told) : m.what = "changed" /\ m.name = n => m.value = w
        /\ w = v \/ \E m \in ToSet(told) : m.what = "changed" /\ m.name = n
    BY <1>2, <1>3 DEF TellsValues
  <2>3. \A m \in ToSet(told) : m.what = "changed" => m.client # "applet"
    <3>1. "changed" # "propertiesChanged" /\ "" # "applet"
      OBVIOUS
    <3>2. \A m \in ToSet(told) : m.what = "propertiesChanged" \/ m.client = ""
      BY DEF Tells
    <3> QED BY <3>1, <3>2
  <2> HIDE DEF n, v, w
  <2>4. \A m \in ToSet(told) : ~(m.what = "data" /\ m.name = n) /\ (Changes(m, n) => m.value = w)
    BY <1>1, <2>2 DEF Changes
  <2>5. w = v \/ \E m \in ToSet(told) : Changes(m, n)
    BY <2>2, <2>3 DEF Changes
  <2>6. Fits(bus \o told, calls, displayData, n, w)
    BY <1>1, <2>1, <2>4, <2>5, FitsTold
  <2> QED BY <1>1, <2>1, <2>6 DEF w
<1>4. CASE o \notin DOMAIN tracked
  <2> DEFINE n == displayChildren'[o]
  <2>1. n \notin GivenNames
    <3>1. n \in nextDisplayIndex .. nextDisplayIndex' - 1
      BY <1>4 DEF Tells
    <3>2. nextDisplayIndex \in Nat \ {0} /\ nextDisplayIndex' \in Nat
      BY DEF ListInv, NumbersInv, Tells
    <3> QED BY <3>1, <3>2 DEF GivenNames
  <2> HIDE DEF n
  <2>2. n \notin DOMAIN displayData'
    BY <1>1, <2>1 DEF ListInv, NumbersInv, ShownInv
  <2>3. \A m \in ToSet(bus') : m.what \in {"changed", "data"} => m.name # n
    <3>1. ASSUME NEW m \in ToSet(bus), m.what \in {"changed", "data"} PROVE m.name \in GivenNames
      BY <3>1 DEF ListInv, NumbersInv
    <3>2. ASSUME NEW m \in ToSet(told), m.what \in {"changed", "data"} PROVE m.name \in GivenNames
      <4>1. m.name \in Live
        BY <3>2 DEF Tells
      <4> QED BY <4>1 DEF Live, ListInv, NumbersInv
    <3> QED BY <1>1, <2>1, <3>1, <3>2
  <2>4. Sequence(bus')
    BY Told
  <2>5. Fits(bus', calls', displayData', n, tracked'[o].value)
    BY <2>2, <2>3, <2>4, FitsNew
  <2> QED BY <2>5 DEF n
<1> QED BY <1>3, <1>4

LEMMA ServeQueryValues ==
    ASSUME Sane, ListInv, ValuesInv, ServeQuery
    PROVE  ValuesInv'
<1> DEFINE call == calls[1]
           names == [what |-> "names", names |-> Names]
           value == IF DisplayOf(call.name) = {} THEN NoValue
                    ELSE tracked[CHOOSE o \in DisplayOf(call.name) : TRUE].value
           data == [what |-> "data", name |-> call.name, value |-> value]
<1>1. /\ calls # <<>> /\ calls' = Tail(calls)
      /\ \/ call.what = "names" /\ bus' = Append(bus, names)
         \/ call.what = "data" /\ bus' = Append(bus, data)
      /\ UNCHANGED displayData /\ UNCHANGED crossed /\ UNCHANGED overlapped
      /\ UNCHANGED tracked /\ UNCHANGED displayChildren
  BY DEF ServeQuery, Replies, controller, applet, model
<1> SUFFICES ASSUME ~overlapped', ~crossed', NEW o \in DOMAIN tracked'
             PROVE  Fits(bus', calls', displayData', displayChildren'[o], tracked'[o].value)
  BY DEF ValuesInv
<1> DEFINE n == displayChildren[o]
           v == tracked[o].value
<1>2. o \in DOMAIN tracked /\ Fits(bus, calls, displayData, n, v) /\ v \in Values
  BY <1>1 DEF ValuesInv, Sane
<1>3. v # NoValue
  BY <1>2, KWinAssumption DEF Values, NoValue
<1>4. Sequence(bus) /\ Sequence(calls)
  BY DEF ListInv, QueryInv
<1>5. call.name = n => value = v
  <2>1. ASSUME call.name = n PROVE DisplayOf(call.name) = {o}
    BY <1>2, <2>1 DEF DisplayOf, Sane, ListInv, NumbersInv
  <2> QED BY <2>1
<1>6. /\ names.what = "names" /\ data.what = "data" /\ data.name = call.name /\ data.value = value
  OBVIOUS
<1> HIDE DEF call, names, data, value, n, v
<1>7. ASSUME NEW reply, bus' = Append(bus, reply), reply = names \/ reply = data
      PROVE  Fits(bus', calls, displayData, n, v)
  <2>1. ~Changes(reply, n) /\ (reply.what = "data" /\ reply.name = n => reply.value = v /\ v # NoValue)
    BY <1>3, <1>5, <1>6, <1>7 DEF Changes
  <2> QED BY <1>2, <1>4, <1>7, <2>1, FitsAdded
<1>8. Fits(bus', calls, displayData, n, v)
  BY <1>1, <1>7
<1>9. ~Setting(calls[1], n)
  BY <1>1 DEF Setting, call
<1>10. Fits(bus', Tail(calls), displayData, n, v)
  BY <1>1, <1>4, <1>8, <1>9, FitsServed
<1> QED BY <1>1, <1>10 DEF n, v

\* What it asks for in queryAndUpdateDisplays.
LEMMA FitsQueried ==
    ASSUME NEW b, NEW data, NEW n, NEW v, Sequence(calls), Fits(b, calls, data, n, v),
           QueryDisplays \/ \E todo : AskOn(todo)
    PROVE  Fits(b, calls', data, n, v)
<1>1. CASE UNCHANGED calls
  BY <1>1
<1>2. CASE calls' = Append(calls, [what |-> "names"])
  <2>1. ~Setting([what |-> "names"], n)
    BY DEF Setting
  <2> QED BY <1>2, <2>1, FitsAsked
<1>3. CASE \E todo : calls' = Append(calls, [what |-> "data", name |-> todo[1]])
  <2>1. PICK todo : calls' = Append(calls, [what |-> "data", name |-> todo[1]])
    BY <1>3
  <2>2. ~Setting([what |-> "data", name |-> todo[1]], n)
    BY DEF Setting
  <2> QED BY <2>1, <2>2, FitsAsked
<1>4. CASE QueryDisplays
  BY <1>1, <1>2, <1>4 DEF QueryDisplays
<1>5. CASE \E todo : AskOn(todo)
  BY <1>1, <1>2, <1>3, <1>5 DEF AskOn
<1> QED BY <1>4, <1>5

LEMMA PropertiesValues ==
    ASSUME ListInv, ValuesInv, onGlobalPropertiesChanged
    PROVE  ValuesInv'
<1>1. /\ Reads("propertiesChanged") /\ QueryDisplays /\ UNCHANGED displayData /\ UNCHANGED crossed
      /\ UNCHANGED overlapped /\ UNCHANGED tracked /\ UNCHANGED displayChildren
  BY DEF onGlobalPropertiesChanged, served, controller, model
<1>2. /\ Sequence(bus) /\ Sequence(calls) /\ bus # <<>> /\ bus' = Tail(bus) /\ bus[1].what = "propertiesChanged"
  BY <1>1, ReadsFirst DEF ListInv, QueryInv
<1>3. ASSUME NEW n, NEW v, Fits(bus, calls, displayData, n, v) PROVE Fits(bus', calls', displayData, n, v)
  <2>1. ~Changes(bus[1], n)
    BY <1>2 DEF Changes
  <2>2. Fits(bus', calls, displayData, n, v)
    BY <1>2, <1>3, <2>1, FitsTaken
  <2> QED BY <1>1, <1>2, <2>2, FitsQueried
<1> QED BY <1>1, <1>3 DEF ValuesInv

LEMMA ReadNamesValues ==
    ASSUME ListInv, ValuesInv, ReadNames
    PROVE  ValuesInv'
<1>1. /\ UNCHANGED crossed /\ UNCHANGED overlapped /\ UNCHANGED tracked /\ UNCHANGED displayChildren
      /\ bus # <<>> /\ bus' = Tail(bus) /\ bus[1].what = "names" /\ Sequence(bus) /\ Sequence(calls)
      /\ \A n \in Live : /\ n \in DOMAIN displayData' <=> n \in DOMAIN displayData
                         /\ n \in DOMAIN displayData => displayData'[n] = displayData[n]
  BY ReadNamesList, ServedLeaves DEF ListInv, QueryInv
<1>2. \E todo : AskOn(todo)
  BY DEF ReadNames
<1>3. ASSUME NEW n \in Live, NEW v, Fits(bus, calls, displayData, n, v) PROVE Fits(bus', calls', displayData', n, v)
  <2>1. ~Changes(bus[1], n)
    BY <1>1 DEF Changes
  <2>2. Fits(bus', calls, displayData, n, v)
    BY <1>1, <1>3, <2>1, FitsTaken
  <2>3. Fits(bus', calls', displayData, n, v)
    BY <1>1, <1>2, <2>2, FitsQueried
  <2> QED BY <1>1, <2>3, FitsListed
<1> QED BY <1>1, <1>3 DEF ValuesInv, Live

LEMMA ReadDataValues ==
    ASSUME ListInv, ValuesInv, ReadData
    PROVE  ValuesInv'
<1> DEFINE name == bus[1].name
<1>1. /\ UNCHANGED crossed /\ UNCHANGED overlapped /\ UNCHANGED tracked /\ UNCHANGED displayChildren
      /\ bus # <<>> /\ bus' = Tail(bus) /\ bus[1].what = "data" /\ Sequence(bus) /\ Sequence(calls)
      /\ name \notin DOMAIN displayData
      /\ bus[1].value # NoValue => name \in DOMAIN displayData' /\ displayData'[name] = bus[1].value
      /\ \A n \in Live : n # name =>
            /\ n \in DOMAIN displayData' <=> n \in DOMAIN displayData
            /\ n \in DOMAIN displayData => displayData'[n] = displayData[n]
  BY ReadDataList, ServedLeaves DEF ListInv, QueryInv
<1>2. \E todo : AskOn(todo)
  BY DEF ReadData
<1>3. ASSUME NEW n \in Live, NEW v, Fits(bus, calls, displayData, n, v) PROVE Fits(bus', calls', displayData', n, v)
  <2>1. ~Changes(bus[1], n)
    BY <1>1 DEF Changes
  <2>2. CASE n = name
    <3>1. \A m \in ToSet(bus) \union ToSet(calls) : ~Setting(m, n)
      BY <1>1, <2>2 DEF ListInv, SetsInv
    <3>2. Fits(bus', calls, displayData', n, v)
      BY <1>1, <1>3, <2>2, <3>1, FitsRead
    <3> QED BY <1>1, <1>2, <3>2, FitsQueried
  <2>3. CASE n # name
    <3>1. Fits(bus', calls, displayData, n, v)
      BY <1>1, <1>3, <2>1, FitsTaken
    <3>2. Fits(bus', calls', displayData, n, v)
      BY <1>1, <1>2, <3>1, FitsQueried
    <3> QED BY <1>1, <2>3, <3>2, FitsListed
  <2> QED BY <2>2, <2>3
<1> QED BY <1>1, <1>3 DEF ValuesInv, Live

LEMMA ChangedApplet ==
    ASSUME ListInv, ValuesInv, onBrightnessChanged
    PROVE  ListInv' /\ ValuesInv'
<1> DEFINE name == bus[1].name
           value == bus[1].value
<1>1. /\ Reads("changed")
      /\ UNCHANGED <<served, calls, knownNames, shownNames, querying, recheck>>
      /\ IF bus[1].client = "applet" THEN UNCHANGED <<displayData, crossed>>
         ELSE /\ modelBrightness(name, value)
              /\ crossed' = (crossed \/ Outstanding(name))
  BY DEF onBrightnessChanged
<1>2. /\ DOMAIN displayData' = DOMAIN displayData
      /\ \A n \in DOMAIN displayData : n # name => displayData'[n] = displayData[n]
      /\ bus[1].client # "applet" /\ name \in DOMAIN displayData => displayData'[name] = value
      /\ bus[1].client = "applet" => UNCHANGED displayData /\ UNCHANGED crossed
  BY <1>1 DEF modelBrightness
<1>3. ListInv'
  BY <1>1, <1>2, TakingList
<1>4. /\ UNCHANGED overlapped /\ UNCHANGED tracked /\ UNCHANGED displayChildren /\ UNCHANGED calls
      /\ bus # <<>> /\ bus' = Tail(bus) /\ bus[1].what = "changed" /\ Sequence(bus) /\ Sequence(calls)
  BY <1>1, ServedLeaves, ReadsFirst DEF ListInv, QueryInv
<1>5. ASSUME NEW n, NEW v, Fits(bus, calls, displayData, n, v), ~crossed' PROVE Fits(bus', calls, displayData', n, v)
  <2>1. CASE Changes(bus[1], n)
    <3>1. n = name /\ bus[1].client # "applet" /\ ~Outstanding(n)
      BY <1>1, <1>5, <2>1 DEF Changes
    <3>2. \A m \in ToSet(bus) \union ToSet(calls) : ~Setting(m, n)
      <4>1. DOMAIN bus = 1 .. Len(bus) /\ DOMAIN calls = 1 .. Len(calls)
        BY <1>4, Members
      <4>2. ASSUME NEW m \in ToSet(bus), Setting(m, n) PROVE FALSE
        BY <3>1, <4>2 DEF Outstanding, Setting, ToSet
      <4>3. ASSUME NEW m \in ToSet(calls), Setting(m, n) PROVE FALSE
        BY <3>1, <4>3 DEF Outstanding, Setting, ToSet
      <4> QED BY <4>2, <4>3
    <3>3. (n \in DOMAIN displayData' <=> n \in DOMAIN displayData) /\ (n \in DOMAIN displayData' => displayData'[n] = bus[1].value)
      BY <1>2, <3>1
    <3> QED BY <1>4, <1>5, <2>1, <3>2, <3>3, FitsHeard
  <2>2. CASE ~Changes(bus[1], n)
    <3>1. Fits(bus', calls, displayData, n, v)
      BY <1>4, <1>5, <2>2, FitsTaken
    <3>2. bus[1].client = "applet" \/ n # name
      BY <1>4, <2>2 DEF Changes
    <3>3. (n \in DOMAIN displayData' <=> n \in DOMAIN displayData) /\ (n \in DOMAIN displayData' => displayData'[n] = displayData[n])
      BY <1>2, <3>2
    <3> QED BY <3>1, <3>3, FitsListed
  <2> QED BY <2>1, <2>2
<1>6. ~crossed' => ~crossed
  BY <1>1
<1>7. ValuesInv'
  BY <1>4, <1>5, <1>6 DEF ValuesInv
<1> QED BY <1>3, <1>7

LEMMA RepliedApplet ==
    ASSUME ListInv, ValuesInv, SetBrightnessReplied
    PROVE  ListInv' /\ ValuesInv'
<1> DEFINE name == bus[1].name
<1>1. /\ Reads("set")
      /\ UNCHANGED <<served, calls, knownNames, shownNames, querying, recheck>> /\ UNCHANGED crossed
      /\ UNCHANGED displayData \/ (~bus[1].ok /\ modelBrightness(name, changeWatcher[2]))
  BY DEF SetBrightnessReplied
<1>2. /\ DOMAIN displayData' = DOMAIN displayData
      /\ \A n \in DOMAIN displayData : n # name \/ bus[1].ok => displayData'[n] = displayData[n]
  BY <1>1 DEF modelBrightness
<1>3. ListInv'
  BY <1>1, <1>2, TakingList
<1>4. /\ UNCHANGED overlapped /\ UNCHANGED tracked /\ UNCHANGED displayChildren /\ UNCHANGED calls
      /\ bus # <<>> /\ bus' = Tail(bus) /\ bus[1].what = "set" /\ Sequence(bus) /\ Sequence(calls)
      /\ bus[1] \in ToSet(bus)
  BY <1>1, ServedLeaves, ReadsFirst DEF ListInv, QueryInv
<1>5. ASSUME NEW n \in Live, NEW v, Fits(bus, calls, displayData, n, v) PROVE Fits(bus', calls, displayData', n, v)
  <2>1. ~Changes(bus[1], n)
    BY <1>4 DEF Changes
  <2>2. Fits(bus', calls, displayData, n, v)
    BY <1>4, <1>5, <2>1, FitsTaken
  <2>3. n = name => bus[1].ok
    BY <1>4 DEF ListInv, SetsInv, Setting
  <2> QED BY <1>2, <2>2, <2>3, FitsListed
<1>6. ValuesInv'
  BY <1>1, <1>4, <1>5 DEF ValuesInv, Live
<1> QED BY <1>3, <1>6

LEMMA SetBrightnessValues ==
    ASSUME ListInv, ValuesInv, NEW name \in ToSet(shownNames), NEW value, SetBrightness(name, value)
    PROVE  ValuesInv'
<1> DEFINE call == [what |-> "set", name |-> name, value |-> value, serial |-> events]
<1>1. /\ UNCHANGED overlapped /\ UNCHANGED tracked /\ UNCHANGED displayChildren /\ UNCHANGED bus
      /\ UNCHANGED crossed /\ calls' = Append(calls, call) /\ Sequence(calls)
  BY DEF SetBrightness, controller, ListInv, QueryInv
<1>2. /\ name \in DOMAIN displayData /\ DOMAIN displayData' = DOMAIN displayData
      /\ displayData'[name] = value
      /\ \A n \in DOMAIN displayData : n # name => displayData'[n] = displayData[n]
  BY SetBrightnessList
<1>3. call.what = "set" /\ call.name = name /\ call.value = value
  OBVIOUS
<1> HIDE DEF call
<1>4. ASSUME NEW n, NEW v, Fits(bus, calls, displayData, n, v) PROVE Fits(bus, calls', displayData', n, v)
  <2>1. CASE n = name
    <3>1. Setting(call, n) /\ displayData'[n] = call.value
      BY <1>2, <1>3, <2>1 DEF Setting
    <3> QED BY <1>1, <1>2, <1>4, <2>1, <3>1, FitsSet
  <2>2. CASE n # name
    <3>1. ~Setting(call, n)
      BY <1>3, <2>2 DEF Setting
    <3>2. Fits(bus, calls', displayData, n, v)
      BY <1>1, <1>4, <3>1, FitsAsked
    <3> QED BY <1>2, <2>2, <3>2, FitsListed
  <2> QED BY <2>1, <2>2
<1> QED BY <1>1, <1>4 DEF ValuesInv

-----------------------------------------------------------------------------
(* What changes the displays and their values.                             *)

LEMMA TellsApplet ==
    ASSUME Sane, AppletInv, NEW told, Tells(told)
    PROVE  AppletInv'
BY TellsList, TellsValuesKept DEF AppletInv

LEMMA NoLess == ASSUME NEW n \in Nat PROVE n >= n
OBVIOUS

LEMMA Increased == ASSUME NEW n \in Nat, NEW k \in Nat PROVE n + k \in Nat /\ n + k >= n
OBVIOUS

\* Each change of a value is announced.
LEMMA ChangesTell ==
    ASSUME Sane, NumbersInv, Sequence(bus), NEW changed,
           bus' = bus \o changedSignals(changed, ""), DOMAIN tracked' = DOMAIN tracked,
           \A o \in DOMAIN tracked :
             tracked'[o].value = IF o \in DOMAIN changed THEN changed[o].value ELSE tracked[o].value,
           UNCHANGED <<displayChildren, nextDisplayIndex, calls, applet>>, overlapped => overlapped'
    PROVE  Tells(changedSignals(changed, ""))
<1> DEFINE told == changedSignals(changed, "")
<1>1. /\ Sequence(told)
      /\ \A m \in ToSet(told) :
                \E o \in DOMAIN changed \cap DOMAIN tracked :
                    /\ m.what = "changed" /\ m.name = displayChildren[o]
                    /\ m.value = changed[o].value /\ m.client = ""
      /\ \A o \in DOMAIN changed \cap DOMAIN tracked :
                \E m \in ToSet(told) : m.what = "changed" /\ m.name = displayChildren[o]
  BY Signals
<1> HIDE DEF told
<1>2. \A m \in ToSet(told) : m.what = "changed" /\ m.client = "" /\ m.name \in Live
  BY <1>1 DEF Live
<1>3. TellsValues(told)
  <2>1. ASSUME NEW o \in DOMAIN tracked, NEW m \in ToSet(told), m.name = displayChildren[o]
        PROVE  m.value = tracked'[o].value
    <3>1. PICK p \in DOMAIN changed \cap DOMAIN tracked :
              m.name = displayChildren[p] /\ m.value = changed[p].value
      BY <1>1
    <3>2. p = o
      BY <2>1, <3>1 DEF NumbersInv
    <3> QED BY <3>1, <3>2
  <2>2. ASSUME NEW o \in DOMAIN tracked
        PROVE  \/ tracked'[o].value = tracked[o].value
               \/ \E m \in ToSet(told) : m.what = "changed" /\ m.name = displayChildren[o]
    BY <1>1
  <2> QED BY <2>1, <2>2 DEF TellsValues
<1>4. /\ UNCHANGED displayChildren /\ UNCHANGED nextDisplayIndex /\ UNCHANGED <<calls, applet>>
      /\ bus' = bus \o told
  BY DEF told
<1>5. nextDisplayIndex' \in Nat /\ nextDisplayIndex' >= nextDisplayIndex
  <2>1. nextDisplayIndex \in Nat
    BY DEF NumbersInv
  <2>2. nextDisplayIndex' = nextDisplayIndex
    BY <1>4
  <2>3. nextDisplayIndex >= nextDisplayIndex
    BY <2>1, NoLess
  <2>4. nextDisplayIndex' \in Nat
    BY <2>1, <2>2, Zenon
  <2>5. nextDisplayIndex' >= nextDisplayIndex
    BY <2>2, <2>3, Zenon
  <2> QED BY <2>4, <2>5
<1>6. \A o, p \in DOMAIN tracked' : displayChildren'[o] = displayChildren'[p] => o = p
  BY <1>4 DEF NumbersInv
<1>7. Tells(told)
  BY <1>1, <1>2, <1>3, <1>4, <1>5, <1>6 DEF Tells
<1> QED BY <1>7 DEF told

LEMMA NothingTold ==
    ASSUME Sane, AppletInv, UNCHANGED <<tracked, displayChildren, nextDisplayIndex, calls, bus, applet>>,
           overlapped => overlapped'
    PROVE  AppletInv'
<1>1. Sequence(bus) /\ NumbersInv
  BY DEF AppletInv, ListInv, QueryInv
<1>2. PICK S : bus \in Seq(S)
  BY <1>1 DEF Sequence
<1>3. bus' = bus \o <<>>
  BY <1>2
<1>4. /\ UNCHANGED tracked /\ UNCHANGED displayChildren /\ UNCHANGED nextDisplayIndex
      /\ UNCHANGED <<calls, applet>>
  OBVIOUS
<1>5. TellsValues(<<>>)
  BY <1>4, Emptied DEF TellsValues
<1>6. nextDisplayIndex' \in Nat /\ nextDisplayIndex' >= nextDisplayIndex
  BY <1>1, <1>4 DEF NumbersInv
<1>7. \A o, p \in DOMAIN tracked' : displayChildren'[o] = displayChildren'[p] => o = p
  BY <1>1, <1>4 DEF NumbersInv
<1>8. Tells(<<>>)
  BY <1>3, <1>4, <1>5, <1>6, <1>7, Emptied DEF Tells
<1> QED BY <1>8, TellsApplet

LEMMA TrackApplet ==
    ASSUME Sane, AppletInv, NEW changed, Track(changed, ""),
           UNCHANGED <<displayChildren, nextDisplayIndex, calls, applet>>, overlapped => overlapped'
    PROVE  AppletInv'
<1>1. tracked' = With(changed) /\ bus' = bus \o changedSignals(changed, "")
  BY DEF Track
<1>2. DOMAIN tracked' = DOMAIN tracked /\ \A o \in DOMAIN tracked :
             tracked'[o].value = IF o \in DOMAIN changed THEN changed[o].value ELSE tracked[o].value
  BY <1>1 DEF With
<1>3. NumbersInv /\ Sequence(bus)
  BY DEF AppletInv, ListInv, QueryInv
<1> QED BY <1>1, <1>2, <1>3, ChangesTell, TellsApplet

LEMMA AdjustApplet ==
    ASSUME Sane, AppletInv, NEW delta, adjustBrightnessRatio(delta), UNCHANGED others
    PROVE  AppletInv'
<1> DEFINE target == [o \in DOMAIN tracked |->
                        valueAsRatio(tracked[o].value) + delta + tracked[o].trackingError]
           bounded == [o \in DOMAIN tracked |-> valueFromRatio(target[o])]
           news == [o \in News(bounded) |-> tracked'[o]]
<1>1. /\ tracked' = [o \in DOMAIN tracked |->
                       [value |-> bounded[o], trackingError |-> target[o] - valueAsRatio(bounded[o])]]
      /\ bus' = bus \o changedSignals(news, "")
  BY DEF adjustBrightnessRatio
<1>2. DOMAIN bounded = DOMAIN tracked
  OBVIOUS
<1> HIDE DEF bounded, target
<1>3. /\ DOMAIN news = {o \in DOMAIN tracked : bounded[o] # tracked[o].value}
      /\ \A o \in DOMAIN news : news[o] = tracked'[o]
  BY <1>2 DEF News
<1> HIDE DEF news
<1>4. DOMAIN tracked' = DOMAIN tracked /\ \A o \in DOMAIN tracked :
             tracked'[o].value = IF o \in DOMAIN news THEN news[o].value ELSE tracked[o].value
  <2>1. DOMAIN tracked' = DOMAIN tracked /\ \A o \in DOMAIN tracked : tracked'[o].value = bounded[o]
    BY <1>1
  <2>2. \A o \in DOMAIN news : news[o].value = tracked'[o].value
    BY <1>3
  <2>3. \A o \in DOMAIN tracked : o \notin DOMAIN news => bounded[o] = tracked[o].value
    BY <1>3
  <2> QED BY <2>1, <2>2, <2>3
<1>5. /\ UNCHANGED <<displayChildren, nextDisplayIndex, calls, applet>> /\ UNCHANGED overlapped
      /\ NumbersInv /\ Sequence(bus)
  BY DEF others, AppletInv, ListInv, QueryInv
<1> QED BY <1>1, <1>4, <1>5, ChangesTell, TellsApplet

LEMMA UserApplet ==
    ASSUME Sane, AppletInv, User
    PROVE  AppletInv'
<1>1. CASE \E delta \in {MaxBrightness * Grain, 1, -1} : AdjustBrightnessRatio(delta)
  <2>1. \E delta : adjustBrightnessRatio(delta) /\ UNCHANGED others
    BY <1>1 DEF AdjustBrightnessRatio
  <2> QED BY <2>1, AdjustApplet
<1>2. CASE \E adjustment \in {"Increase", "Decrease"} : adjustBrightnessStep(adjustment)
  <2>1. \E delta : adjustBrightnessRatio(delta) /\ UNCHANGED others
    BY <1>2 DEF adjustBrightnessStep
  <2> QED BY <2>1, AdjustApplet
<1>3. CASE SetAllBrightness(0)
  <2>1. \E changed : Track(changed, "")
    BY <1>3 DEF SetAllBrightness, setBrightness
  <2>2. UNCHANGED <<displayChildren, nextDisplayIndex, calls, applet>> /\ UNCHANGED overlapped
    BY <1>3 DEF SetAllBrightness, others
  <2> QED BY <2>1, <2>2, TrackApplet
<1>4. CASE \E ratio \in {0, 1} : setDimmingRatio(ratio)
  <2>1. UNCHANGED <<tracked, displayChildren, nextDisplayIndex, calls, bus, applet>> /\ UNCHANGED overlapped
    BY <1>4 DEF setDimmingRatio, others
  <2> QED BY <2>1, NothingTold
<1>5. CASE \E value, conservative : onProfileLoad(value, conservative)
  <2>1. \E changed : Track(changed, "")
    BY <1>5 DEF onProfileLoad, setBrightness
  <2>2. UNCHANGED <<displayChildren, nextDisplayIndex, calls, applet>> /\ UNCHANGED overlapped
    BY <1>5 DEF onProfileLoad
  <2> QED BY <2>1, <2>2, TrackApplet
<1>6. CASE \E name \in ToSet(shownNames), value \in Chosen : SetBrightness(name, value)
  BY <1>6, SetBrightnessList, SetBrightnessValues DEF AppletInv
<1>7. \/ \E value, conservative : onProfileLoad(value, conservative)
      \/ ~(\E conservative \in BOOLEAN : onProfileLoad(MaxBrightness, conservative)) /\ ~onProfileLoad(NoValue, FALSE)
  OBVIOUS
<1> QED BY <1>1, <1>2, <1>3, <1>4, <1>5, <1>6, <1>7 DEF User

LEMMA DoneApplet ==
    ASSUME Sane, AppletInv, SetConfigDone
    PROVE  AppletInv'
<1>1. UNCHANGED <<displayChildren, nextDisplayIndex, calls, applet>> /\ UNCHANGED overlapped
  BY DEF SetConfigDone, untouched
<1>2. CASE setConfigOutOfDate
  <2>1. UNCHANGED <<tracked, bus>>
    BY <1>2 DEF SetConfigDone
  <2>2. UNCHANGED <<tracked, displayChildren, nextDisplayIndex, calls, bus, applet>>
    BY <1>1, <2>1
  <2> QED BY <1>1, <2>2, NothingTold
<1>3. CASE ~setConfigOutOfDate
  <2>1. \E changed : Track(changed, "")
    BY <1>3 DEF SetConfigDone
  <2> QED BY <1>1, <2>1, TrackApplet
<1> QED BY <1>2, <1>3

LEMMA Grouped ==
    ASSUME NEW a, NEW b, NEW c, NEW d, Sequence(a), Sequence(b), Sequence(c), Sequence(d)
    PROVE  /\ ((a \o b) \o c) \o d = a \o ((b \o c) \o d)
           /\ Sequence((b \o c) \o d)
           /\ ToSet((b \o c) \o d) = ToSet(b) \union ToSet(c) \union ToSet(d)
<1>1. ASSUME NEW r, NEW s, NEW t, Sequence(r), Sequence(s), Sequence(t)
      PROVE  (r \o s) \o t = r \o (s \o t)
  <2>1. PICK R, S, T : r \in Seq(R) /\ s \in Seq(S) /\ t \in Seq(T)
    BY <1>1 DEF Sequence
  <2> DEFINE U == R \union S \union T
  <2>2. (\A i \in 1 .. Len(r) : r[i] \in U) /\ (\A i \in 1 .. Len(s) : s[i] \in U) /\ (\A i \in 1 .. Len(t) : t[i] \in U)
    BY <2>1
  <2>3. r \in Seq(U) /\ s \in Seq(U) /\ t \in Seq(U)
    BY <2>1, <2>2
  <2> HIDE DEF U
  <2> QED BY <2>3
<1>2. Sequence(b \o c) /\ ToSet(b \o c) = ToSet(b) \union ToSet(c)
  BY Joined
<1>3. Sequence((b \o c) \o d) /\ ToSet((b \o c) \o d) = ToSet(b \o c) \union ToSet(d)
  BY <1>2, Joined
<1>4. (a \o b) \o c = a \o (b \o c)
  BY <1>1, SMTT(60)
<1>5. (a \o (b \o c)) \o d = a \o ((b \o c) \o d)
  <2> DEFINE x == b \o c
  <2>1. Sequence(x)
    BY <1>2
  <2> HIDE DEF x
  <2>2. (a \o x) \o d = a \o (x \o d)
    BY <1>1, <2>1, SMTT(60)
  <2> QED BY <2>2, Zenon DEF x
<1>6. ((a \o b) \o c) \o d = a \o ((b \o c) \o d)
  BY <1>4, <1>5, Zenon
<1>7. ToSet((b \o c) \o d) = ToSet(b) \union ToSet(c) \union ToSet(d)
  BY <1>2, <1>3, Zenon
<1> QED BY <1>3, <1>6, <1>7, Zenon

\* The names given to new displays are different, and follow the earlier ones.
LEMMA NewNumbers ==
    ASSUME NEW next \in Nat, NEW S \in SUBSET Nat, IsFiniteSet(S)
    PROVE  /\ Cardinality(S) \in Nat
           /\ \A o \in S : next + Cardinality({i \in S : i < o}) \in next .. next + Cardinality(S) - 1
           /\ \A o, p \in S : next + Cardinality({i \in S : i < o}) = next + Cardinality({i \in S : i < p})
                                 => o = p
<1> DEFINE Below(o) == {i \in S : i < o}
<1>1. Cardinality(S) \in Nat
  BY FS_CardinalityType
<1>2. ASSUME NEW o \in S
      PROVE  /\ IsFiniteSet(Below(o)) /\ Cardinality(Below(o)) \in Nat
             /\ Cardinality(Below(o)) < Cardinality(S)
  <2>1. Below(o) \in SUBSET S /\ o \notin Below(o)
    <3>1. ~(o < o)
      OBVIOUS
    <3> QED BY <3>1
  <2> HIDE DEF Below
  <2>2. /\ IsFiniteSet(Below(o)) /\ Cardinality(Below(o)) <= Cardinality(S)
        /\ Cardinality(S) = Cardinality(Below(o)) => S = Below(o)
    BY <2>1, FS_Subset
  <2>3. Cardinality(Below(o)) \in Nat
    BY <2>2, FS_CardinalityType
  <2>4. Cardinality(Below(o)) # Cardinality(S)
    BY <2>1, <2>2
  <2> QED BY <1>1, <2>2, <2>3, <2>4
<1>3. ASSUME NEW o \in S, NEW p \in S, o < p PROVE Cardinality(Below(o)) < Cardinality(Below(p))
  <2>1. Below(o) \in SUBSET Below(p) /\ o \in Below(p) /\ o \notin Below(o)
    <3>1. ~(o < o)
      OBVIOUS
    <3>2. \A i \in S : i < o => i < p
      BY <1>3
    <3> QED BY <1>3, <3>1, <3>2
  <2>2. /\ IsFiniteSet(Below(o)) /\ IsFiniteSet(Below(p))
        /\ Cardinality(Below(o)) \in Nat /\ Cardinality(Below(p)) \in Nat
    BY <1>2
  <2> HIDE DEF Below
  <2>3. /\ Cardinality(Below(o)) <= Cardinality(Below(p))
        /\ Cardinality(Below(p)) = Cardinality(Below(o)) => Below(p) = Below(o)
    BY <2>1, <2>2, FS_Subset
  <2>4. Cardinality(Below(o)) # Cardinality(Below(p))
    BY <2>1, <2>3
  <2> QED BY <2>2, <2>3, <2>4
<1> HIDE DEF Below
<1>4. ASSUME NEW o \in S PROVE next + Cardinality(Below(o)) \in next .. next + Cardinality(S) - 1
  BY <1>1, <1>2
<1>5. ASSUME NEW o \in S, NEW p \in S, next + Cardinality(Below(o)) = next + Cardinality(Below(p))
      PROVE  o = p
  <2>1. Cardinality(Below(o)) = Cardinality(Below(p))
    BY <1>2, <1>5
  <2>2. ~(o < p) /\ ~(p < o)
    BY <1>2, <1>3, <2>1
  <2> QED BY <2>2
<1> QED BY <1>1, <1>4, <1>5 DEF Below

LEMMA Between ==
    ASSUME NEW a \in Nat, NEW k \in Nat, NEW b, b = a + k, NEW x, x \in a .. a + k - 1
    PROVE  x \in a .. b - 1
OBVIOUS

\* t announces what `changed` has for the displays that there are.
Announcing(t, changed) ==
       /\ Sequence(t)
       /\ \A m \in ToSet(t) :
            \E o \in DOMAIN changed \cap DOMAIN tracked :
                /\ m.what = "changed" /\ m.name = displayChildren[o]
                /\ m.value = changed[o].value /\ m.client = ""
       /\ \A o \in DOMAIN changed \cap DOMAIN tracked :
            \E m \in ToSet(t) : m.what = "changed" /\ m.name = displayChildren[o]
LEMMA Announcements ==
    ASSUME Sane, NEW changed
    PROVE Announcing(changedSignals(changed, ""), changed)
<1> DEFINE client == ""
<1> HIDE DEF client
<1>1. /\ Sequence(changedSignals(changed, client))
      /\ \A m \in ToSet(changedSignals(changed, client)) :
            \E o \in DOMAIN changed \cap DOMAIN tracked :
                /\ m.what = "changed" /\ m.name = displayChildren[o]
                /\ m.value = changed[o].value /\ m.client = client
      /\ \A o \in DOMAIN changed \cap DOMAIN tracked :
            \E m \in ToSet(changedSignals(changed, client)) : m.what = "changed" /\ m.name = displayChildren[o]
  BY Signals
<1> DEFINE t == changedSignals(changed, client)
<1> HIDE DEF t
<1>2. Announcing(t, changed)
  BY <1>1 DEF Announcing, t, client
<1> QED BY <1>2 DEF t, client

\* The displays are others: each has its name, and the applet is told.
LEMMA DisplaysChangedApplet ==
    ASSUME CoreInv, AppletInv, NEW outputs, updates # <<>>, outputs = updates[1],
           config' = checkedOutputs(outputs),
           overlapped' = (overlapped \/ (Busy /\ Stale(outputs))),
           UNCHANGED untouched,
           ~(Managed(outputs) = DOMAIN displays /\ Recreated(outputs) = {}),
           onDetectorDisplaysChanged(outputs)
    PROVE  AppletInv'
<1> DEFINE S == handleBrightnessChanged(outputs)
           changed == Observed(S, outputs)
           before == With(changed)
           now == Managed(outputs)
           added == now \ DOMAIN tracked
           replaced == Recreated(outputs)
           fresh == added \cup replaced
           valueChanged == {o \in replaced : before[o].value # outputs[o].brightness}
           profile == displayAdded(added)
           shown == [o \in now |->
                       IF o \in DOMAIN profile THEN [value |-> profile[o], trackingError |-> 0]
                       ELSE [value |-> outputs[o].brightness,
                             trackingError |-> IF o \in fresh THEN 0 ELSE before[o].trackingError]]
           revalued == [o \in valueChanged |-> shown[o]]
           first == changedSignals(changed, "")
           listed == IF now # DOMAIN tracked THEN <<[what |-> "propertiesChanged"]>> ELSE <<>>
           then == changedSignals(revalued, "")
           told == (first \o listed) \o then
<1>1. Sane /\ NumbersInv /\ Sequence(bus)
  BY CoreIsSane DEF CoreInv, AppletInv, ListInv, QueryInv
<1>2. /\ DOMAIN displays = Managed(config) /\ DOMAIN tracked = Managed(config)
      /\ DOMAIN displayChildren = Managed(config) /\ overlapped \in BOOLEAN
  BY SMTT(30) DEF CoreInv, CoreTypeOK
<1>3. /\ tracked' = shown
      /\ displayChildren' = insertDisplayChildren([o \in now \ added |-> displayChildren[o]], added)
      /\ nextDisplayIndex' = nextDisplayIndex + Cardinality(added)
      /\ bus' = ((bus \o first) \o listed) \o then
  BY DEF onDetectorDisplaysChanged
<1>4. /\ added = now \ Managed(config) /\ added \subseteq now
      /\ DOMAIN profile \subseteq added /\ DOMAIN shown = now
      /\ replaced = {o \in now \cap Managed(config) : displays[o].label # outputs[o].label}
      /\ now \subseteq Outputs /\ DOMAIN revalued = valueChanged
  BY <1>2 DEF displayAdded, Recreated, Managed
<1>5. IsFiniteSet(added) /\ added \in SUBSET Nat
  <2>1. added \in SUBSET Outputs
    BY <1>4
  <2> QED BY <2>1, KWinAssumption, FS_Subset
<1>6. S = {o \in Managed(config) : /\ ~displays[o].inhibitChangeSignal
                                   /\ outputs[o].status # "gone"
                                   /\ config[o].brightness # outputs[o].brightness}
  <2>1. \A o \in Managed(config) : config[o].status = "capable"
    BY DEF Managed
  <2> QED BY <1>2, <2>1 DEF handleBrightnessChanged
<1>7. /\ DOMAIN changed = {o \in S : outputs[o].brightness # tracked[o].value}
      /\ \A o \in DOMAIN changed : changed[o].value = outputs[o].brightness
  BY DEF Observed, News
<1>8. \A o \in Managed(config) :
         before[o].value = IF o \in DOMAIN changed THEN changed[o].value ELSE tracked[o].value
  <2>1. \A o \in Managed(config) : before[o] = IF o \in DOMAIN changed THEN changed[o] ELSE tracked[o]
    BY <1>2 DEF With
  <2> QED BY <2>1
<1>9. \A o \in now : shown[o].value = IF o \in DOMAIN profile THEN profile[o] ELSE outputs[o].brightness
  <2>1. \A o \in now : shown[o] = IF o \in DOMAIN profile THEN [value |-> profile[o], trackingError |-> 0]
                     ELSE [value |-> outputs[o].brightness,
                           trackingError |-> IF o \in fresh THEN 0 ELSE before[o].trackingError]
    OBVIOUS
  <2> HIDE DEF shown, profile, fresh, before, added, replaced
  <2>2. ASSUME NEW o \in now PROVE shown[o].value = IF o \in DOMAIN profile THEN profile[o] ELSE outputs[o].brightness
    <3>1. CASE o \in DOMAIN profile
      <4>1. shown[o] = [value |-> profile[o], trackingError |-> 0]
        BY <2>1, <2>2, <3>1, Zenon
      <4> QED BY <3>1, <4>1
    <3>2. CASE o \notin DOMAIN profile
      <4> DEFINE e == IF o \in fresh THEN 0 ELSE before[o].trackingError
      <4>1. shown[o] = [value |-> outputs[o].brightness, trackingError |-> e]
        BY <2>1, <2>2, <3>2
      <4> HIDE DEF e
      <4> QED BY <3>2, <4>1
    <3> QED BY <3>1, <3>2
  <2> QED BY <2>2
<1>10. /\ \A o : o \in valueChanged <=> o \in replaced /\ before[o].value # outputs[o].brightness
       /\ \A o \in valueChanged : revalued[o] = shown[o]
       /\ fresh = added \cup replaced
  OBVIOUS
<1> HIDE DEF S, changed, before, now, added, replaced, fresh, valueChanged, profile, shown, revalued
<1>11. /\ Sequence(first)
       /\ \A m \in ToSet(first) :
            \E o \in DOMAIN changed \cap DOMAIN tracked :
                /\ m.what = "changed" /\ m.name = displayChildren[o]
                /\ m.value = changed[o].value /\ m.client = ""
       /\ \A o \in DOMAIN changed \cap DOMAIN tracked :
            \E m \in ToSet(first) : m.what = "changed" /\ m.name = displayChildren[o]
  <2>1. Announcing(first, changed)
    BY <1>1, Announcements
  <2> HIDE DEF first, then
  <2> QED BY <2>1 DEF Announcing
<1>12. /\ Sequence(then)
       /\ \A m \in ToSet(then) :
            \E o \in DOMAIN revalued \cap DOMAIN tracked :
                /\ m.what = "changed" /\ m.name = displayChildren[o]
                /\ m.value = revalued[o].value /\ m.client = ""
       /\ \A o \in DOMAIN revalued \cap DOMAIN tracked :
            \E m \in ToSet(then) : m.what = "changed" /\ m.name = displayChildren[o]
  <2>1. Announcing(then, revalued)
    BY <1>1, Announcements
  <2> HIDE DEF first, then
  <2> QED BY <2>1 DEF Announcing
<1>13. /\ Sequence(listed) /\ \A m \in ToSet(listed) : m.what = "propertiesChanged"
       /\ now # DOMAIN tracked => \E m \in ToSet(listed) : m.what = "propertiesChanged"
  <2>1. CASE now # DOMAIN tracked
    <3> DEFINE m == [what |-> "propertiesChanged"]
    <3>1. listed = <<m>> /\ m.what = "propertiesChanged"
      BY <2>1
    <3> HIDE DEF m, listed
    <3>2. listed \in Seq({m}) /\ DOMAIN listed = {1} /\ listed[1] = m
      BY <3>1
    <3>3. ToSet(listed) = {m} /\ Sequence(listed)
      BY <3>2 DEF ToSet, Sequence
    <3> QED BY <3>1, <3>3
  <2>2. CASE now = DOMAIN tracked
    <3>1. listed = <<>>
      BY <2>2
    <3> HIDE DEF listed
    <3> QED BY <2>2, <3>1, Emptied
  <2> QED BY <2>1, <2>2
<1> HIDE DEF first, listed, then
<1>14. /\ bus' = bus \o told /\ Sequence(told)
       /\ ToSet(told) = ToSet(first) \union ToSet(listed) \union ToSet(then)
  <2>1. Sequence(bus) /\ Sequence(first) /\ Sequence(listed) /\ Sequence(then)
    BY <1>1, <1>11, <1>12, <1>13
  <2>2. bus' = ((bus \o first) \o listed) \o then
    BY <1>3
  <2>3. told = (first \o listed) \o then
    OBVIOUS
  <2> HIDE DEF told
  <2>4. /\ ((bus \o first) \o listed) \o then = bus \o ((first \o listed) \o then)
        /\ Sequence((first \o listed) \o then)
        /\ ToSet((first \o listed) \o then) = ToSet(first) \union ToSet(listed) \union ToSet(then)
    BY <2>1, Grouped, SMTT(30)
  <2> QED BY <2>2, <2>3, <2>4, Zenon
<1> HIDE DEF told
<1>15. nextDisplayIndex \in Nat \ {0} /\ Cardinality(added) \in Nat
       /\ nextDisplayIndex' \in Nat /\ nextDisplayIndex' >= nextDisplayIndex
  <2>1. nextDisplayIndex \in Nat \ {0} /\ Cardinality(added) \in Nat
    BY <1>1, <1>5, FS_CardinalityType DEF NumbersInv
  <2>2. nextDisplayIndex + Cardinality(added) \in Nat
        /\ nextDisplayIndex + Cardinality(added) >= nextDisplayIndex
    BY <2>1, Increased
  <2>3. nextDisplayIndex' = nextDisplayIndex + Cardinality(added)
    BY <1>3
  <2> QED BY <2>1, <2>2, <2>3, Zenon
<1>16. /\ DOMAIN displayChildren' = now
       /\ \A o \in now \ added : displayChildren'[o] = displayChildren[o]
       /\ \A o \in added : displayChildren'[o] = nextDisplayIndex + Cardinality({i \in added : i < o})
  BY <1>3, <1>4 DEF insertDisplayChildren
<1>17. /\ \A o \in added : displayChildren'[o] \in nextDisplayIndex .. nextDisplayIndex' - 1
       /\ \A o, p \in added : displayChildren'[o] = displayChildren'[p] => o = p
  <2>1. nextDisplayIndex \in Nat /\ nextDisplayIndex' = nextDisplayIndex + Cardinality(added)
    BY <1>3, <1>15
  <2>2. /\ \A o \in added : nextDisplayIndex + Cardinality({i \in added : i < o})
                            \in nextDisplayIndex .. nextDisplayIndex + Cardinality(added) - 1
        /\ \A o, p \in added :
             nextDisplayIndex + Cardinality({i \in added : i < o})
               = nextDisplayIndex + Cardinality({i \in added : i < p}) => o = p
    BY <1>5, <2>1, NewNumbers
  <2>3. \A o \in added : displayChildren'[o] = nextDisplayIndex + Cardinality({i \in added : i < o})
    BY <1>16
  <2>4. \A o, p \in added : displayChildren'[o] = displayChildren'[p] => o = p
    <3>1. ASSUME NEW o \in added, NEW p \in added, displayChildren'[o] = displayChildren'[p]
          PROVE  nextDisplayIndex + Cardinality({i \in added : i < o})
                    = nextDisplayIndex + Cardinality({i \in added : i < p})
      BY <2>3, <3>1, Zenon
    <3> QED BY <2>2, <3>1, Zenon
  <2>5. ASSUME NEW o \in added PROVE displayChildren'[o] \in nextDisplayIndex .. nextDisplayIndex' - 1
    <3>1. displayChildren'[o] \in nextDisplayIndex .. nextDisplayIndex + Cardinality(added) - 1
      BY <2>2, <2>3, Zenon
    <3>2. Cardinality(added) \in Nat
      BY <1>15
    <3> QED BY <2>1, <3>1, <3>2, Between
  <2> QED BY <2>4, <2>5
<1>18. DOMAIN tracked' = now /\ DOMAIN tracked = Managed(config)
  BY <1>2, <1>3, <1>4
<1>19. \A o \in DOMAIN tracked' \cap DOMAIN tracked : displayChildren'[o] = displayChildren[o]
  BY <1>4, <1>16, <1>18
<1>20. \A o \in DOMAIN tracked' \ DOMAIN tracked :
          displayChildren'[o] \in nextDisplayIndex .. nextDisplayIndex' - 1
  BY <1>4, <1>17, <1>18
<1>21. \A o, p \in DOMAIN tracked' : displayChildren'[o] = displayChildren'[p] => o = p
  <2>1. \A o \in now \ added : displayChildren'[o] = displayChildren[o] /\ o \in DOMAIN tracked
    BY <1>4, <1>16, <1>18
  <2>2. \A o \in now \ added : displayChildren'[o] \in 1 .. nextDisplayIndex - 1
    BY <1>1, <2>1 DEF NumbersInv, GivenNames
  <2>3. \A o \in now \ added, p \in added : displayChildren'[o] # displayChildren'[p]
    <3>1. ASSUME NEW n \in 1 .. nextDisplayIndex - 1, n \in nextDisplayIndex .. nextDisplayIndex' - 1 PROVE FALSE
      BY <1>15, <3>1
    <3> QED BY <1>17, <2>2, <3>1
  <2>4. \A o, p \in now \ added : displayChildren'[o] = displayChildren'[p] => o = p
    BY <1>1, <2>1 DEF NumbersInv
  <2> QED BY <1>17, <1>18, <2>3, <2>4
<1>22. ASSUME ~overlapped' PROVE TellsValues(told)
  <2>1. ~overlapped /\ ~Busy
    <3>1. Differ(outputs, config)
      <4>1. CASE now # Managed(config)
        BY <4>1 DEF Managed, Differ, now
      <4>2. CASE now = Managed(config)
        <5>1. PICK o \in Managed(config) : displays[o].label # outputs[o].label
          BY <1>2, <4>2 DEF Recreated, now
        <5>2. displays[o].label = config[o].label /\ o \in Outputs
          BY <5>1 DEF Managed, CoreInv, OpInv
        <5> QED BY <5>1, <5>2 DEF Differ
      <4> QED BY <4>1, <4>2
    <3> QED BY <1>2, <1>22, <3>1 DEF Stale, Busy
  <2>2. ASSUME NEW o \in Managed(config)
        PROVE  tracked[o].value = config[o].brightness /\ ~displays[o].inhibitChangeSignal
    BY <2>1, <2>2 DEF CoreInv, ValueInv, OpInv, Busy
  <2>3. ASSUME NEW o \in now, o \in Managed(config)
        PROVE  /\ o \notin DOMAIN profile /\ tracked'[o].value = outputs[o].brightness
               /\ tracked[o].value = outputs[o].brightness \/ o \in DOMAIN changed
    <3>1. o \notin DOMAIN profile
      BY <1>4, <2>3
    <3>2. tracked'[o].value = outputs[o].brightness
      BY <1>3, <1>9, <3>1
    <3>3. outputs[o].status = "capable"
      BY DEF now, Managed
    <3>4. o \notin S => config[o].brightness = outputs[o].brightness
      BY <1>6, <2>2, <2>3, <3>3
    <3> QED BY <1>7, <2>2, <2>3, <3>1, <3>2, <3>4
  <2>4. ASSUME NEW o \in now, o \in Managed(config), NEW m \in ToSet(told), m.what = "changed",
               m.name = displayChildren[o]
        PROVE  m.value = tracked'[o].value
    <3>1. CASE m \in ToSet(first)
      <4>1. PICK p \in DOMAIN changed \cap DOMAIN tracked :
                m.name = displayChildren[p] /\ m.value = changed[p].value
        BY <1>11, <3>1
      <4>2. p = o
        BY <1>1, <1>18, <2>4, <4>1 DEF NumbersInv
      <4> QED BY <1>7, <2>3, <2>4, <4>1, <4>2
    <3>2. CASE m \in ToSet(then)
      <4>1. PICK p \in DOMAIN revalued \cap DOMAIN tracked :
                m.name = displayChildren[p] /\ m.value = revalued[p].value
        BY <1>12, <3>2
      <4>2. p = o
        BY <1>1, <1>18, <2>4, <4>1 DEF NumbersInv
      <4> QED BY <1>3, <1>4, <1>10, <4>1, <4>2
    <3>3. CASE m \in ToSet(listed)
      <4>1. m.what = "propertiesChanged"
        BY <1>13, <3>3
      <4> QED BY <2>4, <4>1
    <3> QED BY <1>14, <3>1, <3>2, <3>3
  <2>5. ASSUME NEW o \in now, o \in Managed(config)
        PROVE  \/ tracked'[o].value = tracked[o].value
               \/ \E m \in ToSet(told) : m.what = "changed" /\ m.name = displayChildren[o]
    <3>1. CASE tracked[o].value = outputs[o].brightness
      BY <2>3, <2>5, <3>1
    <3>2. CASE o \in DOMAIN changed
      BY <1>11, <1>14, <1>18, <2>5, <3>2
    <3> QED BY <2>3, <2>5, <3>1, <3>2
  <2> QED BY <1>18, <2>4, <2>5 DEF TellsValues
<1>23. \A m \in ToSet(told) :
          \/ m.what = "propertiesChanged"
          \/ m.what = "changed" /\ m.client = "" /\ m.name \in Live
  BY <1>11, <1>12, <1>13, <1>14 DEF Live
<1>24. DOMAIN tracked' # DOMAIN tracked => \E m \in ToSet(told) : m.what = "propertiesChanged"
  BY <1>13, <1>14, <1>18
<1>25. UNCHANGED <<calls, applet>> /\ (overlapped => overlapped')
  BY DEF untouched
<1>26. Tells(told)
  BY <1>14, <1>15, <1>19, <1>20, <1>21, <1>22, <1>23, <1>24, <1>25 DEF Tells
<1> QED BY <1>1, <1>26, TellsApplet

LEMMA ReadConfigurationApplet ==
    ASSUME CoreInv, AppletInv, ReadConfiguration
    PROVE  AppletInv'
<1>1. PICK outputs : outputs = updates[1]
  OBVIOUS
<1>2. /\ updates # <<>> /\ config' = checkedOutputs(outputs)
      /\ overlapped' = (overlapped \/ (Busy /\ Stale(outputs))) /\ UNCHANGED untouched
      /\ IF Managed(outputs) = DOMAIN displays /\ Recreated(outputs) = {}
         THEN SameDisplays(outputs) ELSE onDetectorDisplaysChanged(outputs)
  BY <1>1 DEF ReadConfiguration
<1>3. CASE Managed(outputs) = DOMAIN displays /\ Recreated(outputs) = {}
  <2>1. Sane
    BY CoreIsSane DEF CoreInv
  <2>2. \E changed : Track(changed, "")
    BY <1>2, <1>3 DEF SameDisplays
  <2>3. UNCHANGED <<displayChildren, nextDisplayIndex, calls, applet>> /\ (overlapped => overlapped')
    BY <1>2, <1>3 DEF SameDisplays, untouched
  <2> QED BY <2>1, <2>2, <2>3, TrackApplet
<1>4. CASE ~(Managed(outputs) = DOMAIN displays /\ Recreated(outputs) = {})
  BY <1>1, <1>2, <1>4, DisplaysChangedApplet
<1> QED BY <1>3, <1>4

\* What KWin does, and the sending of a configuration, is not told of.
LEMMA OutsideApplet ==
    ASSUME Sane, AppletInv, World \/ KWinAppliesRequest \/ SetConfig \/ UNCHANGED vars
    PROVE  AppletInv'
<1>1. UNCHANGED <<tracked, displayChildren, nextDisplayIndex, calls, bus, applet>> /\ (overlapped => overlapped')
  <2>1. CASE \E o, status, label : KWinChangesOutput(o, status, label)
    BY <2>1 DEF KWinChangesOutput, controller
  <2>2. CASE \E o, value : KWinChangesBrightness(o, value)
    BY <2>2 DEF KWinChangesBrightness, controller
  <2>3. CASE KWinAppliesRequest
    BY <2>3 DEF KWinAppliesRequest, controller
  <2>4. CASE SetConfig
    BY <2>4 DEF SetConfig, controller
  <2>5. CASE UNCHANGED vars
    BY <2>5 DEF vars, controller
  <2> QED BY <2>1, <2>2, <2>3, <2>4, <2>5 DEF World
<1> QED BY <1>1, NothingTold

LEMMA NextApplet ==
    ASSUME CoreInv, CallsInv, AppletInv, [Next]_vars
    PROVE  AppletInv'
<1>1. Sane /\ ListInv /\ ValuesInv
  BY CoreIsSane DEF CoreInv, AppletInv
<1>2. CASE World \/ KWinAppliesRequest \/ SetConfig \/ UNCHANGED vars
  BY <1>1, <1>2, OutsideApplet
<1>3. CASE User
  BY <1>1, <1>3, UserApplet
<1>4. CASE ReadConfiguration
  BY <1>4, ReadConfigurationApplet
<1>5. CASE SetConfigDone
  BY <1>1, <1>5, DoneApplet
<1>6. CASE ServeQuery
  BY <1>1, <1>6, ServeQueryList, ServeQueryValues DEF AppletInv
<1>7. CASE ServeSetBrightness
  BY <1>1, <1>7, ServeSetApplet DEF AppletInv
<1>8. CASE onGlobalPropertiesChanged
  BY <1>1, <1>8, PropertiesList, PropertiesValues DEF AppletInv
<1>9. CASE ReadNames
  BY <1>1, <1>9, ReadNamesList, ReadNamesValues DEF AppletInv
<1>10. CASE ReadData
  BY <1>1, <1>10, ReadDataList, ReadDataValues DEF AppletInv
<1>11. CASE onBrightnessChanged
  BY <1>1, <1>11, ChangedApplet DEF AppletInv
<1>12. CASE SetBrightnessReplied
  BY <1>1, <1>12, RepliedApplet DEF AppletInv
<1> QED BY <1>2, <1>3, <1>4, <1>5, <1>6, <1>7, <1>8, <1>9, <1>10, <1>11, <1>12 DEF Next, Daemon, Applet

\* The place of a number in the list is how many there are up to it.
LEMMA InOrderRanks ==
    ASSUME NEW S \in SUBSET Nat, IsFiniteSet(S)
    PROVE  \A j \in 1 .. Len(InOrder(S)) : Cardinality({i \in S : i <= InOrder(S)[j]}) = j
<1> DEFINE n == Cardinality(S)
           f == InOrder(S)
<1>1. \E g : Increasing(g, S)
  BY CanBeListed
<1>2. f \in [1 .. n -> S] /\ \A i, j \in 1 .. n : i < j => f[i] < f[j]
  BY <1>1 DEF InOrder, Increasing
<1>3. /\ n \in Nat /\ Len(f) = n
      /\ \A i, j \in 1 .. n : f[i] = f[j] => i = j
      /\ \A x \in S : \E i \in 1 .. n : f[i] = x
  BY InOrderLists, FS_CardinalityType
<1> HIDE DEF f, n
<1>4. ASSUME NEW j \in 1 .. n PROVE Cardinality({i \in S : i <= f[j]}) = j
  <2> DEFINE T == {i \in S : i <= f[j]}
             g == [k \in 1 .. j |-> f[k]]
  <2>1. \A k \in 1 .. j : k \in 1 .. n /\ f[k] \in S /\ f[k] \in Nat
    <3>1. \A k \in 1 .. j : k \in 1 .. n
      BY <1>3
    <3>2. \A k \in 1 .. n : f[k] \in S
      BY <1>2
    <3>3. \A x \in S : x \in Nat
      OBVIOUS
    <3> QED BY <3>1, <3>2, <3>3
  <2>2. \A k \in 1 .. j : f[k] <= f[j]
    <3>1. ASSUME NEW k \in 1 .. j PROVE f[k] <= f[j]
      <4>1. f[k] \in Nat /\ f[j] \in Nat
        BY <1>2, <2>1
      <4>2. CASE k = j
        BY <4>1, <4>2
      <4>3. CASE k < j
        BY <1>2, <2>1, <4>1, <4>3
      <4> QED BY <1>3, <4>2, <4>3
    <3> QED BY <3>1
  <2>3. \A x \in T : \E k \in 1 .. j : f[k] = x
    <3>1. ASSUME NEW x \in T PROVE \E k \in 1 .. j : f[k] = x
      <4>1. PICK k \in 1 .. n : f[k] = x
        BY <1>3
      <4>2. f[k] \in Nat /\ f[j] \in Nat /\ ~(f[j] < f[k])
        <5>1. f[j] \in S /\ f[k] \in S /\ f[k] <= f[j]
          BY <1>2, <4>1
        <5>2. f[j] \in Nat /\ f[k] \in Nat
          BY <5>1
        <5> QED BY <5>1, <5>2
      <4>3. ~(j < k)
        BY <1>2, <4>2
      <4>4. k \in 1 .. j
        BY <1>3, <4>3
      <4> QED BY <4>1, <4>4
    <3> QED BY <3>1
  <2>4. \A k \in 1 .. j : f[k] \in T
    BY <2>1, <2>2
  <2> HIDE DEF T
  <2>5. g \in Injection(1 .. j, T)
    BY <1>3, <2>1, <2>4 DEF Injection, IsInjective
  <2>6. g \in Surjection(1 .. j, T)
    BY <2>3, <2>4 DEF Surjection
  <2>7. g \in Bijection(1 .. j, T)
    BY <2>5, <2>6 DEF Bijection
  <2> HIDE DEF g
  <2>8. ExistsBijection(1 .. j, T)
    BY <2>7 DEF ExistsBijection
  <2>9. IsFiniteSet(1 .. j) /\ Cardinality(1 .. j) = j
    BY <1>3, FS_Interval
  <2>10. Cardinality(T) = j
    BY <2>8, <2>9, FS_Bijection
  <2> QED BY <2>10 DEF T
<1> QED BY <1>3, <1>4 DEF f

LEMMA InitApplet ==
    ASSUME Init, CoreInv
    PROVE  AppletInv
<1>1. /\ displayChildren = [o \in DOMAIN tracked |-> Cardinality({i \in DOMAIN tracked : i <= o})]
      /\ nextDisplayIndex = Cardinality(DOMAIN tracked) + 1
      /\ calls = <<>> /\ bus = <<>>
      /\ knownNames = Names /\ shownNames = Names
      /\ displayData = [n \in 1 .. Len(Names) |-> tracked[Ids[n]].value]
      /\ querying = Idle /\ recheck = FALSE
  BY DEF Init
<1>2. Sane
  BY CoreIsSane DEF CoreInv
<1> DEFINE S == DOMAIN tracked
           n == Cardinality(S)
<1>3. S \in SUBSET Nat /\ IsFiniteSet(S)
  BY <1>2 DEF Sane
<1>4. n \in Nat /\ Len(Ids) = n /\ Ids \in Seq(S) /\ \A x \in S : \E i \in 1 .. n : Ids[i] = x
  BY <1>3, InOrderLists, FS_CardinalityType DEF Ids
<1>5. \A j \in 1 .. n : Cardinality({i \in S : i <= Ids[j]}) = j
  BY <1>3, <1>4, InOrderRanks DEF Ids
<1>6. \A j \in 1 .. n : Ids[j] \in S
  BY <1>4
<1> HIDE DEF S, n, Ids
<1>7. DOMAIN displayChildren = S /\ \A j \in 1 .. n : displayChildren[Ids[j]] = j
  BY <1>1, <1>5, <1>6 DEF S
<1>8. Names = [i \in 1 .. n |-> i]
  BY <1>4, <1>7 DEF Names
<1>9. /\ Names \in Seq(Nat) /\ Len(Names) = n /\ DOMAIN Names = 1 .. n /\ \A i \in 1 .. n : Names[i] = i
  BY <1>4, <1>8
<1>10. ToSet(Names) = 1 .. n /\ IsInjective(Names)
  BY <1>9 DEF ToSet, IsInjective
<1>11. GivenNames = 1 .. n /\ nextDisplayIndex \in Nat \ {0}
  BY <1>1, <1>4 DEF GivenNames, S, n
<1>12. ASSUME NEW o \in S
       PROVE  displayChildren[o] \in 1 .. n /\ Ids[displayChildren[o]] = o
  BY <1>4, <1>7, <1>12
<1>13. ToSet(bus) = {} /\ ToSet(calls) = {} /\ Sequence(bus) /\ Sequence(calls) /\ Len(bus) = 0 /\ Len(calls) = 0
  BY <1>1, Emptied
<1>14. Single(bus) /\ Single(calls)
  BY <1>1, Emptied
<1>15. NumbersInv
  BY <1>1, <1>9, <1>10, <1>11, <1>12, <1>13 DEF NumbersInv, S
<1>16. querying.for = "nothing" /\ recheck = FALSE
  BY <1>1 DEF Idle
<1>17. QueryInv
  BY <1>13, <1>14, <1>16 DEF QueryInv
<1>18. NamesInv
  BY <1>1, <1>16 DEF NamesInv
<1>19. DOMAIN displayData = 1 .. n
  BY <1>1, <1>9
<1>20. ShownInv
  BY <1>1, <1>9, <1>10, <1>13, <1>16, <1>19 DEF ShownInv
<1>21. SetsInv
  BY <1>13 DEF SetsInv, Live
<1>22. ASSUME NEW o \in DOMAIN tracked PROVE Fits(bus, calls, displayData, displayChildren[o], tracked[o].value)
  <2>1. displayData[displayChildren[o]] = tracked[o].value
    BY <1>1, <1>9, <1>12 DEF S
  <2>2. \A i : i \notin 1 .. Len(bus) /\ i \notin 1 .. Len(calls)
    BY <1>13
  <2>3. Agrees(bus, calls, displayData, displayChildren[o], tracked[o].value)
    BY <2>1, <2>2 DEF Agrees, LastHeard, LastRead, Displayed
  <2> QED BY <2>3 DEF Fits
<1> QED BY <1>15, <1>17, <1>18, <1>20, <1>21, <1>22 DEF AppletInv, ListInv, ValuesInv

\* What the applet knows, shows and waits for, what is under way between it
\* and the daemon and what the daemon tracks always fit together, whatever
\* displays come and go and in whatever order questions, answers and changes
\* are read (ScreenBrightnessControl::queryAndUpdateDisplays,
\* ScreenBrightnessDisplayModel, ScreenBrightnessAgent).
THEOREM AppletCorrect == Spec => [](CoreInv /\ CallsInv /\ AppletInv)
<1>1. Init => CoreInv /\ CallsInv /\ AppletInv
  BY InitCore, InitApplet
<1>2. CoreInv /\ CallsInv /\ AppletInv /\ [Next]_vars => (CoreInv /\ CallsInv /\ AppletInv)'
  BY NextCore, CallsKept, NextApplet
<1> QED BY <1>1, <1>2, PTL DEF Spec

\* When nothing is under way the applet lists exactly the displays the daemon
\* has, in their order, each with the brightness the daemon tracks; the
\* brightness unless the outputs changed while a configuration was being
\* sent, or a change was announced while the applet's own was under way
\* (ScreenBrightnessDisplayModel::setKnownDisplayNames, updateRows,
\* onBrightnessChanged).
THEOREM AlwaysAppletShows == Spec => []AppletShows
<1>1. ASSUME CoreInv, AppletInv, Quiet
      PROVE  /\ shownNames = Names
             /\ ~overlapped /\ ~crossed =>
                    \A o \in DOMAIN tracked : displayData[displayChildren[o]] = tracked[o].value
  <2>1. Sane /\ NumbersInv /\ QueryInv /\ NamesInv /\ ShownInv /\ ValuesInv
    BY <1>1, CoreIsSane DEF CoreInv, AppletInv, ListInv
  <2>2. bus = <<>> /\ calls = <<>>
    BY <1>1 DEF Quiet
  <2>3. ToSet(bus) = {} /\ ToSet(calls) = {} /\ Len(bus) = 0 /\ Len(calls) = 0
    BY <2>2, Emptied
  <2>4. querying.for = "nothing" /\ ~recheck
    BY <2>1, <2>3 DEF QueryInv
  <2>5. ~Ahead
    BY <2>3, <2>4 DEF Ahead
  <2>6. knownNames = Names
    BY <2>1, <2>3, <2>5 DEF NamesInv
  <2>7. ToSet(knownNames) \subseteq DOMAIN displayData /\ shownNames = knownNames
    BY <2>1, <2>4, <2>5 DEF ShownInv
  <2>8. ToSet(Names) = Live
    BY <2>1, NamesList
  <2>9. ASSUME ~overlapped, ~crossed, NEW o \in DOMAIN tracked
        PROVE  displayData[displayChildren[o]] = tracked[o].value
    <3> DEFINE k == displayChildren[o]
               v == tracked[o].value
    <3>1. k \in DOMAIN displayData
      BY <2>6, <2>7, <2>8 DEF Live
    <3>2. Fits(bus, calls, displayData, k, v)
      BY <2>1, <2>9 DEF ValuesInv
    <3>3. \A i : i \notin 1 .. Len(bus) /\ i \notin 1 .. Len(calls)
      BY <2>3
    <3> HIDE DEF k, v
    <3>4. Agrees(bus, calls, displayData, k, v)
      BY <3>2, <3>3 DEF Fits, Doomed
    <3>5. Displayed(calls, displayData[k], k, v)
      BY <3>1, <3>3, <3>4 DEF Agrees, NoneAfter
    <3>6. displayData[k] = v
      BY <3>3, <3>5 DEF Displayed
    <3> QED BY <3>6 DEF k, v
  <2> QED BY <2>6, <2>7, <2>9
<1>2. CoreInv /\ AppletInv => AppletShows
  BY <1>1 DEF AppletShows
<1> QED BY <1>2, AppletCorrect, PTL

=============================================================================
