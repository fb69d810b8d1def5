------------------------- MODULE PowerProfilesProofs -------------------------
(***************************************************************************)
(* Theorems about power profiles and their holds, for any programs and     *)
(* profiles and any number of holds, changes and restarts.                 *)
(***************************************************************************)
EXTENDS PowerProfiles, FiniteSetTheorems, TLAPS

Cookies == 1 .. MaxCookie

DaemonCalls == [op : {"getAll"}, by : {Nobody}] \cup [op : {"hold"}, by : Clients]
               \cup [op : {"release"}, by : Clients \cup {Nobody}, cookie : Cookies]
               \cup [op : {"set"}, by : {Nobody, "applet"}, profile : Profiles]

PpdMessages == [kind : {"properties"}, profile : Profiles]
               \cup [kind : {"held", "released"}, by : Clients, cookie : Cookies]
               \cup [kind : {"gone"}, cookie : Cookies]
               \cup [kind : {"set"}, by : {Nobody, "applet"}, profile : Profiles]

AppletCalls == [op : {"fetch"}] \cup [op : {"set"}, profile : Profiles]

AppletMessages == [kind : {"registered", "unregistered"}]
                  \cup [kind : {"currentProfileChanged", "done"}, profile : Profiles \cup {Nobody}]

TypeOK ==
    /\ selected \in Profiles /\ held \subseteq Cookies
    /\ owner \in [Cookies -> Clients \cup {Nobody}]
    /\ toPpd \in Seq(DaemonCalls) /\ toDaemon \in Seq(PpdMessages)
    /\ calls \in Seq(AppletCalls) /\ toApplet \in Seq(AppletMessages)
    /\ known \in BOOLEAN /\ current \in Profiles \cup {Nobody}
    /\ holdMap \subseteq Clients \X Cookies /\ watched \subseteq Clients
    /\ onBus \subseteq Clients /\ notices \subseteq Clients
    /\ installed \in BOOLEAN /\ active \in Profiles \cup {Nobody}
    /\ asked \in Nat /\ sets \in Nat /\ restarts \in Nat

-----------------------------------------------------------------------------
(* Sequences.                                                              *)

LEMMA Joined ==
    ASSUME NEW S, NEW q \in Seq(S), NEW r \in Seq(S)
    PROVE  /\ q \o r \in Seq(S) /\ Len(q \o r) = Len(q) + Len(r)
           /\ \A i \in 1 .. Len(q) : (q \o r)[i] = q[i]
           /\ \A i \in 1 .. Len(r) : (q \o r)[Len(q) + i] = r[i]
           /\ \A i \in 1 .. Len(q \o r) : i \notin 1 .. Len(q) =>
                  i - Len(q) \in 1 .. Len(r) /\ (q \o r)[i] = r[i - Len(q)]
  OBVIOUS

LEMMA Appended ==
    ASSUME NEW S, NEW q \in Seq(S), NEW e \in S
    PROVE  Append(q, e) \in Seq(S) /\ Append(q, e) = q \o <<e>>
  OBVIOUS

LEMMA Refined ==
    ASSUME NEW S, NEW T, NEW q \in Seq(S), \A i \in 1 .. Len(q) : q[i] \in T
    PROVE  q \in Seq(T)
  OBVIOUS

LEMMA Read ==
    ASSUME NEW S, NEW q \in Seq(S), q # <<>>
    PROVE  /\ Head(q) \in S /\ Head(q) = q[1] /\ Tail(q) \in Seq(S)
           /\ Len(q) \in Nat \ {0} /\ Len(Tail(q)) = Len(q) - 1
           /\ \A i \in 1 .. Len(Tail(q)) : Tail(q)[i] = q[i + 1]
           /\ \A i \in 2 .. Len(q) : q[i] = Tail(q)[i - 1] /\ i - 1 \in 1 .. Len(Tail(q))
  OBVIOUS

LEMMA Single ==
    ASSUME NEW S, NEW e \in S
    PROVE  <<e>> \in Seq(S) /\ Len(<<e>>) = 1 /\ <<e>>[1] = e
  OBVIOUS

\* The numbers of a finite set of cookies in some order.
LEMMA Orders ==
    ASSUME NEW S \in SUBSET Cookies, NEW o \in InAnyOrder(S)
    PROVE  /\ o \in Seq(Cookies)
           /\ \A i \in 1 .. Len(o) : o[i] \in S
           /\ \A e \in S : \E i \in 1 .. Len(o) : o[i] = e
  <1>1. IsFiniteSet(Cookies)
    BY FS_Interval, ProfilesAssumption DEF Cookies
  <1>2. Cardinality(S) \in Nat
    BY <1>1, FS_Subset, FS_CardinalityType
  <1>3. o \in [1 .. Cardinality(S) -> S] /\ \A e \in S : \E i \in DOMAIN o : o[i] = e
    BY DEF InAnyOrder
  <1>4. o \in Seq(S) /\ Len(o) = Cardinality(S)
    BY <1>2, <1>3
  <1> QED
    BY <1>3, <1>4

-----------------------------------------------------------------------------
(* Messages.                                                               *)

LEMMA CallsAreTyped ==
    /\ [op |-> "getAll", by |-> Nobody] \in DaemonCalls
    /\ \A c \in Clients : [op |-> "hold", by |-> c] \in DaemonCalls
    /\ \A c \in Clients \cup {Nobody}, k \in Cookies :
          [op |-> "release", by |-> c, cookie |-> k] \in DaemonCalls
    /\ \A b \in {Nobody, "applet"}, p \in Profiles :
          [op |-> "set", by |-> b, profile |-> p] \in DaemonCalls
  BY DEF DaemonCalls

LEMMA CallsHaveFields ==
    ASSUME NEW m \in DaemonCalls
    PROVE  /\ m.op \in {"getAll", "hold", "release", "set"}
           /\ m.op = "hold" => m.by \in Clients
           /\ m.op = "release" => m.by \in Clients \cup {Nobody} /\ m.cookie \in Cookies
           /\ m.op = "set" => m.by \in {Nobody, "applet"} /\ m.profile \in Profiles
           /\ m.op = "getAll" => m.by = Nobody
  BY DEF DaemonCalls

LEMMA MessagesAreTyped ==
    /\ \A p \in Profiles : Properties(p) \in PpdMessages
    /\ \A c \in Clients, k \in Cookies :
          /\ [kind |-> "held", by |-> c, cookie |-> k] \in PpdMessages
          /\ [kind |-> "released", by |-> c, cookie |-> k] \in PpdMessages
    /\ \A k \in Cookies : [kind |-> "gone", cookie |-> k] \in PpdMessages
    /\ \A b \in {Nobody, "applet"}, p \in Profiles :
          [kind |-> "set", by |-> b, profile |-> p] \in PpdMessages
  BY DEF PpdMessages, Properties

LEMMA MessagesHaveFields ==
    ASSUME NEW m \in PpdMessages
    PROVE  /\ m.kind \in {"properties", "held", "released", "gone", "set"}
           /\ m.kind = "properties" => m.profile \in Profiles
           /\ m.kind \in {"held", "released"} => m.by \in Clients /\ m.cookie \in Cookies
           /\ m.kind = "gone" => m.cookie \in Cookies
           /\ m.kind = "set" => m.by \in {Nobody, "applet"} /\ m.profile \in Profiles
  BY DEF PpdMessages

LEMMA AppletTypes ==
    /\ [op |-> "fetch"] \in AppletCalls
    /\ \A p \in Profiles : [op |-> "set", profile |-> p] \in AppletCalls
    /\ \A m \in AppletCalls : m.op = "set" => m.profile \in Profiles
    /\ [kind |-> "registered"] \in AppletMessages /\ [kind |-> "unregistered"] \in AppletMessages
    /\ \A p \in Profiles \cup {Nobody} :
          /\ [kind |-> "currentProfileChanged", profile |-> p] \in AppletMessages
          /\ [kind |-> "done", profile |-> p] \in AppletMessages
    /\ \A m \in AppletMessages :
          m.kind \in {"currentProfileChanged", "done"} => m.profile \in Profiles \cup {Nobody}
  BY DEF AppletCalls, AppletMessages

\* The signal that the profile changed, if it did.
LEMMA ChangesSaid ==
    ASSUME NEW s \in Profiles, NEW h
    PROVE  /\ Chosen(s, h) \in Profiles
           /\ Changes(s, h) \in Seq(PpdMessages)
           /\ \A i \in 1 .. Len(Changes(s, h)) : Changes(s, h)[i] = Properties(Chosen(s, h))
           /\ Changes(s, h) = <<>> => Chosen(s, h) = ActiveProfile
  <1> DEFINE p == Chosen(s, h)
             signal == Changes(s, h)
  <1>1. p \in Profiles
    BY ProfilesAssumption DEF Chosen
  <1>2. CASE p = ActiveProfile
    <2>1. signal = <<>>
      BY <1>2 DEF Changes
    <2> HIDE DEF p, signal
    <2>2. Len(signal) = 0 /\ signal \in Seq(PpdMessages)
      BY <2>1
    <2>3. \A i \in 1 .. Len(signal) : signal[i] = Properties(p)
      BY <2>2
    <2> QED
      BY <1>1, <1>2, <2>2, <2>3 DEF p, signal
  <1>3. CASE p # ActiveProfile
    <2>1. signal = <<Properties(p)>>
      BY <1>3 DEF Changes
    <2>2. Properties(p) \in PpdMessages
      BY <1>1, MessagesAreTyped
    <2> HIDE DEF p, signal
    <2>3. signal \in Seq(PpdMessages) /\ Len(signal) = 1 /\ signal[1] = Properties(p)
      BY <2>1, <2>2
    <2>4. /\ \A i \in 1 .. Len(signal) : signal[i] = Properties(p)
          /\ signal # <<>>
      BY <2>3
    <2> QED
      BY <1>1, <2>3, <2>4 DEF p, signal
  <1> QED
    BY <1>2, <1>3

LEMMA GoneSaid ==
    ASSUME NEW ks \in Seq(Cookies)
    PROVE  /\ ProfileReleasedFor(ks) \in Seq(PpdMessages)
           /\ Len(ProfileReleasedFor(ks)) = Len(ks)
           /\ \A i \in 1 .. Len(ks) : /\ ProfileReleasedFor(ks)[i].kind = "gone"
                                      /\ ProfileReleasedFor(ks)[i].cookie = ks[i]
  <1> DEFINE q == ProfileReleasedFor(ks)
  <1>1. \A i \in DOMAIN ks : [kind |-> "gone", cookie |-> ks[i]] \in PpdMessages
    BY MessagesAreTyped
  <1>2. q = [i \in DOMAIN ks |-> [kind |-> "gone", cookie |-> ks[i]]]
    BY DEF ProfileReleasedFor
  <1>3. q \in Seq(PpdMessages) /\ Len(q) = Len(ks)
    BY <1>1 DEF ProfileReleasedFor
  <1> HIDE DEF q
  <1>4. ASSUME NEW i \in 1 .. Len(ks) PROVE q[i].kind = "gone" /\ q[i].cookie = ks[i]
    BY <1>2
  <1> QED
    BY <1>3, <1>4 DEF q

LEMMA ReleasesSaid ==
    ASSUME NEW ks \in Seq(Cookies)
    PROVE  /\ ReleasesOf(ks) \in Seq(DaemonCalls)
           /\ Len(ReleasesOf(ks)) = Len(ks)
           /\ \A i \in 1 .. Len(ks) : /\ ReleasesOf(ks)[i].op = "release"
                                      /\ ReleasesOf(ks)[i].by = Nobody
                                      /\ ReleasesOf(ks)[i].cookie = ks[i]
  <1> DEFINE q == ReleasesOf(ks)
  <1>1. \A i \in DOMAIN ks : [op |-> "release", by |-> Nobody, cookie |-> ks[i]] \in DaemonCalls
    BY CallsAreTyped
  <1>2. q = [i \in DOMAIN ks |-> [op |-> "release", by |-> Nobody, cookie |-> ks[i]]]
    BY DEF ReleasesOf
  <1>3. q \in Seq(DaemonCalls) /\ Len(q) = Len(ks)
    BY <1>1 DEF ReleasesOf
  <1> HIDE DEF q
  <1>4. ASSUME NEW i \in 1 .. Len(ks)
        PROVE  q[i].op = "release" /\ q[i].by = Nobody /\ q[i].cookie = ks[i]
    BY <1>2
  <1> QED
    BY <1>3, <1>4 DEF q

\* What ppd says of a new choice.
LEMMA AnswersAreTyped ==
    ASSUME TypeOK, NEW s \in Profiles, NEW h \in SUBSET Cookies, NEW answers \in Seq(PpdMessages),
           PpdAnswers(s, h, answers), owner' \in [Cookies -> Clients \cup {Nobody}],
           toPpd # <<>>
    PROVE  TypeOK'
  <1>1. Changes(s, h) \in Seq(PpdMessages)
    BY ChangesSaid
  <1>2. Tail(toPpd) \in Seq(DaemonCalls)
    BY Read DEF TypeOK
  <1>3. toDaemon \o Changes(s, h) \o answers \in Seq(PpdMessages)
    BY <1>1 DEF TypeOK
  <1> QED
    BY <1>2, <1>3 DEF TypeOK, PpdAnswers, daemon, programs, applet, bounds

LEMMA HeldInAnyOrder ==
    ASSUME TypeOK, NEW ks \in InAnyOrder(held)
    PROVE  /\ ks \in Seq(Cookies)
           /\ \A i \in 1 .. Len(ks) : ks[i] \in held
           /\ \A k \in held : \E i \in 1 .. Len(ks) : ks[i] = k
           /\ ProfileReleasedFor(ks) \in Seq(PpdMessages)
  <1>1. /\ ks \in Seq(Cookies)
        /\ \A i \in 1 .. Len(ks) : ks[i] \in held
        /\ \A k \in held : \E i \in 1 .. Len(ks) : ks[i] = k
    BY Orders DEF TypeOK
  <1>2. ProfileReleasedFor(ks) \in Seq(PpdMessages)
    BY <1>1, GoneSaid
  <1> QED
    BY <1>1, <1>2

LEMMA PpdKeepsTypes == ASSUME TypeOK, Ppd PROVE TypeOK'
  <1>1. CASE PpdGetsAll
    <2>1. ActiveProfile \in Profiles /\ held \in SUBSET Cookies /\ selected \in Profiles
      BY ProfilesAssumption DEF TypeOK, ActiveProfile, Chosen
    <2>2. <<Properties(ActiveProfile)>> \in Seq(PpdMessages)
      BY <2>1, MessagesAreTyped, Single
    <2>3. PpdAnswers(selected, held, <<Properties(ActiveProfile)>>) /\ owner' = owner
          /\ toPpd # <<>>
      BY <1>1 DEF PpdGetsAll
    <2> QED
      BY <2>1, <2>2, <2>3, AnswersAreTyped DEF TypeOK
  <1>2. CASE PpdHolds
    <2> DEFINE c == Head(toPpd).by
    <2>1. c \in Clients
      BY <1>2, Read, CallsHaveFields DEF PpdHolds, TypeOK
    <2>2. PICK k \in Cookies :
              /\ owner' = [owner EXCEPT ![k] = c]
              /\ PpdAnswers(selected, held \cup {k}, <<[kind |-> "held", by |-> c, cookie |-> k]>>)
      BY <1>2 DEF PpdHolds, Cookies
    <2> HIDE DEF c
    <2>3. [kind |-> "held", by |-> c, cookie |-> k] \in PpdMessages
      BY <2>1, MessagesAreTyped
    <2>4. <<[kind |-> "held", by |-> c, cookie |-> k]>> \in Seq(PpdMessages)
      BY <2>3, Single
    <2>5. owner' \in [Cookies -> Clients \cup {Nobody}] /\ held \cup {k} \in SUBSET Cookies
      BY <2>1, <2>2 DEF TypeOK
    <2>6. toPpd # <<>> /\ selected \in Profiles
      BY <1>2 DEF PpdHolds, TypeOK
    <2> QED
      BY <2>2, <2>4, <2>5, <2>6, AnswersAreTyped
  <1>3. CASE PpdReleases
    <2> DEFINE call == Head(toPpd)
               answers == IF call.cookie \in held /\ call.by # Nobody
                          THEN <<[kind |-> "released", by |-> call.by, cookie |-> call.cookie]>>
                          ELSE <<>>
    <2>1. call \in DaemonCalls /\ call.op = "release"
      BY <1>3, Read DEF PpdReleases, TypeOK
    <2>2. call.by \in Clients \cup {Nobody} /\ call.cookie \in Cookies
      BY <2>1, CallsHaveFields
    <2>3. answers \in Seq(PpdMessages)
      <3>1. CASE call.cookie \in held /\ call.by # Nobody
        <4>1. [kind |-> "released", by |-> call.by, cookie |-> call.cookie] \in PpdMessages
          BY <2>2, <3>1, MessagesAreTyped
        <4> QED
          BY <3>1, <4>1, Single
      <3>2. CASE ~(call.cookie \in held /\ call.by # Nobody)
        BY <3>2
      <3> QED
        BY <3>1, <3>2
    <2>4. PpdAnswers(selected, held \ {call.cookie}, answers) /\ owner' = owner /\ toPpd # <<>>
      BY <1>3 DEF PpdReleases
    <2> HIDE DEF answers
    <2>5. held \ {call.cookie} \in SUBSET Cookies /\ selected \in Profiles
      BY DEF TypeOK
    <2> QED
      BY <2>3, <2>4, <2>5, AnswersAreTyped DEF TypeOK
  <1>4. CASE PpdSets
    <2> DEFINE call == Head(toPpd)
               answer == [kind |-> "set", by |-> call.by, profile |-> call.profile]
    <2>1. call \in DaemonCalls /\ call.op = "set" /\ toPpd # <<>>
      BY <1>4, Read DEF PpdSets, TypeOK
    <2>2. call.by \in {Nobody, "applet"} /\ call.profile \in Profiles
      BY <2>1, CallsHaveFields
    <2>3. PICK ks \in InAnyOrder(held) :
              PpdAnswers(call.profile, {}, Append(ProfileReleasedFor(ks), answer))
      BY <1>4 DEF PpdSets
    <2>4. answer \in PpdMessages
      BY <2>2, MessagesAreTyped
    <2> HIDE DEF answer
    <2>5. Append(ProfileReleasedFor(ks), answer) \in Seq(PpdMessages)
      BY <2>4, HeldInAnyOrder
    <2>6. owner' = owner
      BY <1>4 DEF PpdSets
    <2> QED
      BY <2>1, <2>2, <2>3, <2>5, <2>6, AnswersAreTyped DEF TypeOK
  <1> QED
    BY <1>1, <1>2, <1>3, <1>4 DEF Ppd

LEMMA DaemonKeepsTypes == ASSUME TypeOK, FromPpd \/ ServeApplet PROVE TypeOK'
  <1>0. /\ toDaemon # <<>> => /\ Head(toDaemon) \in PpdMessages
                              /\ Tail(toDaemon) \in Seq(PpdMessages)
        /\ calls # <<>> => Head(calls) \in AppletCalls /\ Tail(calls) \in Seq(AppletCalls)
    BY Read DEF TypeOK
  <1>1. CASE propertiesChanged
    <2> DEFINE p == Head(toDaemon).profile
               news == IF current = p \/ ~installed THEN <<>>
                       ELSE <<[kind |-> "currentProfileChanged", profile |-> p]>>
    <2>1. p \in Profiles
      BY <1>0, <1>1, MessagesHaveFields DEF propertiesChanged, Receives
    <2>2. news \in Seq(AppletMessages)
      <3>1. [kind |-> "currentProfileChanged", profile |-> p] \in AppletMessages
        BY <2>1, AppletTypes
      <3>2. <<[kind |-> "currentProfileChanged", profile |-> p]>> \in Seq(AppletMessages)
        BY <3>1, Single
      <3> QED
        BY <3>2
    <2>3. toApplet' = toApplet \o news /\ known' = TRUE /\ current' = p
      BY <1>1 DEF propertiesChanged, readProperties
    <2> HIDE DEF news, p
    <2>4. toApplet' \in Seq(AppletMessages)
      BY <2>2, <2>3 DEF TypeOK
    <2> QED
      BY <1>0, <1>1, <2>1, <2>3, <2>4
      DEF propertiesChanged, Receives, TypeOK, ppd, programs, applet, bounds
  <1>2. CASE HoldGranted
    <2>1. Head(toDaemon).by \in Clients /\ Head(toDaemon).cookie \in Cookies
      BY <1>0, <1>2, MessagesHaveFields DEF HoldGranted, Receives
    <2> QED
      BY <1>0, <1>2, <2>1 DEF HoldGranted, Receives, TypeOK, ppd, programs, applet, bounds
  <1>3. CASE ReleaseGranted \/ ProfileReleased
    BY <1>0, <1>3 DEF ReleaseGranted, ProfileReleased, Unwatch, Receives, TypeOK, ppd, applet, bounds
  <1>4. CASE SetAnswered
    <2> DEFINE done == [kind |-> "done", profile |-> Head(toDaemon).profile]
    <2>1. Head(toDaemon).profile \in Profiles
      BY <1>0, <1>4, MessagesHaveFields DEF SetAnswered, Receives
    <2>2. done \in AppletMessages
      BY <2>1, AppletTypes
    <2>3. toApplet' = Append(toApplet, done) \/ toApplet' = toApplet
      BY <1>4 DEF SetAnswered
    <2> HIDE DEF done
    <2>4. toApplet' \in Seq(AppletMessages)
      <3>1. toApplet \in Seq(AppletMessages)
        BY DEF TypeOK
      <3> QED
        BY <2>2, <2>3, <3>1, Appended
    <2> QED
      BY <1>0, <1>4, <2>4 DEF SetAnswered, Receives, TypeOK, ppd, daemon, programs, applet, bounds
  <1>5. CASE ServeApplet
    <2> DEFINE news == [kind |-> "currentProfileChanged", profile |-> current]
               call == [op |-> "set", by |-> "applet", profile |-> Head(calls).profile]
    <2>1. calls # <<>> /\ calls' = Tail(calls)
      BY <1>5 DEF ServeApplet
    <2>2. news \in AppletMessages /\ (Head(calls).op = "set" => call \in DaemonCalls)
      BY <1>0, <2>1, AppletTypes, CallsAreTyped DEF TypeOK
    <2>3. \/ toApplet' = Append(toApplet, news) /\ toPpd' = toPpd
          \/ Head(calls).op = "set" /\ toPpd' = Append(toPpd, call) /\ toApplet' = toApplet
      BY <1>5 DEF ServeApplet
    <2> HIDE DEF news, call
    <2>4. toApplet' \in Seq(AppletMessages) /\ toPpd' \in Seq(DaemonCalls)
      <3>1. toApplet \in Seq(AppletMessages) /\ toPpd \in Seq(DaemonCalls)
        BY DEF TypeOK
      <3> QED
        BY <2>2, <2>3, <3>1, Appended
    <2> QED
      BY <1>0, <1>5, <2>1, <2>4 DEF ServeApplet, TypeOK, ppd, daemon, programs, applet, bounds
  <1> QED
    BY <1>1, <1>2, <1>3, <1>4, <1>5 DEF FromPpd

LEMMA OthersKeepTypes ==
    ASSUME TypeOK,
           Applet \/ Users \/ Programs \/ Restart \/ \E c \in Clients : serviceUnregistered(c)
    PROVE  TypeOK'
  <1>1. CASE Applet
    <2>0. toApplet # <<>> => /\ Head(toApplet) \in AppletMessages
                             /\ Tail(toApplet) \in Seq(AppletMessages)
      BY Read DEF TypeOK
    <2>1. CASE onServiceRegistered
      <3>1. Append(calls, [op |-> "fetch"]) \in Seq(AppletCalls)
        BY AppletTypes DEF TypeOK
      <3> QED
        BY <2>0, <2>1, <3>1
        DEF onServiceRegistered, AppletReceives, TypeOK, ppd, daemon, programs, bounds
    <2>2. CASE onServiceUnregistered
      BY <2>0, <2>2 DEF onServiceUnregistered, AppletReceives, TypeOK, ppd, daemon, programs, bounds
    <2>3. CASE updatePowerProfileCurrentProfile \/ AppletSetAnswered
      <3>1. Head(toApplet).profile \in Profiles \cup {Nobody}
        BY <2>0, <2>3, AppletTypes
        DEF updatePowerProfileCurrentProfile, AppletSetAnswered, AppletReceives
      <3> QED
        BY <2>0, <2>3, <3>1
        DEF updatePowerProfileCurrentProfile, AppletSetAnswered, AppletReceives, TypeOK, ppd,
            daemon, programs, bounds
    <2> QED
      BY <1>1, <2>1, <2>2, <2>3 DEF Applet
  <1>2. ASSUME NEW p \in Profiles, OthersSet(p) PROVE TypeOK'
    <2>1. PICK ks \in InAnyOrder(held) :
              toDaemon' = toDaemon \o Changes(p, {}) \o ProfileReleasedFor(ks)
      BY <1>2 DEF OthersSet
    <2>2. toDaemon' \in Seq(PpdMessages)
      <3>1. Changes(p, {}) \in Seq(PpdMessages) /\ ProfileReleasedFor(ks) \in Seq(PpdMessages)
        BY ChangesSaid, HeldInAnyOrder
      <3> QED
        BY <2>1, <3>1 DEF TypeOK
    <2> QED
      BY <1>2, <2>2 DEF OthersSet, TypeOK, daemon, programs, applet
  <1>3. ASSUME NEW p \in Profiles, setProfile(p) PROVE TypeOK'
    <2>1. Append(toPpd, [op |-> "set", by |-> Nobody, profile |-> p]) \in Seq(DaemonCalls)
      BY CallsAreTyped DEF TypeOK
    <2> QED
      BY <1>3, <2>1 DEF setProfile, TypeOK, ppd, daemon, programs, applet
  <1>4. ASSUME NEW p \in Profiles, AppletSetsProfile(p) PROVE TypeOK'
    <2>1. Append(calls, [op |-> "set", profile |-> p]) \in Seq(AppletCalls)
      BY AppletTypes DEF TypeOK
    <2> QED
      BY <1>4, <2>1 DEF AppletSetsProfile, TypeOK, ppd, daemon, programs, applet
  <1>5. ASSUME NEW c \in Clients, holdProfile(c) PROVE TypeOK'
    <2>1. Append(toPpd, [op |-> "hold", by |-> c]) \in Seq(DaemonCalls)
      BY CallsAreTyped DEF TypeOK
    <2> QED
      BY <1>5, <2>1 DEF holdProfile, TypeOK, ppd, daemon, programs, applet
  <1>6. ASSUME NEW c \in Clients, Leave(c) PROVE TypeOK'
    BY <1>6 DEF Leave, TypeOK, ppd, channels, daemon, applet, bounds
  <1>7. ASSUME NEW c \in Clients, NEW k \in Cookies, releaseProfile(c, k) PROVE TypeOK'
    <2>1. Append(toPpd, [op |-> "release", by |-> c, cookie |-> k]) \in Seq(DaemonCalls)
      BY CallsAreTyped DEF TypeOK
    <2> QED
      BY <1>7, <2>1 DEF releaseProfile, TypeOK, ppd, daemon, programs, applet, bounds
  <1>8. ASSUME NEW c \in Clients, serviceUnregistered(c) PROVE TypeOK'
    <2>1. PICK ks \in InAnyOrder({k \in DOMAIN owner : <<c, k>> \in holdMap}) :
              toPpd' = toPpd \o ReleasesOf(ks)
      BY <1>8 DEF serviceUnregistered
    <2>2. {k \in DOMAIN owner : <<c, k>> \in holdMap} \in SUBSET Cookies
      BY DEF TypeOK
    <2>3. ReleasesOf(ks) \in Seq(DaemonCalls)
      BY <2>2, Orders, ReleasesSaid
    <2>4. toPpd' \in Seq(DaemonCalls)
      BY <2>1, <2>3 DEF TypeOK
    <2>5. holdMap' \subseteq Clients \X Cookies /\ notices' \subseteq Clients /\ watched' \subseteq Clients
      BY <1>8 DEF serviceUnregistered, TypeOK
    <2>6. UNCHANGED <<selected, held, owner, toDaemon, calls, toApplet, known, current, onBus,
                      installed, active, asked, sets, restarts>>
      BY <1>8 DEF serviceUnregistered, ppd, applet, bounds
    <2> QED
      BY <2>4, <2>5, <2>6 DEF TypeOK
  <1>9. CASE Restart
    <2>1. toApplet' \in Seq(AppletMessages)
      <3>1. <<[kind |-> "unregistered"], [kind |-> "registered"]>> \in Seq(AppletMessages)
        BY AppletTypes
      <3> QED
        BY <1>9, <3>1 DEF Restart, TypeOK
    <2>2. toPpd' \in Seq(DaemonCalls)
      BY <1>9, CallsAreTyped, Single DEF Restart
    <2>3. toDaemon' \in Seq(PpdMessages) /\ calls' \in Seq(AppletCalls)
      BY <1>9 DEF Restart
    <2>4. /\ held' = {} /\ known' = FALSE /\ current' = Nobody /\ holdMap' = {} /\ watched' = {}
          /\ notices' = {} /\ restarts' = restarts + 1
          /\ UNCHANGED <<selected, owner, onBus, installed, active, asked, sets>>
      BY <1>9 DEF Restart, applet
    <2>5. /\ held' \subseteq Cookies /\ holdMap' \subseteq Clients \X Cookies
          /\ watched' \subseteq Clients /\ notices' \subseteq Clients
      BY <2>4
    <2>6. known' \in BOOLEAN /\ current' \in Profiles \cup {Nobody} /\ restarts' \in Nat
      <3>1. known' \in BOOLEAN
        BY <2>4
      <3>2. current' \in Profiles \cup {Nobody}
        BY <2>4
      <3>3. restarts' \in Nat
        BY <2>4 DEF TypeOK
      <3> QED
        BY <3>1, <3>2, <3>3
    <2>7. UNCHANGED <<selected, owner, onBus, installed, active, asked, sets>>
      BY <2>4
    <2> QED
      BY <2>1, <2>2, <2>3, <2>5, <2>6, <2>7 DEF TypeOK
  <1> QED
    BY <1>1, <1>2, <1>3, <1>4, <1>5, <1>6, <1>7, <1>8, <1>9 DEF Users, Programs, Cookies

LEMMA InitTypes == Init => TypeOK
  <1> SUFFICES ASSUME Init PROVE TypeOK
    OBVIOUS
  <1>1. toPpd \in Seq(DaemonCalls) /\ toApplet \in Seq(AppletMessages)
    BY CallsAreTyped, AppletTypes, Single DEF Init
  <1>2. toDaemon \in Seq(PpdMessages) /\ calls \in Seq(AppletCalls)
    BY DEF Init
  <1> QED
    BY <1>1, <1>2 DEF Init, TypeOK, Cookies

-----------------------------------------------------------------------------
(* The holds.                                                              *)

IsHeld(m, k) == m.kind = "held" /\ m.cookie = k
IsEnd(m, k) == m.kind \in {"gone", "released"} /\ m.cookie = k
IsRelease(m, k) == m.op = "release" /\ m.cookie = k
IsForget(m, k) == IsRelease(m, k) /\ m.by = Nobody     \* the program has left

\* What messages q of ppd say of a hold k, and calls q of the daemon.
Grants(q, k) == \E i \in 1 .. Len(q) : IsHeld(q[i], k)
Ends(q, k) == \E i \in 1 .. Len(q) : IsEnd(q[i], k)
EndsWhatItGrants(q, k) ==
    \A i \in 1 .. Len(q) : IsHeld(q[i], k) => \E j \in 1 .. Len(q) : i < j /\ IsEnd(q[j], k)
GrantsOnce(q, k) ==
    \A i, j \in 1 .. Len(q) : IsHeld(q[i], k) /\ IsHeld(q[j], k) => i = j
Releases(q, k) == \E i \in 1 .. Len(q) : IsRelease(q[i], k)
Forgets(q, k) == \E i \in 1 .. Len(q) : IsForget(q[i], k)

Listed(k) == \E c \in Clients : <<c, k>> \in holdMap

\* A hold is honoured, and granted, listed or about to be released because its
\* program has left; or it is not, and whatever says otherwise is taken back
\* by a message on its way.
HoldSound(k) ==
    /\ k \in held => /\ ~Ends(toDaemon, k)
                     /\ Grants(toDaemon, k) \/ Listed(k) \/ Forgets(toPpd, k)
    /\ k \notin held => /\ EndsWhatItGrants(toDaemon, k)
                        /\ Listed(k) => Ends(toDaemon, k)
    /\ GrantsOnce(toDaemon, k)
    /\ Grants(toDaemon, k) => ~Listed(k) /\ ~Releases(toPpd, k)
    /\ Listed(k) => ~Forgets(toPpd, k)
    /\ owner[k] = Nobody => /\ k \notin held /\ ~Listed(k)
                            /\ ~Grants(toDaemon, k) /\ ~Ends(toDaemon, k) /\ ~Releases(toPpd, k)

HoldsSound == \A k \in Cookies : HoldSound(k)

\* Cookies are used by the programs that obtained them.
OwnedMessages(own) ==
    {m \in PpdMessages : m.kind \in {"held", "released"} => own[m.cookie] = m.by}
OwnedCalls(own) ==
    {m \in DaemonCalls : m.op = "release" => m.by \in {Nobody, own[m.cookie]}}

OwnersRight ==
    /\ \A p \in holdMap : owner[p[2]] = p[1]
    /\ toDaemon \in Seq(OwnedMessages(owner)) /\ toPpd \in Seq(OwnedCalls(owner))

LEMMA TailSays ==
    ASSUME NEW q \in Seq(PpdMessages), q # <<>>, NEW k
    PROVE  LET m == Head(q)
               r == Tail(q)
           IN  /\ Grants(q, k) <=> IsHeld(m, k) \/ Grants(r, k)
               /\ Ends(q, k) <=> IsEnd(m, k) \/ Ends(r, k)
               /\ EndsWhatItGrants(q, k) => /\ EndsWhatItGrants(r, k)
                                            /\ IsHeld(m, k) => Ends(r, k)
               /\ GrantsOnce(q, k) => /\ GrantsOnce(r, k)
                                      /\ IsHeld(m, k) => ~Grants(r, k)
  <1> DEFINE m == Head(q)
             r == Tail(q)
             n == Len(q)
  <1>1. /\ m = q[1] /\ n \in Nat \ {0} /\ Len(r) = n - 1
        /\ \A i \in 1 .. Len(r) : r[i] = q[i + 1]
        /\ \A i \in 2 .. n : q[i] = r[i - 1] /\ i - 1 \in 1 .. Len(r)
    BY Read
  <1> HIDE DEF m, r, n
  <1>2. \A i \in 1 .. n : i = 1 \/ i \in 2 .. n
    BY <1>1
  <1>3. \A i \in 1 .. Len(r) : i + 1 \in 1 .. n
    BY <1>1
  <1>4. Grants(q, k) <=> IsHeld(m, k) \/ Grants(r, k)
    BY <1>1, <1>2, <1>3 DEF Grants, n
  <1>5. Ends(q, k) <=> IsEnd(m, k) \/ Ends(r, k)
    BY <1>1, <1>2, <1>3 DEF Ends, n
  <1>6. EndsWhatItGrants(q, k) => /\ EndsWhatItGrants(r, k)
                                  /\ IsHeld(m, k) => Ends(r, k)
    <2> SUFFICES ASSUME EndsWhatItGrants(q, k)
                 PROVE  EndsWhatItGrants(r, k) /\ (IsHeld(m, k) => Ends(r, k))
      OBVIOUS
    <2>1. ASSUME NEW i \in 1 .. Len(r), IsHeld(r[i], k)
          PROVE  \E j \in 1 .. Len(r) : i < j /\ IsEnd(r[j], k)
      <3>1. PICK j \in 1 .. n : i + 1 < j /\ IsEnd(q[j], k)
        BY <1>1, <1>3, <2>1 DEF EndsWhatItGrants, n
      <3>2. j \in 2 .. n /\ j - 1 \in 1 .. Len(r) /\ q[j] = r[j - 1] /\ i < j - 1
        BY <1>1, <3>1
      <3> QED
        BY <3>1, <3>2
    <2>2. ASSUME IsHeld(m, k) PROVE Ends(r, k)
      <3>1. PICK j \in 1 .. n : 1 < j /\ IsEnd(q[j], k)
        BY <1>1, <2>2 DEF EndsWhatItGrants, n
      <3>2. j \in 2 .. n /\ j - 1 \in 1 .. Len(r) /\ q[j] = r[j - 1]
        BY <1>1, <3>1
      <3> QED
        BY <3>1, <3>2 DEF Ends
    <2> QED
      BY <2>1, <2>2 DEF EndsWhatItGrants
  <1>7. GrantsOnce(q, k) => /\ GrantsOnce(r, k)
                            /\ IsHeld(m, k) => ~Grants(r, k)
    BY <1>1, <1>3 DEF GrantsOnce, Grants, n
  <1> QED
    BY <1>4, <1>5, <1>6, <1>7 DEF m, r

LEMMA JoinedSays ==
    ASSUME NEW q \in Seq(PpdMessages), NEW r \in Seq(PpdMessages), NEW k
    PROVE  /\ Grants(q \o r, k) <=> Grants(q, k) \/ Grants(r, k)
           /\ Ends(q \o r, k) <=> Ends(q, k) \/ Ends(r, k)
           /\ \/ Ends(r, k) /\ ~Grants(r, k)
              \/ EndsWhatItGrants(q, k) /\ ~Grants(r, k)
              => EndsWhatItGrants(q \o r, k)
           /\ \/ GrantsOnce(q, k) /\ ~Grants(r, k)
              \/ GrantsOnce(r, k) /\ ~Grants(q, k)
              => GrantsOnce(q \o r, k)
  <1> DEFINE s == q \o r
             n == Len(q)
             l == Len(r)
  <1>1. /\ n \in Nat /\ l \in Nat /\ Len(s) = n + l
        /\ \A i \in 1 .. n : i \in 1 .. Len(s) /\ s[i] = q[i]
        /\ \A i \in 1 .. l : n + i \in 1 .. Len(s) /\ s[n + i] = r[i]
        /\ \A i \in 1 .. Len(s) : i \in 1 .. n \/ (i > n /\ i - n \in 1 .. l /\ s[i] = r[i - n])
    BY Joined
  <1> HIDE DEF s, n, l
  <1>2. Grants(s, k) <=> Grants(q, k) \/ Grants(r, k)
    BY <1>1 DEF Grants, n, l
  <1>3. Ends(s, k) <=> Ends(q, k) \/ Ends(r, k)
    BY <1>1 DEF Ends, n, l
  <1>4. ASSUME ~Grants(r, k), Ends(r, k) \/ EndsWhatItGrants(q, k)
        PROVE  EndsWhatItGrants(s, k)
    <2> SUFFICES ASSUME NEW i \in 1 .. n + l, IsHeld(s[i], k)
                 PROVE  \E j \in 1 .. n + l : i < j /\ IsEnd(s[j], k)
      BY <1>1 DEF EndsWhatItGrants
    <2>1. i \in 1 .. n /\ IsHeld(q[i], k)
      BY <1>1, <1>4 DEF Grants, l
    <2>2. CASE Ends(r, k)
      <3>1. PICK j \in 1 .. l : IsEnd(r[j], k)
        BY <2>2 DEF Ends, l
      <3>2. n + j \in 1 .. n + l /\ i < n + j /\ s[n + j] = r[j]
        BY <1>1, <2>1
      <3> QED
        BY <3>1, <3>2
    <2>3. CASE EndsWhatItGrants(q, k)
      <3>1. PICK j \in 1 .. n : i < j /\ IsEnd(q[j], k)
        BY <2>1, <2>3 DEF EndsWhatItGrants, n
      <3> QED
        BY <1>1, <3>1
    <2> QED
      BY <1>4, <2>2, <2>3
  <1>5. ASSUME GrantsOnce(q, k), ~Grants(r, k) PROVE GrantsOnce(s, k)
    BY <1>1, <1>5 DEF GrantsOnce, Grants, n, l
  <1>6. ASSUME GrantsOnce(r, k), ~Grants(q, k) PROVE GrantsOnce(s, k)
    BY <1>1, <1>6 DEF GrantsOnce, Grants, n, l
  <1> QED
    BY <1>2, <1>3, <1>4, <1>5, <1>6 DEF s

LEMMA CallsSay ==
    ASSUME NEW k
    PROVE  /\ \A q \in Seq(DaemonCalls) : q # <<>> =>
                  /\ Releases(q, k) <=> IsRelease(Head(q), k) \/ Releases(Tail(q), k)
                  /\ Forgets(q, k) <=> IsForget(Head(q), k) \/ Forgets(Tail(q), k)
           /\ \A q, r \in Seq(DaemonCalls) :
                  /\ Releases(q \o r, k) <=> Releases(q, k) \/ Releases(r, k)
                  /\ Forgets(q \o r, k) <=> Forgets(q, k) \/ Forgets(r, k)
  <1>1. ASSUME NEW q \in Seq(DaemonCalls), q # <<>>
        PROVE  /\ Releases(q, k) <=> IsRelease(Head(q), k) \/ Releases(Tail(q), k)
               /\ Forgets(q, k) <=> IsForget(Head(q), k) \/ Forgets(Tail(q), k)
    <2> DEFINE m == Head(q)
               r == Tail(q)
               n == Len(q)
    <2>1. /\ m = q[1] /\ n \in Nat \ {0} /\ Len(r) = n - 1
          /\ \A i \in 1 .. Len(r) : r[i] = q[i + 1]
          /\ \A i \in 2 .. n : q[i] = r[i - 1] /\ i - 1 \in 1 .. Len(r)
      BY <1>1, Read
    <2> HIDE DEF m, r, n
    <2>2. \A i \in 1 .. n : i = 1 \/ i \in 2 .. n
      BY <2>1
    <2>3. \A i \in 1 .. Len(r) : i + 1 \in 1 .. n
      BY <2>1
    <2>4. Releases(q, k) <=> IsRelease(m, k) \/ Releases(r, k)
      BY <2>1, <2>2, <2>3 DEF Releases, n
    <2>5. Forgets(q, k) <=> IsForget(m, k) \/ Forgets(r, k)
      BY <2>1, <2>2, <2>3 DEF Forgets, n
    <2> QED
      BY <2>4, <2>5 DEF m, r
  <1>2. ASSUME NEW q \in Seq(DaemonCalls), NEW r \in Seq(DaemonCalls)
        PROVE  /\ Releases(q \o r, k) <=> Releases(q, k) \/ Releases(r, k)
               /\ Forgets(q \o r, k) <=> Forgets(q, k) \/ Forgets(r, k)
    <2> DEFINE s == q \o r
               n == Len(q)
               l == Len(r)
    <2>1. /\ n \in Nat /\ l \in Nat /\ Len(s) = n + l
          /\ \A i \in 1 .. n : i \in 1 .. Len(s) /\ s[i] = q[i]
          /\ \A i \in 1 .. l : n + i \in 1 .. Len(s) /\ s[n + i] = r[i]
          /\ \A i \in 1 .. Len(s) : i \in 1 .. n \/ (i > n /\ i - n \in 1 .. l /\ s[i] = r[i - n])
      BY Joined
    <2> HIDE DEF s, n, l
    <2>2. Releases(s, k) <=> Releases(q, k) \/ Releases(r, k)
      BY <2>1 DEF Releases, n, l
    <2>3. Forgets(s, k) <=> Forgets(q, k) \/ Forgets(r, k)
      BY <2>1 DEF Forgets, n, l
    <2> QED
      BY <2>2, <2>3 DEF s
  <1> QED
    BY <1>1, <1>2

LEMMA OneSays ==
    ASSUME NEW k, NEW m
    PROVE  /\ Grants(<<m>>, k) <=> IsHeld(m, k)
           /\ Ends(<<m>>, k) <=> IsEnd(m, k)
           /\ GrantsOnce(<<m>>, k)
           /\ Releases(<<m>>, k) <=> IsRelease(m, k)
           /\ Forgets(<<m>>, k) <=> IsForget(m, k)
  <1>1. Len(<<m>>) = 1 /\ <<m>>[1] = m /\ 1 .. 1 = {1}
    OBVIOUS
  <1> QED
    BY <1>1 DEF Grants, Ends, GrantsOnce, Releases, Forgets

LEMMA NoneSay ==
    ASSUME NEW k
    PROVE  /\ ~Grants(<<>>, k) /\ ~Ends(<<>>, k) /\ ~Releases(<<>>, k) /\ ~Forgets(<<>>, k)
           /\ EndsWhatItGrants(<<>>, k) /\ GrantsOnce(<<>>, k)
  BY DEF Grants, Ends, Releases, Forgets, EndsWhatItGrants, GrantsOnce

\* A change and the end of all holds.
LEMMA ChangeSays ==
    ASSUME NEW s \in Profiles, NEW h, NEW k
    PROVE  ~Grants(Changes(s, h), k) /\ ~Ends(Changes(s, h), k)
  <1> DEFINE q == Changes(s, h)
  <1>1. \A i \in 1 .. Len(q) : q[i] = Properties(Chosen(s, h))
    BY ChangesSaid
  <1> HIDE DEF q
  <1>2. \A i \in 1 .. Len(q) : q[i].kind = "properties"
    BY <1>1 DEF Properties
  <1>3. ~Grants(q, k) /\ ~Ends(q, k)
    BY <1>2 DEF Grants, Ends, IsHeld, IsEnd
  <1> QED
    BY <1>3 DEF q

LEMMA GoneSays ==
    ASSUME TypeOK, NEW ks \in InAnyOrder(held), NEW k
    PROVE  /\ ~Grants(ProfileReleasedFor(ks), k)
           /\ Ends(ProfileReleasedFor(ks), k) <=> k \in held
  <1> DEFINE q == ProfileReleasedFor(ks)
  <1>0. ks \in Seq(Cookies)
    BY HeldInAnyOrder
  <1>1. /\ Len(q) = Len(ks)
        /\ \A i \in 1 .. Len(ks) : q[i].kind = "gone" /\ q[i].cookie = ks[i]
        /\ \A i \in 1 .. Len(ks) : ks[i] \in held
        /\ \A j \in held : \E i \in 1 .. Len(ks) : ks[i] = j
    BY <1>0, HeldInAnyOrder, GoneSaid
  <1> HIDE DEF q
  <1>2. ~Grants(q, k) /\ (Ends(q, k) <=> k \in held)
    BY <1>1 DEF Grants, Ends, IsHeld, IsEnd
  <1> QED
    BY <1>2 DEF q

\* Nothing is said of a hold, and nothing changes for it.
LEMMA HoldKept ==
    ASSUME TypeOK, NEW k \in Cookies, HoldSound(k),
           k \in held' <=> k \in held, Listed(k)' <=> Listed(k),
           owner'[k] = Nobody <=> owner[k] = Nobody,
           Releases(toPpd', k) <=> Releases(toPpd, k), Forgets(toPpd', k) <=> Forgets(toPpd, k),
           \/ toDaemon' = toDaemon
           \/ \E r \in Seq(PpdMessages) :
                  toDaemon' = toDaemon \o r /\ ~Grants(r, k) /\ ~Ends(r, k)
           \/ /\ toDaemon # <<>> /\ toDaemon' = Tail(toDaemon)
              /\ ~IsHeld(Head(toDaemon), k) /\ ~IsEnd(Head(toDaemon), k)
    PROVE  HoldSound(k)'
  <1>1. /\ Grants(toDaemon', k) <=> Grants(toDaemon, k)
        /\ Ends(toDaemon', k) <=> Ends(toDaemon, k)
        /\ EndsWhatItGrants(toDaemon, k) => EndsWhatItGrants(toDaemon', k)
        /\ GrantsOnce(toDaemon, k) => GrantsOnce(toDaemon', k)
    <2>0. toDaemon \in Seq(PpdMessages)
      BY DEF TypeOK
    <2>1. CASE toDaemon' = toDaemon
      BY <2>1
    <2>2. ASSUME NEW r \in Seq(PpdMessages), toDaemon' = toDaemon \o r,
                 ~Grants(r, k), ~Ends(r, k)
          PROVE  <1>1!:
      BY <2>0, <2>2, JoinedSays
    <2>3. CASE /\ toDaemon # <<>> /\ toDaemon' = Tail(toDaemon)
               /\ ~IsHeld(Head(toDaemon), k) /\ ~IsEnd(Head(toDaemon), k)
      BY <2>0, <2>3, TailSays
    <2> QED
      BY <2>1, <2>2, <2>3
  <1> QED
    BY <1>1 DEF HoldSound

HoldIInv == TypeOK /\ OwnersRight /\ HoldsSound

\* What the daemon is told about changes, and what it answers.
LEMMA ChangesOwned ==
    /\ \A s \in Profiles : \A h : Changes(s, h) \in Seq(OwnedMessages(owner))
    /\ TypeOK => \A ks \in InAnyOrder(held) :
                    ProfileReleasedFor(ks) \in Seq(OwnedMessages(owner))
  <1>1. ASSUME NEW s \in Profiles, NEW h PROVE Changes(s, h) \in Seq(OwnedMessages(owner))
    <2> DEFINE q == Changes(s, h)
               p == Chosen(s, h)
    <2>1. q \in Seq(PpdMessages) /\ p \in Profiles /\ \A i \in 1 .. Len(q) : q[i] = Properties(p)
      BY ChangesSaid
    <2> HIDE DEF q, p
    <2>2. Properties(p) \in OwnedMessages(owner)
      <3>1. Properties(p) \in PpdMessages
        BY <2>1, MessagesAreTyped
      <3>2. Properties(p).kind = "properties"
        BY DEF Properties
      <3> QED
        BY <3>1, <3>2 DEF OwnedMessages
    <2>3. q \in Seq(OwnedMessages(owner))
      BY <2>1, <2>2, Refined
    <2> QED
      BY <2>3 DEF q
  <1>2. ASSUME TypeOK, NEW ks \in InAnyOrder(held)
        PROVE  ProfileReleasedFor(ks) \in Seq(OwnedMessages(owner))
    <2> DEFINE q == ProfileReleasedFor(ks)
    <2>1. ks \in Seq(Cookies)
      BY <1>2, HeldInAnyOrder
    <2>2. /\ q \in Seq(PpdMessages)
          /\ \A i \in 1 .. Len(q) : q[i].kind = "gone"
      BY <2>1, GoneSaid
    <2> HIDE DEF q
    <2>3. \A i \in 1 .. Len(q) : q[i] \in PpdMessages /\ q[i].kind = "gone"
      BY <2>2
    <2>4. \A i \in 1 .. Len(q) : q[i] \in OwnedMessages(owner)
      BY <2>3 DEF OwnedMessages
    <2>5. q \in Seq(OwnedMessages(owner))
      BY <2>2, <2>4, Refined
    <2> QED
      BY <2>5 DEF q
  <1> QED
    BY <1>1, <1>2

\* Steps that take nothing from ppd and send it no release.
LEMMA CallsKeepHolds ==
    ASSUME HoldIInv,
           \/ UNCHANGED toPpd
           \/ \E m \in DaemonCalls : m.op # "release" /\ toPpd' = Append(toPpd, m),
           UNCHANGED <<held, owner, toDaemon, holdMap>>
    PROVE  OwnersRight' /\ HoldsSound'
  <1>0. toPpd \in Seq(DaemonCalls) /\ toPpd \in Seq(OwnedCalls(owner))
    BY DEF HoldIInv, TypeOK, OwnersRight
  <1>1. CASE UNCHANGED toPpd
    BY <1>1 DEF HoldIInv, OwnersRight, HoldsSound, HoldSound, Listed
  <1>2. ASSUME NEW m \in DaemonCalls, m.op # "release", toPpd' = Append(toPpd, m)
        PROVE  OwnersRight' /\ HoldsSound'
    <2>1. m \in OwnedCalls(owner)
      BY <1>2 DEF OwnedCalls
    <2>2. OwnersRight'
      BY <1>0, <1>2, <2>1, Appended DEF HoldIInv, OwnersRight
    <2>3. ASSUME NEW k \in Cookies PROVE HoldSound(k)'
      <3>1. ~IsRelease(m, k) /\ ~IsForget(m, k)
        BY <1>2 DEF IsRelease, IsForget
      <3>2. <<m>> \in Seq(DaemonCalls) /\ toPpd' = toPpd \o <<m>>
        BY <1>0, <1>2
      <3>3. /\ Releases(toPpd', k) <=> Releases(toPpd, k)
            /\ Forgets(toPpd', k) <=> Forgets(toPpd, k)
        BY <1>0, <3>1, <3>2, CallsSay, OneSays
      <3>4. HoldSound(k)
        BY DEF HoldIInv, HoldsSound
      <3> QED
        BY <3>3, <3>4, HoldKept DEF HoldIInv, Listed
    <2> QED
      BY <2>2, <2>3 DEF HoldsSound
  <1> QED
    BY <1>1, <1>2

\* A program that is there releases a hold of its own.
LEMMA ReleaseKeepsHolds ==
    ASSUME HoldIInv, NEW c \in Clients, NEW j \in Cookies, releaseProfile(c, j)
    PROVE  OwnersRight' /\ HoldsSound'
  <1> DEFINE m == [op |-> "release", by |-> c, cookie |-> j]
  <1>0. toPpd \in Seq(DaemonCalls) /\ toPpd \in Seq(OwnedCalls(owner))
    BY DEF HoldIInv, TypeOK, OwnersRight
  <1>1. /\ owner[j] = c /\ <<c, j>> \in holdMap /\ toPpd' = Append(toPpd, m)
        /\ UNCHANGED <<held, owner, toDaemon, holdMap>>
    BY DEF releaseProfile, ppd, daemon
  <1>2. /\ m \in DaemonCalls /\ m \in OwnedCalls(owner)
        /\ m.op = "release" /\ m.by = c /\ m.cookie = j
    BY <1>1, CallsAreTyped DEF OwnedCalls
  <1> HIDE DEF m
  <1>3. OwnersRight'
    BY <1>0, <1>1, <1>2, Appended DEF HoldIInv, OwnersRight
  <1>4. ASSUME NEW k \in Cookies PROVE HoldSound(k)'
    <2>1. /\ IsRelease(m, k) <=> j = k
          /\ ~IsForget(m, k)
      BY <1>2, ProfilesAssumption DEF IsRelease, IsForget
    <2>2. <<m>> \in Seq(DaemonCalls) /\ toPpd' = toPpd \o <<m>>
      BY <1>0, <1>1, <1>2
    <2>3. /\ Releases(toPpd', k) <=> Releases(toPpd, k) \/ j = k
          /\ Forgets(toPpd', k) <=> Forgets(toPpd, k)
      BY <1>0, <2>1, <2>2, CallsSay, OneSays
    <2>4. HoldSound(k) /\ (Listed(k)' <=> Listed(k))
      BY <1>1 DEF HoldIInv, HoldsSound, Listed
    <2>5. CASE j # k
      BY <1>1, <2>3, <2>4, <2>5, HoldKept DEF HoldIInv
    <2>6. CASE j = k
      <3>1. Listed(k) /\ owner[k] # Nobody
        BY <1>1, <2>6, ProfilesAssumption DEF Listed
      <3> QED
        BY <1>1, <2>3, <2>4, <3>1 DEF HoldSound
    <2> QED
      BY <2>5, <2>6
  <1> QED
    BY <1>3, <1>4 DEF HoldsSound

\* A program has left: the daemon unlists its holds and releases them.
LEMMA DepartureKeepsHolds ==
    ASSUME HoldIInv, NEW c \in Clients, serviceUnregistered(c)
    PROVE  OwnersRight' /\ HoldsSound'
  <1> DEFINE cookies == {k \in DOMAIN owner : <<c, k>> \in holdMap}
  <1>0. /\ toPpd \in Seq(DaemonCalls) /\ toPpd \in Seq(OwnedCalls(owner))
        /\ DOMAIN owner = Cookies /\ holdMap \subseteq Clients \X Cookies
        /\ \A p \in holdMap : owner[p[2]] = p[1]
    BY DEF HoldIInv, TypeOK, OwnersRight
  <1>1. PICK ks \in InAnyOrder(cookies) : toPpd' = toPpd \o ReleasesOf(ks)
    BY DEF serviceUnregistered
  <1>2. /\ holdMap' = {p \in holdMap : p[1] # c}
        /\ UNCHANGED <<held, owner, toDaemon>>
    BY DEF serviceUnregistered, ppd
  <1> DEFINE q == ReleasesOf(ks)
  <1>3. /\ ks \in Seq(Cookies)
        /\ \A i \in 1 .. Len(ks) : ks[i] \in cookies
        /\ \A k \in cookies : \E i \in 1 .. Len(ks) : ks[i] = k
    <2>1. cookies \in SUBSET Cookies
      BY <1>0
    <2> HIDE DEF cookies
    <2> QED
      BY <2>1, Orders
  <1>4. /\ q \in Seq(DaemonCalls) /\ Len(q) = Len(ks)
        /\ \A i \in 1 .. Len(ks) : q[i].op = "release" /\ q[i].by = Nobody /\ q[i].cookie = ks[i]
    BY <1>3, ReleasesSaid
  <1> HIDE DEF q
  <1>5. q \in Seq(OwnedCalls(owner))
    <2>1. \A i \in 1 .. Len(q) : q[i] \in OwnedCalls(owner)
      BY <1>4 DEF OwnedCalls
    <2> QED
      BY <1>4, <2>1, Refined
  <1>6. toPpd' = toPpd \o q
    BY <1>1 DEF q
  <1>7. OwnersRight'
    <2>1. toPpd' \in Seq(OwnedCalls(owner))
      BY <1>0, <1>5, <1>6, Joined
    <2> QED
      BY <1>2, <2>1 DEF HoldIInv, OwnersRight
  <1>8. ASSUME NEW k \in Cookies PROVE HoldSound(k)'
    <2>0. \A i \in 1 .. Len(q) :
              (IsRelease(q[i], k) <=> ks[i] = k) /\ (IsForget(q[i], k) <=> ks[i] = k)
      BY <1>4 DEF IsForget, IsRelease
    <2>7. (\E i \in 1 .. Len(ks) : ks[i] = k) <=> k \in cookies
      <3> HIDE DEF cookies
      <3> QED
        BY <1>3
    <2>1. Releases(q, k) <=> k \in cookies
      BY <1>4, <2>0, <2>7 DEF Releases
    <2>2. Forgets(q, k) <=> k \in cookies
      BY <1>4, <2>0, <2>7 DEF Forgets
    <2>3. /\ Releases(toPpd', k) <=> Releases(toPpd, k) \/ k \in cookies
          /\ Forgets(toPpd', k) <=> Forgets(toPpd, k) \/ k \in cookies
      BY <1>0, <1>4, <1>6, <2>1, <2>2, CallsSay
    <2>4. HoldSound(k)
      BY DEF HoldIInv, HoldsSound
    <2>5. CASE k \in cookies
      <3>1. Listed(k) /\ ~(Listed(k)') /\ owner[k] = c
        BY <1>0, <1>2, <2>5 DEF Listed
      <3>2. owner[k] # Nobody
        BY <3>1, ProfilesAssumption
      <3> QED
        BY <1>2, <2>3, <2>4, <2>5, <3>1, <3>2 DEF HoldSound
    <2>6. CASE k \notin cookies
      <3>1. Listed(k)' <=> Listed(k)
        BY <1>0, <1>2, <2>6 DEF Listed
      <3> QED
        BY <1>2, <2>3, <2>4, <2>6, <3>1, HoldKept DEF HoldIInv
    <2> QED
      BY <2>5, <2>6
  <1> QED
    BY <1>7, <1>8 DEF HoldsSound

\* ppd grants the hold that is asked for, which no message has named yet.
LEMMA GrantKeepsHolds ==
    ASSUME HoldIInv, PpdHolds
    PROVE  OwnersRight' /\ HoldsSound'
  <1> DEFINE c == Head(toPpd).by
  <1>0. /\ toPpd \in Seq(DaemonCalls) /\ toPpd \in Seq(OwnedCalls(owner)) /\ toPpd # <<>>
        /\ toDaemon \in Seq(PpdMessages) /\ toDaemon \in Seq(OwnedMessages(owner))
        /\ owner \in [Cookies -> Clients \cup {Nobody}] /\ holdMap \subseteq Clients \X Cookies
        /\ \A p \in holdMap : owner[p[2]] = p[1]
    BY DEF HoldIInv, TypeOK, OwnersRight, PpdHolds
  <1>1. c \in Clients /\ Head(toPpd).op = "hold"
    BY <1>0, Read, CallsHaveFields DEF PpdHolds
  <1>2. PICK j \in Cookies :
            /\ owner[j] = Nobody /\ owner' = [owner EXCEPT ![j] = c]
            /\ PpdAnswers(selected, held \cup {j}, <<[kind |-> "held", by |-> c, cookie |-> j]>>)
    BY DEF PpdHolds, Cookies
  <1> DEFINE m == [kind |-> "held", by |-> c, cookie |-> j]
             change == Changes(selected, held \cup {j})
             said == change \o <<m>>
  <1>3. /\ held' = held \cup {j} /\ toDaemon' = toDaemon \o change \o <<m>>
        /\ toPpd' = Tail(toPpd) /\ holdMap' = holdMap
    BY <1>2 DEF PpdAnswers, daemon
  <1>4. m \in PpdMessages /\ m.kind = "held" /\ m.by = c /\ m.cookie = j
    BY <1>1, MessagesAreTyped
  <1> HIDE DEF c, m
  <1>5. change \in Seq(PpdMessages) /\ <<m>> \in Seq(PpdMessages)
    BY <1>4, ChangesSaid DEF HoldIInv, TypeOK
  <1>6. /\ \A k \in Cookies : ~Grants(change, k) /\ ~Ends(change, k)
        /\ change \in Seq(OwnedMessages(owner))
    BY ChangeSays, ChangesOwned DEF HoldIInv, TypeOK
  <1> HIDE DEF change
  <1>7. toDaemon' = toDaemon \o said /\ said \in Seq(PpdMessages)
    BY <1>0, <1>3, <1>5
  <1>8. \A k \in Cookies :
            (Grants(said, k) <=> k = j) /\ ~Ends(said, k) /\ GrantsOnce(said, k)
    <2> SUFFICES ASSUME NEW k \in Cookies
                 PROVE  (Grants(said, k) <=> k = j) /\ ~Ends(said, k) /\ GrantsOnce(said, k)
      OBVIOUS
    <2>1. (IsHeld(m, k) <=> k = j) /\ ~IsEnd(m, k)
      BY <1>4 DEF IsHeld, IsEnd
    <2>2. ~Grants(change, k) /\ ~Ends(change, k)
      BY <1>6
    <2> QED
      BY <1>5, <2>1, <2>2, OneSays, JoinedSays
  <1> HIDE DEF said
  <1>9. OwnersRight'
    <2>1. \A n \in OwnedCalls(owner) : n \in OwnedCalls(owner')
      BY <1>0, <1>1, <1>2, CallsHaveFields DEF OwnedCalls
    <2>2. toPpd' \in Seq(OwnedCalls(owner'))
      <3>1. Tail(toPpd) \in Seq(OwnedCalls(owner))
        BY <1>0
      <3> QED
        BY <1>3, <2>1, <3>1, Refined
    <2>3. \A n \in OwnedMessages(owner) : n \in OwnedMessages(owner')
      BY <1>0, <1>2, ProfilesAssumption, MessagesHaveFields DEF OwnedMessages
    <2>4. m \in OwnedMessages(owner')
      BY <1>0, <1>2, <1>4 DEF OwnedMessages
    <2>5. /\ toDaemon \in Seq(OwnedMessages(owner')) /\ change \in Seq(OwnedMessages(owner'))
          /\ <<m>> \in Seq(OwnedMessages(owner'))
      BY <1>0, <1>6, <2>3, <2>4, Refined
    <2>6. toDaemon' \in Seq(OwnedMessages(owner'))
      BY <1>3, <2>5
    <2>7. \A p \in holdMap' : owner'[p[2]] = p[1]
      BY <1>0, <1>2, <1>3, ProfilesAssumption
    <2> QED
      BY <2>2, <2>6, <2>7 DEF OwnersRight
  <1>10. ASSUME NEW k \in Cookies PROVE HoldSound(k)'
    <2>1. HoldSound(k) /\ (Listed(k)' <=> Listed(k)) /\ (k # j => owner'[k] = owner[k])
      BY <1>0, <1>2, <1>3 DEF HoldIInv, HoldsSound, Listed
    <2>2. /\ Releases(toPpd', k) <=> Releases(toPpd, k)
          /\ Forgets(toPpd', k) <=> Forgets(toPpd, k)
      <3>1. ~IsRelease(Head(toPpd), k) /\ ~IsForget(Head(toPpd), k)
        BY <1>1 DEF IsRelease, IsForget
      <3> QED
        BY <1>0, <1>3, <3>1, CallsSay
    <2>3. CASE k # j
      <3>1. \E r \in Seq(PpdMessages) :
                toDaemon' = toDaemon \o r /\ ~Grants(r, k) /\ ~Ends(r, k)
        BY <1>7, <1>8, <2>3
      <3>2. k \in held' <=> k \in held
        BY <1>3, <2>3
      <3> QED
        BY <2>1, <2>2, <2>3, <3>1, <3>2, HoldKept DEF HoldIInv
    <2>4. CASE k = j
      <3>1. owner[k] = Nobody /\ owner'[k] # Nobody /\ k \in held'
        BY <1>0, <1>1, <1>2, <1>3, <2>4, ProfilesAssumption
      <3>2. /\ Grants(toDaemon', k) /\ ~Ends(toDaemon', k) /\ GrantsOnce(toDaemon', k)
        <4>1. Grants(said, k) /\ ~Ends(said, k) /\ GrantsOnce(said, k)
          BY <1>8, <2>4
        <4>2. ~Grants(toDaemon, k) /\ ~Ends(toDaemon, k)
          BY <2>1, <3>1 DEF HoldSound
        <4> QED
          BY <1>0, <1>7, <4>1, <4>2, JoinedSays
      <3> QED
        BY <2>1, <2>2, <3>1, <3>2 DEF HoldSound
    <2> QED
      BY <2>3, <2>4
  <1> QED
    BY <1>9, <1>10 DEF HoldsSound

\* A change, if there is one, and the answers after it.
Said(s, h, answers) == Changes(s, h) \o answers

LEMMA AnswersSay ==
    ASSUME TypeOK, NEW s \in Profiles, NEW h \in SUBSET Cookies, NEW answers \in Seq(PpdMessages)
    PROVE  /\ Said(s, h, answers) \in Seq(PpdMessages)
           /\ toDaemon \o Changes(s, h) \o answers = toDaemon \o Said(s, h, answers)
           /\ answers \in Seq(OwnedMessages(owner)) =>
                  Said(s, h, answers) \in Seq(OwnedMessages(owner))
           /\ \A k \in Cookies :
                  /\ Grants(Said(s, h, answers), k) <=> Grants(answers, k)
                  /\ Ends(Said(s, h, answers), k) <=> Ends(answers, k)
  <1> DEFINE change == Changes(s, h)
             said == Said(s, h, answers)
  <1>1. /\ change \in Seq(PpdMessages) /\ change \in Seq(OwnedMessages(owner))
        /\ \A k \in Cookies : ~Grants(change, k) /\ ~Ends(change, k)
        /\ toDaemon \in Seq(PpdMessages)
    BY ChangesSaid, ChangeSays, ChangesOwned DEF TypeOK
  <1>2. said = change \o answers
    BY DEF Said
  <1> HIDE DEF change, said
  <1>3. said \in Seq(PpdMessages) /\ toDaemon \o change \o answers = toDaemon \o said
    BY <1>1, <1>2
  <1>4. answers \in Seq(OwnedMessages(owner)) => said \in Seq(OwnedMessages(owner))
    BY <1>1, <1>2
  <1>5. \A k \in Cookies :
            (Grants(said, k) <=> Grants(answers, k)) /\ (Ends(said, k) <=> Ends(answers, k))
    BY <1>1, <1>2, JoinedSays
  <1> QED
    BY <1>3, <1>4, <1>5 DEF change, said

\* All holds end: ppd tells the daemon of each of them.
LEMMA EndOfAllKeepsHolds ==
    ASSUME HoldIInv, NEW said \in Seq(PpdMessages), said \in Seq(OwnedMessages(owner)),
           \A k \in Cookies : ~Grants(said, k) /\ (Ends(said, k) <=> k \in held),
           toDaemon' = toDaemon \o said, held' = {}, UNCHANGED <<owner, holdMap>>,
           toPpd' \in Seq(OwnedCalls(owner)),
           \A k \in Cookies : /\ Releases(toPpd', k) => Releases(toPpd, k)
                              /\ Forgets(toPpd', k) => Forgets(toPpd, k)
    PROVE  OwnersRight' /\ HoldsSound'
  <1>0. toDaemon \in Seq(PpdMessages) /\ toDaemon \in Seq(OwnedMessages(owner))
    BY DEF HoldIInv, TypeOK, OwnersRight
  <1>1. OwnersRight'
    BY <1>0, Joined DEF HoldIInv, OwnersRight
  <1>2. ASSUME NEW k \in Cookies PROVE HoldSound(k)'
    <2>1. HoldSound(k) /\ (Listed(k)' <=> Listed(k))
      BY DEF HoldIInv, HoldsSound, Listed
    <2>2. ~Grants(said, k) /\ (Ends(said, k) <=> k \in held)
      OBVIOUS
    <2>3. /\ Grants(toDaemon', k) <=> Grants(toDaemon, k)
          /\ Ends(toDaemon', k) <=> Ends(toDaemon, k) \/ k \in held
          /\ EndsWhatItGrants(toDaemon', k)
          /\ GrantsOnce(toDaemon', k)
      BY <1>0, <2>1, <2>2, JoinedSays DEF HoldSound
    <2>4. /\ Releases(toPpd', k) => Releases(toPpd, k)
          /\ Forgets(toPpd', k) => Forgets(toPpd, k)
      OBVIOUS
    <2> QED
      BY <2>1, <2>3, <2>4 DEF HoldSound
  <1> QED
    BY <1>1, <1>2 DEF HoldsSound

LEMMA PpdKeepsHolds ==
    ASSUME HoldIInv, Ppd
    PROVE  OwnersRight' /\ HoldsSound'
  <1>0. /\ toPpd \in Seq(DaemonCalls) /\ toPpd \in Seq(OwnedCalls(owner))
        /\ toDaemon \in Seq(PpdMessages) /\ toDaemon \in Seq(OwnedMessages(owner))
        /\ selected \in Profiles /\ held \in SUBSET Cookies /\ TypeOK
    BY DEF HoldIInv, TypeOK, OwnersRight
  <1>1. toPpd # <<>> =>
            /\ Tail(toPpd) \in Seq(OwnedCalls(owner)) /\ Head(toPpd) \in DaemonCalls
            /\ Head(toPpd) \in OwnedCalls(owner)
    BY <1>0, Read
  <1>2. CASE PpdGetsAll
    <2> DEFINE m == Properties(ActiveProfile)
               said == Said(selected, held, <<m>>)
    <2>1. /\ toPpd # <<>> /\ Head(toPpd).op = "getAll" /\ toPpd' = Tail(toPpd)
          /\ toDaemon' = toDaemon \o Changes(selected, held) \o <<m>>
          /\ UNCHANGED <<held, owner, holdMap>>
      BY <1>2 DEF PpdGetsAll, PpdAnswers, daemon
    <2>2. m \in PpdMessages /\ m.kind = "properties"
      <3>1. ActiveProfile \in Profiles
        BY <1>0, ProfilesAssumption DEF ActiveProfile, Chosen
      <3>2. m \in PpdMessages
        BY <3>1, MessagesAreTyped
      <3> QED
        BY <3>2 DEF Properties
    <2> HIDE DEF m
    <2>3. <<m>> \in Seq(PpdMessages) /\ <<m>> \in Seq(OwnedMessages(owner))
      <3>1. m \in OwnedMessages(owner)
        BY <2>2 DEF OwnedMessages
      <3> QED
        BY <2>2, <3>1, Single
    <2>4. /\ said \in Seq(PpdMessages) /\ toDaemon' = toDaemon \o said
          /\ said \in Seq(OwnedMessages(owner))
          /\ \A k \in Cookies :
                 (Grants(said, k) <=> Grants(<<m>>, k)) /\ (Ends(said, k) <=> Ends(<<m>>, k))
      BY <1>0, <2>1, <2>3, AnswersSay
    <2> HIDE DEF said
    <2>5. OwnersRight'
      BY <1>0, <1>1, <2>1, <2>4, Joined DEF HoldIInv, OwnersRight
    <2>6. ASSUME NEW k \in Cookies PROVE HoldSound(k)'
      <3>1. ~Grants(said, k) /\ ~Ends(said, k)
        BY <2>2, <2>4, OneSays DEF IsHeld, IsEnd
      <3>2. /\ Releases(toPpd', k) <=> Releases(toPpd, k)
            /\ Forgets(toPpd', k) <=> Forgets(toPpd, k)
        <4>1. ~IsRelease(Head(toPpd), k) /\ ~IsForget(Head(toPpd), k)
          BY <2>1 DEF IsRelease, IsForget
        <4> QED
          BY <1>0, <2>1, <4>1, CallsSay
      <3>3. HoldSound(k) /\ (Listed(k)' <=> Listed(k))
        BY <2>1 DEF HoldIInv, HoldsSound, Listed
      <3> QED
        BY <1>0, <2>1, <2>4, <3>1, <3>2, <3>3, HoldKept
    <2> QED
      BY <2>5, <2>6 DEF HoldsSound
  <1>3. CASE PpdHolds
    BY <1>3, GrantKeepsHolds
  <1>4. CASE PpdReleases
    <2> DEFINE call == Head(toPpd)
               j == call.cookie
               answers == IF j \in held /\ call.by # Nobody
                          THEN <<[kind |-> "released", by |-> call.by, cookie |-> j]>>
                          ELSE <<>>
               said == Said(selected, held \ {j}, answers)
    <2>1. /\ toPpd # <<>> /\ call.op = "release" /\ toPpd' = Tail(toPpd)
          /\ toDaemon' = toDaemon \o Changes(selected, held \ {j}) \o answers
          /\ held' = held \ {j} /\ UNCHANGED <<owner, holdMap>>
      BY <1>4 DEF PpdReleases, PpdAnswers, daemon
    <2>2. /\ j \in Cookies /\ call.by \in Clients \cup {Nobody}
          /\ call.by \in {Nobody, owner[j]}
      BY <1>1, <2>1, CallsHaveFields DEF OwnedCalls
    <2>3. /\ answers \in Seq(PpdMessages) /\ answers \in Seq(OwnedMessages(owner))
          /\ \A k \in Cookies :
                ~Grants(answers, k) /\ (Ends(answers, k) <=> k = j /\ j \in held /\ call.by # Nobody)
      <3>1. CASE j \in held /\ call.by # Nobody
        <4> DEFINE m == [kind |-> "released", by |-> call.by, cookie |-> j]
        <4>1. answers = <<m>>
          BY <3>1
        <4>2. m \in PpdMessages /\ m.kind = "released" /\ m.by = call.by /\ m.cookie = j
          BY <2>2, <3>1, MessagesAreTyped
        <4> HIDE DEF m, answers, call
        <4>3. m \in OwnedMessages(owner)
          BY <2>2, <3>1, <4>2 DEF OwnedMessages
        <4>4. \A k \in Cookies : ~Grants(<<m>>, k) /\ (Ends(<<m>>, k) <=> k = j)
          BY <4>2, OneSays DEF IsHeld, IsEnd
        <4> QED
          BY <3>1, <4>1, <4>2, <4>3, <4>4, Single
      <3>2. CASE ~(j \in held /\ call.by # Nobody)
        <4>1. answers = <<>>
          BY <3>2
        <4> HIDE DEF answers
        <4> QED
          BY <3>2, <4>1, NoneSay
      <3> QED
        BY <3>1, <3>2
    <2> HIDE DEF answers
    <2>4. /\ said \in Seq(PpdMessages) /\ toDaemon' = toDaemon \o said
          /\ said \in Seq(OwnedMessages(owner))
          /\ \A k \in Cookies :
                 (Grants(said, k) <=> Grants(answers, k)) /\ (Ends(said, k) <=> Ends(answers, k))
      <3>1. held \ {j} \in SUBSET Cookies
        BY <1>0
      <3> QED
        BY <1>0, <2>1, <2>3, <3>1, AnswersSay
    <2> HIDE DEF said
    <2>5. OwnersRight'
      BY <1>0, <1>1, <2>1, <2>4, Joined DEF HoldIInv, OwnersRight
    <2>6. ASSUME NEW k \in Cookies PROVE HoldSound(k)'
      <3>1. ~Grants(said, k) /\ (Ends(said, k) <=> k = j /\ j \in held /\ call.by # Nobody)
        BY <2>3, <2>4
      <3>2. /\ Releases(toPpd, k) <=> k = j \/ Releases(toPpd', k)
            /\ Forgets(toPpd, k) <=> (k = j /\ call.by = Nobody) \/ Forgets(toPpd', k)
        <4>1. /\ IsRelease(call, k) <=> k = j
              /\ IsForget(call, k) <=> k = j /\ call.by = Nobody
          BY <2>1 DEF IsRelease, IsForget
        <4> QED
          BY <1>0, <2>1, <4>1, CallsSay
      <3>3. HoldSound(k) /\ (Listed(k)' <=> Listed(k))
        BY <2>1 DEF HoldIInv, HoldsSound, Listed
      <3>4. CASE k # j
        BY <1>0, <2>1, <2>4, <3>1, <3>2, <3>3, <3>4, HoldKept
      <3>5. CASE k = j
        <4>1. /\ Grants(toDaemon', k) <=> Grants(toDaemon, k)
              /\ Ends(toDaemon', k) <=> Ends(toDaemon, k) \/ Ends(said, k)
              /\ GrantsOnce(toDaemon', k)
              /\ EndsWhatItGrants(toDaemon, k) \/ Ends(said, k) => EndsWhatItGrants(toDaemon', k)
          BY <1>0, <2>4, <3>1, <3>3, JoinedSays DEF HoldSound
        <4>2. ~Grants(toDaemon, k) /\ k \notin held' /\ owner[k] # Nobody
          BY <2>1, <3>2, <3>3, <3>5 DEF HoldSound
        <4>3. EndsWhatItGrants(toDaemon', k)
          BY <4>1, <4>2 DEF EndsWhatItGrants, Grants
        <4> QED
          BY <2>1, <3>1, <3>2, <3>3, <3>5, <4>1, <4>2, <4>3 DEF HoldSound
      <3> QED
        BY <3>4, <3>5
    <2> QED
      BY <2>5, <2>6 DEF HoldsSound
  <1>5. CASE PpdSets
    <2> DEFINE call == Head(toPpd)
               m == [kind |-> "set", by |-> call.by, profile |-> call.profile]
    <2>1. PICK ks \in InAnyOrder(held) :
              PpdAnswers(call.profile, {}, Append(ProfileReleasedFor(ks), m))
      BY <1>5 DEF PpdSets
    <2> DEFINE gone == ProfileReleasedFor(ks)
               answers == Append(gone, m)
               said == Said(call.profile, {}, answers)
    <2>2. /\ toPpd # <<>> /\ call.op = "set" /\ toPpd' = Tail(toPpd)
          /\ toDaemon' = toDaemon \o Changes(call.profile, {}) \o answers
          /\ held' = {} /\ UNCHANGED <<owner, holdMap>>
      BY <1>5, <2>1 DEF PpdSets, PpdAnswers, daemon
    <2>3. call.profile \in Profiles /\ call.by \in {Nobody, "applet"}
      BY <1>1, <2>2, CallsHaveFields
    <2>4. m \in PpdMessages /\ m.kind = "set"
      BY <2>3, MessagesAreTyped
    <2>5. /\ gone \in Seq(PpdMessages) /\ gone \in Seq(OwnedMessages(owner))
          /\ \A k \in Cookies : ~Grants(gone, k) /\ (Ends(gone, k) <=> k \in held)
      BY <1>0, HeldInAnyOrder, ChangesOwned, GoneSays
    <2> HIDE DEF m, gone
    <2>6. /\ answers \in Seq(PpdMessages) /\ answers \in Seq(OwnedMessages(owner))
          /\ \A k \in Cookies : ~Grants(answers, k) /\ (Ends(answers, k) <=> k \in held)
      <3>1. m \in OwnedMessages(owner)
        BY <2>4 DEF OwnedMessages
      <3>2. /\ answers = gone \o <<m>> /\ <<m>> \in Seq(PpdMessages)
            /\ answers \in Seq(PpdMessages) /\ answers \in Seq(OwnedMessages(owner))
        BY <2>4, <2>5, <3>1, Appended, Single
      <3> HIDE DEF answers
      <3>3. \A k \in Cookies : ~Grants(<<m>>, k) /\ ~Ends(<<m>>, k)
        BY <2>4, OneSays DEF IsHeld, IsEnd
      <3> QED
        BY <2>5, <3>2, <3>3, JoinedSays
    <2> HIDE DEF answers
    <2>7. /\ said \in Seq(PpdMessages) /\ toDaemon' = toDaemon \o said
          /\ said \in Seq(OwnedMessages(owner))
          /\ \A k \in Cookies :
                 (Grants(said, k) <=> Grants(answers, k)) /\ (Ends(said, k) <=> Ends(answers, k))
      BY <1>0, <2>2, <2>3, <2>6, AnswersSay
    <2> HIDE DEF said
    <2>8. \A k \in Cookies :
              (Releases(toPpd', k) => Releases(toPpd, k)) /\ (Forgets(toPpd', k) => Forgets(toPpd, k))
      BY <1>0, <2>2, CallsSay
    <2> QED
      BY <1>1, <2>2, <2>6, <2>7, <2>8, EndOfAllKeepsHolds
  <1> QED
    BY <1>2, <1>3, <1>4, <1>5 DEF Ppd

\* The daemon handles a message of ppd.
LEMMA DaemonKeepsHolds ==
    ASSUME HoldIInv, FromPpd
    PROVE  OwnersRight' /\ HoldsSound'
  <1> DEFINE m == Head(toDaemon)
  <1>0. /\ toDaemon \in Seq(PpdMessages) /\ toDaemon \in Seq(OwnedMessages(owner))
        /\ toPpd \in Seq(OwnedCalls(owner)) /\ holdMap \subseteq Clients \X Cookies
        /\ \A p \in holdMap : owner[p[2]] = p[1]
    BY DEF HoldIInv, TypeOK, OwnersRight
  <1>1. /\ toDaemon # <<>> /\ toDaemon' = Tail(toDaemon) /\ UNCHANGED <<held, owner, toPpd>>
    BY DEF FromPpd, propertiesChanged, HoldGranted, ReleaseGranted, ProfileReleased, SetAnswered,
           Receives, ppd
  <1>2. /\ m \in PpdMessages /\ m \in OwnedMessages(owner)
        /\ toDaemon' \in Seq(OwnedMessages(owner))
    BY <1>0, <1>1, Read
  <1>3. /\ m.kind \in {"held", "released"} =>
              m.by \in Clients /\ m.cookie \in Cookies /\ owner[m.cookie] = m.by
        /\ m.kind = "gone" => m.cookie \in Cookies
    BY <1>2, MessagesHaveFields DEF OwnedMessages
  <1>4. ASSUME NEW k \in Cookies
        PROVE  /\ HoldSound(k)
               /\ Grants(toDaemon, k) <=> IsHeld(m, k) \/ Grants(toDaemon', k)
               /\ Ends(toDaemon, k) <=> IsEnd(m, k) \/ Ends(toDaemon', k)
               /\ EndsWhatItGrants(toDaemon, k) => /\ EndsWhatItGrants(toDaemon', k)
                                                   /\ IsHeld(m, k) => Ends(toDaemon', k)
               /\ GrantsOnce(toDaemon, k) => /\ GrantsOnce(toDaemon', k)
                                             /\ IsHeld(m, k) => ~Grants(toDaemon', k)
    BY <1>0, <1>1, TailSays DEF HoldIInv, HoldsSound
  <1>5. CASE propertiesChanged \/ SetAnswered
    <2>1. holdMap' = holdMap /\ m.kind \in {"properties", "set"}
      BY <1>5 DEF propertiesChanged, SetAnswered, Receives, daemon
    <2> HIDE DEF m
    <2>2. OwnersRight'
      BY <1>0, <1>1, <1>2, <2>1 DEF OwnersRight
    <2>3. ASSUME NEW k \in Cookies PROVE HoldSound(k)'
      <3>1. ~IsHeld(m, k) /\ ~IsEnd(m, k) /\ (Listed(k)' <=> Listed(k))
        BY <2>1 DEF IsHeld, IsEnd, Listed
      <3> QED
        BY <1>1, <1>4, <3>1 DEF HoldSound
    <2> QED
      BY <2>2, <2>3 DEF HoldsSound
  <1>6. CASE HoldGranted
    <2>1. holdMap' = holdMap \cup {<<m.by, m.cookie>>} /\ m.kind = "held"
      BY <1>6 DEF HoldGranted, Receives
    <2> HIDE DEF m
    <2>2. OwnersRight'
      BY <1>0, <1>1, <1>2, <1>3, <2>1 DEF OwnersRight
    <2>3. ASSUME NEW k \in Cookies PROVE HoldSound(k)'
      <3>1. ~IsEnd(m, k) /\ (IsHeld(m, k) <=> m.cookie = k)
        BY <2>1 DEF IsHeld, IsEnd
      <3>2. Listed(k)' <=> Listed(k) \/ IsHeld(m, k)
        BY <1>3, <2>1, <3>1 DEF Listed
      <3>3. Forgets(toPpd, k) => Releases(toPpd, k)
        BY DEF Forgets, Releases, IsForget
      <3> QED
        BY <1>1, <1>4, <3>1, <3>2, <3>3 DEF HoldSound
    <2> QED
      BY <2>2, <2>3 DEF HoldsSound
  <1>7. CASE ReleaseGranted \/ ProfileReleased
    <2>1. m.kind \in {"released", "gone"}
      BY <1>7 DEF ReleaseGranted, ProfileReleased, Receives
    <2>2. /\ holdMap' \subseteq holdMap
          /\ \A p \in holdMap : p \in holdMap' <=> p[2] # m.cookie
      <3>1. CASE ReleaseGranted
        <4>1. holdMap' = holdMap \ {<<m.by, m.cookie>>} /\ m.kind = "released"
          BY <3>1 DEF ReleaseGranted, Receives
        <4> HIDE DEF m
        <4> QED
          BY <1>0, <1>3, <4>1
      <3>2. CASE ProfileReleased
        BY <3>2 DEF ProfileReleased, Receives
      <3> QED
        BY <1>7, <3>1, <3>2
    <2> HIDE DEF m
    <2>3. OwnersRight'
      BY <1>0, <1>1, <1>2, <2>2 DEF OwnersRight
    <2>4. ASSUME NEW k \in Cookies PROVE HoldSound(k)'
      <3>1. ~IsHeld(m, k) /\ (IsEnd(m, k) <=> m.cookie = k)
        BY <2>1 DEF IsHeld, IsEnd
      <3>2. Listed(k)' <=> Listed(k) /\ ~IsEnd(m, k)
        BY <1>0, <2>2, <3>1 DEF Listed
      <3> QED
        BY <1>1, <1>4, <3>1, <3>2 DEF HoldSound
    <2> QED
      BY <2>3, <2>4 DEF HoldsSound
  <1> QED
    BY <1>5, <1>6, <1>7 DEF FromPpd

\* Another program's choice ends all holds.
LEMMA OthersKeepHolds ==
    ASSUME HoldIInv, NEW p \in Profiles, OthersSet(p)
    PROVE  OwnersRight' /\ HoldsSound'
  <1>0. TypeOK /\ toPpd \in Seq(OwnedCalls(owner))
    BY DEF HoldIInv, OwnersRight
  <1>1. PICK ks \in InAnyOrder(held) :
            toDaemon' = toDaemon \o Changes(p, {}) \o ProfileReleasedFor(ks)
    BY DEF OthersSet
  <1> DEFINE gone == ProfileReleasedFor(ks)
             said == Said(p, {}, gone)
  <1>2. /\ gone \in Seq(PpdMessages) /\ gone \in Seq(OwnedMessages(owner))
        /\ \A k \in Cookies : ~Grants(gone, k) /\ (Ends(gone, k) <=> k \in held)
    BY <1>0, HeldInAnyOrder, ChangesOwned, GoneSays
  <1>3. toDaemon' = toDaemon \o Changes(p, {}) \o gone
    BY <1>1
  <1> HIDE DEF gone
  <1>4. /\ said \in Seq(PpdMessages) /\ toDaemon' = toDaemon \o said
        /\ said \in Seq(OwnedMessages(owner))
        /\ \A k \in Cookies :
               (Grants(said, k) <=> Grants(gone, k)) /\ (Ends(said, k) <=> Ends(gone, k))
    BY <1>0, <1>2, <1>3, AnswersSay
  <1> HIDE DEF said
  <1>5. held' = {} /\ UNCHANGED <<owner, toPpd, holdMap>>
    BY DEF OthersSet, daemon
  <1>6. \A k \in Cookies :
            (Releases(toPpd', k) => Releases(toPpd, k)) /\ (Forgets(toPpd', k) => Forgets(toPpd, k))
    BY <1>5
  <1> QED
    BY <1>0, <1>2, <1>4, <1>5, <1>6, EndOfAllKeepsHolds

LEMMA RestartKeepsHolds ==
    ASSUME HoldIInv, Restart
    PROVE  OwnersRight' /\ HoldsSound'
  <1> DEFINE m == [op |-> "getAll", by |-> Nobody]
  <1>1. /\ held' = {} /\ toPpd' = <<m>> /\ toDaemon' = <<>> /\ holdMap' = {}
        /\ owner' = owner
    BY DEF Restart
  <1>2. m \in OwnedCalls(owner) /\ m.op = "getAll"
    BY CallsAreTyped DEF OwnedCalls
  <1> HIDE DEF m
  <1>3. OwnersRight'
    BY <1>1, <1>2, Single DEF OwnersRight
  <1>4. ASSUME NEW k \in Cookies PROVE HoldSound(k)'
    <2>1. ~Releases(toPpd', k) /\ ~Forgets(toPpd', k)
      BY <1>1, <1>2, OneSays DEF IsRelease, IsForget
    <2>2. /\ ~Grants(toDaemon', k) /\ ~Ends(toDaemon', k)
          /\ EndsWhatItGrants(toDaemon', k) /\ GrantsOnce(toDaemon', k)
      BY <1>1, NoneSay
    <2>3. k \notin held' /\ ~(Listed(k)')
      BY <1>1 DEF Listed
    <2> QED
      BY <2>1, <2>2, <2>3 DEF HoldSound
  <1> QED
    BY <1>3, <1>4 DEF HoldsSound

LEMMA InitHolds == Init => OwnersRight /\ HoldsSound
  <1> SUFFICES ASSUME Init PROVE OwnersRight /\ HoldsSound
    OBVIOUS
  <1> DEFINE m == [op |-> "getAll", by |-> Nobody]
  <1>1. held = {} /\ toPpd = <<m>> /\ toDaemon = <<>> /\ holdMap = {}
    BY DEF Init
  <1>2. m \in OwnedCalls(owner) /\ m.op = "getAll"
    BY CallsAreTyped DEF OwnedCalls
  <1> HIDE DEF m
  <1>3. OwnersRight
    BY <1>1, <1>2, Single DEF OwnersRight
  <1>4. ASSUME NEW k \in Cookies PROVE HoldSound(k)
    BY <1>1, <1>2, OneSays, NoneSay DEF HoldSound, Listed, IsRelease, IsForget
  <1> QED
    BY <1>3, <1>4 DEF HoldsSound

LEMMA HoldIInvKept == HoldIInv /\ [Next]_vars => HoldIInv'
  <1> SUFFICES ASSUME HoldIInv, [Next]_vars PROVE HoldIInv'
    OBVIOUS
  <1>0. TypeOK /\ toPpd \in Seq(DaemonCalls)
    BY DEF HoldIInv, TypeOK
  <1>1. TypeOK'
    <2>1. CASE Ppd
      BY <1>0, <2>1, PpdKeepsTypes
    <2>2. CASE FromPpd \/ ServeApplet
      BY <1>0, <2>2, DaemonKeepsTypes
    <2>3. CASE Applet \/ Users \/ Programs \/ Restart \/ \E c \in Clients : serviceUnregistered(c)
      BY <1>0, <2>3, OthersKeepTypes
    <2>4. CASE UNCHANGED vars
      BY <1>0, <2>4 DEF vars, ppd, channels, daemon, programs, applet, bounds, TypeOK
    <2> QED
      BY <2>1, <2>2, <2>3, <2>4 DEF Next
  <1>2. OwnersRight' /\ HoldsSound'
    <2>1. CASE Ppd
      BY <2>1, PpdKeepsHolds
    <2>2. CASE FromPpd
      BY <2>2, DaemonKeepsHolds
    <2>3. CASE ServeApplet
      <3> DEFINE m == [op |-> "set", by |-> "applet", profile |-> Head(calls).profile]
      <3>1. \/ UNCHANGED toPpd
            \/ Head(calls).op = "set" /\ calls # <<>> /\ toPpd' = Append(toPpd, m)
        BY <2>3 DEF ServeApplet
      <3>2. Head(calls).op = "set" /\ calls # <<>> => m \in DaemonCalls
        <4>1. calls # <<>> => Head(calls) \in AppletCalls
          BY <1>0, Read DEF TypeOK
        <4> QED
          BY <4>1, AppletTypes, CallsAreTyped
      <3>3. m.op # "release"
        OBVIOUS
      <3> HIDE DEF m
      <3>4. UNCHANGED <<held, owner, toDaemon, holdMap>>
        BY <2>3 DEF ServeApplet, ppd, daemon
      <3> QED
        BY <3>1, <3>2, <3>3, <3>4, CallsKeepHolds
    <2>4. CASE Applet
      <3>1. UNCHANGED <<toPpd, held, owner, toDaemon, holdMap>>
        BY <2>4 DEF Applet, onServiceRegistered, onServiceUnregistered,
                    updatePowerProfileCurrentProfile, AppletSetAnswered, ppd, daemon
      <3> QED
        BY <3>1, CallsKeepHolds
    <2>5. ASSUME NEW p \in Profiles, OthersSet(p) PROVE OwnersRight' /\ HoldsSound'
      BY <2>5, OthersKeepHolds
    <2>6. ASSUME NEW p \in Profiles, setProfile(p) PROVE OwnersRight' /\ HoldsSound'
      <3> DEFINE m == [op |-> "set", by |-> Nobody, profile |-> p]
      <3>1. m \in DaemonCalls /\ m.op # "release"
        BY CallsAreTyped
      <3>2. toPpd' = Append(toPpd, m) /\ UNCHANGED <<held, owner, toDaemon, holdMap>>
        BY <2>6 DEF setProfile, ppd, daemon
      <3> HIDE DEF m
      <3> QED
        BY <3>1, <3>2, CallsKeepHolds
    <2>7. ASSUME NEW p \in Profiles, AppletSetsProfile(p) PROVE OwnersRight' /\ HoldsSound'
      <3>1. UNCHANGED <<toPpd, held, owner, toDaemon, holdMap>>
        BY <2>7 DEF AppletSetsProfile, ppd, daemon
      <3> QED
        BY <3>1, CallsKeepHolds
    <2>8. ASSUME NEW c \in Clients, holdProfile(c) PROVE OwnersRight' /\ HoldsSound'
      <3> DEFINE m == [op |-> "hold", by |-> c]
      <3>1. m \in DaemonCalls /\ m.op # "release"
        BY CallsAreTyped
      <3>2. toPpd' = Append(toPpd, m) /\ UNCHANGED <<held, owner, toDaemon, holdMap>>
        BY <2>8 DEF holdProfile, ppd, daemon
      <3> HIDE DEF m
      <3> QED
        BY <3>1, <3>2, CallsKeepHolds
    <2>9. ASSUME NEW c \in Clients, Leave(c) PROVE OwnersRight' /\ HoldsSound'
      <3>1. UNCHANGED <<toPpd, held, owner, toDaemon, holdMap>>
        BY <2>9 DEF Leave, ppd, channels, daemon
      <3> QED
        BY <3>1, CallsKeepHolds
    <2>10. ASSUME NEW c \in Clients, NEW k \in Cookies, releaseProfile(c, k)
           PROVE  OwnersRight' /\ HoldsSound'
      BY <2>10, ReleaseKeepsHolds
    <2>11. ASSUME NEW c \in Clients, serviceUnregistered(c) PROVE OwnersRight' /\ HoldsSound'
      BY <2>11, DepartureKeepsHolds
    <2>12. CASE Restart
      BY <2>12, RestartKeepsHolds
    <2>13. CASE UNCHANGED vars
      <3>1. UNCHANGED <<toPpd, held, owner, toDaemon, holdMap>>
        BY <2>13 DEF vars, ppd, channels, daemon
      <3> QED
        BY <3>1, CallsKeepHolds
    <2> QED
      BY <2>1, <2>2, <2>3, <2>4, <2>5, <2>6, <2>7, <2>8, <2>9, <2>10, <2>11, <2>12, <2>13
      DEF Next, Users, Programs, Cookies
  <1> QED
    BY <1>1, <1>2 DEF HoldIInv

\* Every variable has its type: in particular every message has the fields its
\* handler reads, and only cookies of ppd are listed, for programs.
THEOREM TypeCorrect == Spec => []TypeOK
  <1>1. Init => HoldIInv
    BY InitTypes, InitHolds DEF HoldIInv
  <1>2. HoldIInv => TypeOK
    BY DEF HoldIInv
  <1> QED
    BY <1>1, <1>2, HoldIInvKept, PTL DEF Spec

\* What the daemon and ppd know of each other's holds fits the messages under
\* way between them (HoldIInv), in every reachable state: the invariant the
\* theorems about holds rest on.
THEOREM AlwaysHoldsSound == Spec => []HoldIInv
  <1>1. Init => HoldIInv
    BY InitTypes, InitHolds DEF HoldIInv
  <1> QED
    BY <1>1, HoldIInvKept, PTL DEF Spec

\* Once the daemon and ppd have handled each other's messages, the daemon lists
\* exactly the holds ppd honours, under the programs that obtained them
\* (holdProfile, releaseProfile, ProfileReleased and serviceUnregistered in
\* powerprofile.cpp), whatever programs and other users of ppd do meanwhile.
THEOREM AlwaysHoldsListed == Spec => []HoldsAreListed
  <1>1. HoldIInv => HoldsAreListed
    <2> SUFFICES ASSUME HoldIInv, toPpd = <<>>, toDaemon = <<>>
                 PROVE  holdMap = {<<owner[k], k>> : k \in held}
      BY DEF HoldsAreListed
    <2>1. /\ holdMap \subseteq Clients \X Cookies /\ held \subseteq Cookies
          /\ \A p \in holdMap : owner[p[2]] = p[1]
      BY DEF HoldIInv, TypeOK, OwnersRight
    <2>2. \A k \in Cookies : k \in held <=> Listed(k)
      BY NoneSay DEF HoldIInv, HoldsSound, HoldSound
    <2>3. ASSUME NEW p \in holdMap PROVE p \in {<<owner[k], k>> : k \in held}
      BY <2>1, <2>2 DEF Listed
    <2>4. ASSUME NEW k \in held PROVE <<owner[k], k>> \in holdMap
      BY <2>1, <2>2 DEF Listed
    <2> QED
      BY <2>3, <2>4
  <1> QED
    BY <1>1, AlwaysHoldsSound, PTL

-----------------------------------------------------------------------------
(* Which messages there are.                                               *)

\* One of the messages A is in q.
Some(q, A) == \E i \in 1 .. Len(q) : q[i] \in A

LEMMA TailHas ==
    ASSUME NEW S, NEW q \in Seq(S), q # <<>>
    PROVE  \A A : Some(q, A) <=> Head(q) \in A \/ Some(Tail(q), A)
  <1> DEFINE m == Head(q)
             r == Tail(q)
             n == Len(q)
  <1>1. /\ m = q[1] /\ n \in Nat \ {0} /\ Len(r) = n - 1
        /\ \A i \in 1 .. Len(r) : r[i] = q[i + 1]
        /\ \A i \in 2 .. n : q[i] = r[i - 1] /\ i - 1 \in 1 .. Len(r)
    BY Read
  <1> HIDE DEF m, r, n
  <1>2. \A i \in 1 .. n : i = 1 \/ i \in 2 .. n
    BY <1>1
  <1>3. \A i \in 1 .. Len(r) : i + 1 \in 1 .. n
    BY <1>1
  <1>4. \A A : Some(q, A) <=> m \in A \/ Some(r, A)
    BY <1>1, <1>2, <1>3 DEF Some, n
  <1> QED
    BY <1>4 DEF m, r

LEMMA JoinHas ==
    ASSUME NEW S, NEW q \in Seq(S), NEW r \in Seq(S)
    PROVE  \A A : Some(q \o r, A) <=> Some(q, A) \/ Some(r, A)
  <1> DEFINE s == q \o r
             n == Len(q)
             l == Len(r)
  <1>1. /\ n \in Nat /\ l \in Nat /\ Len(s) = n + l
        /\ \A i \in 1 .. n : i \in 1 .. Len(s) /\ s[i] = q[i]
        /\ \A i \in 1 .. l : n + i \in 1 .. Len(s) /\ s[n + i] = r[i]
        /\ \A i \in 1 .. Len(s) : i \in 1 .. n \/ (i > n /\ i - n \in 1 .. l /\ s[i] = r[i - n])
    BY Joined
  <1> HIDE DEF s, n, l
  <1>2. \A A : Some(s, A) <=> Some(q, A) \/ Some(r, A)
    BY <1>1 DEF Some, n, l
  <1> QED
    BY <1>2 DEF s

LEMMA OneHas ==
    ASSUME NEW m
    PROVE  \A A : Some(<<m>>, A) <=> m \in A
  <1>1. Len(<<m>>) = 1 /\ <<m>>[1] = m /\ 1 .. 1 = {1}
    OBVIOUS
  <1> QED
    BY <1>1 DEF Some

LEMMA NoneHas == \A A : ~Some(<<>>, A)
  BY DEF Some

-----------------------------------------------------------------------------
(* Programs that leave, at any time and with any number of holds.          *)

\* A hold that is listed for c is c's who is watched, whose departure is to be
\* noticed, or who is not watched any more.
ProgramSound(c) ==
    \A k \in Cookies : <<c, k>> \in holdMap =>
        c \in notices \/ (c \in watched /\ c \in onBus) \/ k \in lost

ProgramsSound == \A c \in Clients : ProgramSound(c)

LEMMA HoldsOfIs ==
    ASSUME NEW c, NEW k, NEW map
    PROVE  <<c, k>> \in map => k \in HoldsOf(c, map)
  BY DEF HoldsOf

\* The answer to HoldProfile lists the hold of a program that is watched from
\* now on, or is known to have left, or is lost.
LEMMA GrantKeepsPrograms ==
    ASSUME HoldIInv, NEW c \in Clients, ProgramSound(c), HoldGranted
    PROVE  ProgramSound(c)'
  <1> DEFINE d == Head(toDaemon).by
             j == Head(toDaemon).cookie
  <1>1. /\ watched' = watched \cup {d} /\ holdMap' = holdMap \cup {<<d, j>>}
        /\ lost' = IF d \in onBus THEN lost \ HoldsOf(d, holdMap)
                   ELSE IF d \in notices THEN lost ELSE lost \cup {j}
        /\ notices' = notices /\ onBus' = onBus
    BY DEF HoldGranted
  <1>2. \A p \in holdMap : owner[p[2]] = p[1]
    BY DEF HoldIInv, OwnersRight
  <1> HIDE DEF d, j
  <1> SUFFICES ASSUME NEW k \in Cookies, <<c, k>> \in holdMap'
               PROVE  c \in notices \/ (c \in watched' /\ c \in onBus) \/ k \in lost'
    BY <1>1 DEF ProgramSound
  <1>3. CASE c = d
    <2>1. CASE d \in onBus
      BY <1>1, <1>3, <2>1
    <2>2. CASE d \notin onBus /\ d \notin notices
      <3>1. lost' = lost \cup {j}
        BY <1>1, <2>2
      <3>2. k = j \/ <<c, k>> \in holdMap
        BY <1>1
      <3> QED
        BY <1>3, <2>2, <3>1, <3>2 DEF ProgramSound
    <2> QED
      BY <1>3, <2>1, <2>2
  <1>4. CASE c # d
    <2>1. <<c, k>> \in holdMap
      BY <1>1, <1>4
    <2>2. c \in notices \/ (c \in watched /\ c \in onBus) \/ k \in lost
      BY <2>1 DEF ProgramSound
    <2>3. k \notin HoldsOf(d, holdMap)
      <3> SUFFICES ASSUME k \in HoldsOf(d, holdMap) PROVE FALSE
        OBVIOUS
      <3>1. PICK p \in holdMap : p[1] = d /\ p[2] = k
        BY DEF HoldsOf
      <3>2. owner[k] = d
        BY <1>2, <3>1
      <3>3. owner[k] = c
        BY <1>2, <2>1
      <3> QED
        BY <1>4, <3>2, <3>3
    <2>4. k \in lost => k \in lost'
      BY <1>1, <2>3
    <2> QED
      BY <1>1, <2>2, <2>4
  <1> QED
    BY <1>3, <1>4

\* The answers that end a hold: what is not watched any more has no hold, or
\* its holds are lost.
LEMMA EndKeepsPrograms ==
    ASSUME HoldIInv, NEW c \in Clients, ProgramSound(c), ReleaseGranted \/ ProfileReleased
    PROVE  ProgramSound(c)'
  <1>1. CASE ReleaseGranted
    <2> DEFINE d == Head(toDaemon).by
               left == HoldsOf(d, holdMap')
    <2>1. /\ holdMap' = holdMap \ {<<d, Head(toDaemon).cookie>>}
          /\ Unwatch(IF left # {} THEN {d} ELSE {})
          /\ lost' = IF d \in notices' THEN lost ELSE lost \cup left
          /\ onBus' = onBus
      BY <1>1 DEF ReleaseGranted
    <2> HIDE DEF d
    <2>2. /\ c # d => (c \in watched => c \in watched') /\ (c \in notices => c \in notices')
          /\ lost \subseteq lost'
      BY <2>1 DEF Unwatch
    <2> SUFFICES ASSUME NEW k \in Cookies, <<c, k>> \in holdMap'
                 PROVE  c \in notices' \/ (c \in watched' /\ c \in onBus') \/ k \in lost'
      BY DEF ProgramSound
    <2>3. c = d => k \in left
      BY HoldsOfIs
    <2> HIDE DEF left
    <2>4. <<c, k>> \in holdMap
      BY <2>1
    <2> QED
      BY <2>1, <2>2, <2>3, <2>4 DEF ProgramSound
  <1>2. CASE ProfileReleased
    <2> DEFINE gone == {p \in holdMap : p[2] = Head(toDaemon).cookie}
               C == {p[1] : p \in {q \in gone : HoldsOf(q[1], holdMap \ gone) = {}}}
    <2>1. /\ holdMap' = holdMap \ gone /\ Unwatch(C)
          /\ lost' = lost /\ onBus' = onBus
      BY <1>2 DEF ProfileReleased
    <2> SUFFICES ASSUME NEW k \in Cookies, <<c, k>> \in holdMap'
                 PROVE  c \in notices' \/ (c \in watched' /\ c \in onBus') \/ k \in lost'
      BY DEF ProgramSound
    <2>2. <<c, k>> \in holdMap /\ HoldsOf(c, holdMap \ gone) # {}
      BY <2>1, HoldsOfIs
    <2>3. c \notin C
      BY <2>2
    <2> HIDE DEF C, gone
    <2>4. (c \in watched => c \in watched') /\ (c \in notices => c \in notices')
      BY <2>1, <2>3 DEF Unwatch
    <2> QED
      BY <2>1, <2>2, <2>4 DEF ProgramSound
  <1> QED
    BY <1>1, <1>2

\* A program leaves, and the daemon notices.
LEMMA DepartureKeepsPrograms ==
    ASSUME NEW c \in Clients, ProgramSound(c), NEW d \in Clients,
           Leave(d) \/ serviceUnregistered(d)
    PROVE  ProgramSound(c)'
  <1>1. CASE Leave(d)
    <2>1. /\ onBus' = onBus \ {d}
          /\ notices' = IF d \in watched THEN notices \cup {d} ELSE notices
          /\ UNCHANGED <<watched, holdMap, lost>>
      BY <1>1 DEF Leave, daemon
    <2> QED
      BY <2>1 DEF ProgramSound
  <1>2. CASE serviceUnregistered(d)
    <2>1. /\ holdMap' = {p \in holdMap : p[1] # d}
          /\ notices' = notices \ {d} /\ watched' = watched \ {d}
          /\ UNCHANGED <<onBus, lost>>
      BY <1>2 DEF serviceUnregistered
    <2>2. \A k \in Cookies : <<c, k>> \in holdMap' => c # d /\ <<c, k>> \in holdMap
      BY <2>1
    <2> QED
      BY <2>1, <2>2 DEF ProgramSound
  <1> QED
    BY <1>1, <1>2

\* The holds of a program end with it, however many it has and whenever it
\* leaves: once the program is gone, its departure is still to be noticed
\* (m_holdWatcher, serviceUnregistered in powerprofile.cpp), the hold is still to
\* be listed, or its release is on the way to ppd.  The holds that are lost, by
\* the two lines that `HoldsEndWithProgram' names, are not promised anything.
THEOREM AlwaysHoldsEnd == Spec => []HoldsEndWithProgram
  <1> DEFINE IInv == HoldIInv /\ ProgramsSound
  <1>1. Init => IInv
    <2>1. Init => ProgramsSound
      BY DEF Init, ProgramsSound, ProgramSound
    <2> QED
      BY <2>1, InitTypes, InitHolds DEF HoldIInv
  <1>2. IInv /\ [Next]_vars => IInv'
    <2> SUFFICES ASSUME HoldIInv, ProgramsSound, [Next]_vars
                 PROVE  HoldIInv' /\ ProgramsSound'
      OBVIOUS
    <2>1. HoldIInv'
      BY HoldIInvKept
    <2>2. ASSUME NEW c \in Clients PROVE ProgramSound(c)'
      <3>0. ProgramSound(c)
        BY DEF ProgramsSound
      <3>1. ASSUME UNCHANGED <<onBus, notices, watched, holdMap, lost>>
            PROVE  ProgramSound(c)'
        BY <3>0, <3>1 DEF ProgramSound
      <3>2. CASE Ppd
        BY <3>1, <3>2 DEF Ppd, PpdGetsAll, PpdHolds, PpdReleases, PpdSets, PpdAnswers, daemon, programs
      <3>3. CASE propertiesChanged \/ SetAnswered \/ ServeApplet
        BY <3>1, <3>3 DEF propertiesChanged, SetAnswered, ServeApplet, daemon, programs
      <3>4. CASE Users \/ Applet
        BY <3>1, <3>4 DEF Users, OthersSet, setProfile, AppletSetsProfile, Applet,
                          onServiceRegistered, onServiceUnregistered,
                          updatePowerProfileCurrentProfile, AppletSetAnswered, daemon, programs
      <3>5. ASSUME NEW d \in Clients, holdProfile(d) PROVE ProgramSound(c)'
        BY <3>1, <3>5 DEF holdProfile, daemon, programs
      <3>6. ASSUME NEW d \in Clients, NEW k \in Cookies, releaseProfile(d, k)
            PROVE  ProgramSound(c)'
        BY <3>1, <3>6 DEF releaseProfile, daemon, programs
      <3>7. CASE Programs
        BY <3>0, <3>5, <3>6, <3>7, DepartureKeepsPrograms DEF Programs, Cookies
      <3>8. CASE FromPpd
        BY <3>0, <3>3, <3>8, GrantKeepsPrograms, EndKeepsPrograms DEF FromPpd
      <3>9. CASE Restart
        <4>1. holdMap' = {}
          BY <3>9 DEF Restart
        <4> QED
          BY <4>1 DEF ProgramSound
      <3>10. ASSUME NEW d \in Clients, serviceUnregistered(d) PROVE ProgramSound(c)'
        BY <3>0, <3>10, DepartureKeepsPrograms
      <3>11. CASE UNCHANGED vars
        BY <3>1, <3>11 DEF vars, daemon, programs
      <3> QED
        BY <3>2, <3>3, <3>4, <3>7, <3>8, <3>9, <3>10, <3>11 DEF Next
    <2> QED
      BY <2>1, <2>2 DEF ProgramsSound
  <1>3. IInv => HoldsEndWithProgram
    <2> SUFFICES ASSUME HoldIInv, ProgramsSound, NEW k \in held \ lost, owner[k] \notin onBus
                 PROVE  \/ owner[k] \in notices
                        \/ \E i \in 1 .. Len(toDaemon) : /\ toDaemon[i].kind = "held"
                                                         /\ toDaemon[i].cookie = k
                        \/ \E i \in 1 .. Len(toPpd) : /\ toPpd[i].op = "release"
                                                      /\ toPpd[i].cookie = k
      BY DEF HoldsEndWithProgram
    <2>1. /\ k \in Cookies /\ owner \in [Cookies -> Clients \cup {Nobody}]
          /\ \A p \in holdMap : owner[p[2]] = p[1]
      BY DEF HoldIInv, TypeOK, OwnersRight
    <2>2. owner[k] \in Clients /\ (Grants(toDaemon, k) \/ Listed(k) \/ Forgets(toPpd, k))
      BY <2>1 DEF HoldIInv, HoldsSound, HoldSound
    <2>3. CASE Grants(toDaemon, k)
      BY <2>3 DEF Grants, IsHeld
    <2>4. CASE Listed(k)
      BY <2>1, <2>2, <2>4 DEF Listed, ProgramsSound, ProgramSound
    <2>5. CASE Forgets(toPpd, k)
      BY <2>5 DEF Forgets, IsForget, IsRelease
    <2> QED
      BY <2>2, <2>3, <2>4, <2>5
  <1> QED
    BY <1>1, <1>2, <1>3, PTL DEF Spec

-----------------------------------------------------------------------------
(* The profile that is shown.                                              *)

Asks == {m \in DaemonCalls : m.op = "getAll"}
Changed == {m \in PpdMessages : m.kind = "properties"}
SetDone == {m \in PpdMessages : m.kind = "set"}
Fetches == {m \in AppletCalls : m.op = "fetch"}
Registered == {m \in AppletMessages : m.kind = "registered"}
Unregistered == {m \in AppletMessages : m.kind = "unregistered"}
Shown == {m \in AppletMessages : m.kind \in {"currentProfileChanged", "done"}}

\* After the first n of the messages q, the last of those in A has told of the
\* profile p, or there was none and it is the start.
TellsUpTo(n, A, q, start, p) ==
    \/ start = p /\ \A i \in 1 .. n : q[i] \notin A
    \/ \E i \in 1 .. n : /\ q[i] \in A /\ q[i].profile = p
                         /\ \A j \in 1 .. n : i < j => q[j] \notin A
Tells(A, q, start, p) == TellsUpTo(Len(q), A, q, start, p)

\* What follows, of A and B: only the first is of A; one of B follows each of A.
OnlyFirst(q, A) == \A i \in 1 .. Len(q) : q[i] \in A => i = 1
Followed(q, A, B) ==
    \A i \in 1 .. Len(q) : q[i] \in A => \E j \in 1 .. Len(q) : i < j /\ q[j] \in B

\* What the daemon will be told is the profile of ppd, unless it has yet to
\* ask; the answer to a choice comes when the daemon has been told of it.
DaemonSound ==
    /\ OnlyFirst(toPpd, Asks)
    /\ Some(toPpd, Asks) \/ Tells(Changed, toDaemon, current, ActiveProfile)
    /\ \A i \in 1 .. Len(toDaemon) : toDaemon[i] \in SetDone =>
           TellsUpTo(i - 1, Changed, toDaemon, current, toDaemon[i].profile)

\* What the applet will be told is what the daemon knows, unless it has yet
\* to fetch it.
AppletSound ==
    /\ installed \/ Some(toApplet, Registered)
    /\ Followed(toApplet, Unregistered, Registered)
    /\ \/ Some(toApplet, Registered) \/ Some(calls, Fetches)
       \/ Tells(Shown, toApplet, active, current)

LEMMA TailTells ==
    ASSUME NEW S, NEW q \in Seq(S), q # <<>>, NEW A, NEW start, NEW new, NEW p,
           Head(q) \in A => new = Head(q).profile, Head(q) \notin A => new = start
    PROVE  /\ \A n \in 1 .. Len(q) :
                  TellsUpTo(n, A, q, start, p) => TellsUpTo(n - 1, A, Tail(q), new, p)
           /\ Tells(A, q, start, p) => Tells(A, Tail(q), new, p)
  <1> DEFINE m == Head(q)
             r == Tail(q)
             l == Len(q)
  <1>1. /\ m = q[1] /\ l \in Nat \ {0} /\ Len(r) = l - 1
        /\ \A i \in 1 .. l - 1 : r[i] = q[i + 1]
    BY Read
  <1>2. (m \in A => new = m.profile) /\ (m \notin A => new = start)
    OBVIOUS
  <1> HIDE DEF m, r, l
  <1>3. ASSUME NEW n \in 1 .. l, TellsUpTo(n, A, q, start, p)
        PROVE  TellsUpTo(n - 1, A, r, new, p)
    <2>1. \A i \in 1 .. n - 1 : r[i] = q[i + 1] /\ i + 1 \in 1 .. n
      BY <1>1
    <2>2. CASE start = p /\ \A i \in 1 .. n : q[i] \notin A
      <3>1. m \notin A
        BY <1>1, <2>2
      <3> QED
        BY <1>2, <2>1, <2>2, <3>1 DEF TellsUpTo
    <2>3. ASSUME NEW i \in 1 .. n, q[i] \in A, q[i].profile = p,
                 \A j \in 1 .. n : i < j => q[j] \notin A
          PROVE  TellsUpTo(n - 1, A, r, new, p)
      <3>1. CASE i = 1
        <4>1. new = p
          BY <1>1, <1>2, <2>3, <3>1
        <4>2. \A j \in 1 .. n - 1 : r[j] \notin A
          BY <1>1, <2>1, <2>3, <3>1
        <4> QED
          BY <4>1, <4>2 DEF TellsUpTo
      <3>2. CASE i # 1
        <4>1. i - 1 \in 1 .. n - 1 /\ r[i - 1] = q[i]
          BY <1>1, <3>2
        <4>2. \A j \in 1 .. n - 1 : i - 1 < j => r[j] \notin A
          BY <1>1, <2>1, <2>3
        <4> QED
          BY <2>3, <4>1, <4>2 DEF TellsUpTo
      <3> QED
        BY <3>1, <3>2
    <2> QED
      BY <1>3, <2>2, <2>3 DEF TellsUpTo
  <1>4. ASSUME Tells(A, q, start, p) PROVE Tells(A, r, new, p)
    <2>1. TellsUpTo(l, A, q, start, p) /\ l \in 1 .. l
      BY <1>1, <1>4 DEF Tells, l
    <2>2. TellsUpTo(l - 1, A, r, new, p)
      BY <1>3, <2>1
    <2> QED
      BY <1>1, <2>2 DEF Tells
  <1> QED
    BY <1>3, <1>4 DEF m, r, l

LEMMA JoinTells ==
    ASSUME NEW S, NEW q \in Seq(S), NEW r \in Seq(S), NEW A, NEW start, NEW p
    PROVE  /\ \A n \in 0 .. Len(q) :
                  TellsUpTo(n, A, q \o r, start, p) <=> TellsUpTo(n, A, q, start, p)
           /\ ~Some(r, A) => (Tells(A, q \o r, start, p) <=> Tells(A, q, start, p))
           /\ \A m \in S : m \in A /\ m.profile = p /\ r = <<m>> => Tells(A, q \o r, start, p)
  <1> DEFINE s == q \o r
             l == Len(q)
             k == Len(r)
  <1>1. /\ l \in Nat /\ k \in Nat /\ Len(s) = l + k
        /\ \A i \in 1 .. l : s[i] = q[i]
        /\ \A i \in 1 .. k : s[l + i] = r[i]
        /\ \A i \in 1 .. Len(s) : i \in 1 .. l \/ (i > l /\ i - l \in 1 .. k /\ s[i] = r[i - l])
    BY Joined
  <1> HIDE DEF s, l, k
  <1>2. \A n \in 0 .. l : TellsUpTo(n, A, s, start, p) <=> TellsUpTo(n, A, q, start, p)
    <2> SUFFICES ASSUME NEW n \in 0 .. l
                 PROVE  TellsUpTo(n, A, s, start, p) <=> TellsUpTo(n, A, q, start, p)
      OBVIOUS
    <2>1. \A i \in 1 .. n : s[i] = q[i]
      BY <1>1
    <2> QED
      BY <2>1 DEF TellsUpTo
  <1>3. ASSUME ~Some(r, A) PROVE Tells(A, s, start, p) <=> Tells(A, q, start, p)
    <2>1. /\ \A i \in 1 .. l : i \in 1 .. l + k /\ s[i] = q[i]
          /\ \A i \in 1 .. l + k : i \in 1 .. l \/ (i > l /\ s[i] \notin A)
      BY <1>1, <1>3 DEF Some, k
    <2>2. TellsUpTo(l + k, A, s, start, p) <=> TellsUpTo(l, A, q, start, p)
      BY <1>1, <2>1 DEF TellsUpTo
    <2> QED
      BY <1>1, <2>2 DEF Tells, l
  <1>4. ASSUME NEW m \in S, m \in A, m.profile = p, r = <<m>> PROVE Tells(A, s, start, p)
    <2>1. k = 1 /\ r[1] = m
      BY <1>4 DEF k
    <2>2. l + 1 \in 1 .. l + 1 /\ s[l + 1] = m /\ \A j \in 1 .. l + 1 : ~(l + 1 < j)
      BY <1>1, <2>1
    <2>3. TellsUpTo(l + 1, A, s, start, p)
      BY <1>4, <2>2 DEF TellsUpTo
    <2> QED
      BY <1>1, <2>1, <2>3 DEF Tells
  <1> QED
    BY <1>2, <1>3, <1>4 DEF s, l

LEMMA NoneTells == \A A, start, p : Tells(A, <<>>, start, p) <=> start = p
  BY DEF Tells, TellsUpTo

LEMMA OrdersKept ==
    ASSUME NEW S, NEW q \in Seq(S), NEW A, NEW B
    PROVE  /\ q # <<>> => /\ OnlyFirst(q, A) => ~Some(Tail(q), A) /\ OnlyFirst(Tail(q), A)
                          /\ Followed(q, A, B) => /\ Followed(Tail(q), A, B)
                                                  /\ Head(q) \in A => Some(Tail(q), B)
           /\ \A r \in Seq(S) : ~Some(r, A) =>
                 /\ OnlyFirst(q, A) => OnlyFirst(q \o r, A)
                 /\ Followed(q, A, B) => Followed(q \o r, A, B)
  <1>1. ASSUME q # <<>>
        PROVE  /\ OnlyFirst(q, A) => ~Some(Tail(q), A) /\ OnlyFirst(Tail(q), A)
               /\ Followed(q, A, B) => /\ Followed(Tail(q), A, B)
                                       /\ Head(q) \in A => Some(Tail(q), B)
    <2> DEFINE m == Head(q)
               r == Tail(q)
               n == Len(q)
    <2>1. /\ m = q[1] /\ n \in Nat \ {0} /\ Len(r) = n - 1
          /\ \A i \in 1 .. n - 1 : r[i] = q[i + 1]
          /\ \A i \in 2 .. n : q[i] = r[i - 1] /\ i - 1 \in 1 .. n - 1
      BY <1>1, Read
    <2> HIDE DEF m, r, n
    <2>2. \A i \in 1 .. n - 1 : i + 1 \in 1 .. n /\ i + 1 # 1
      BY <2>1
    <2>3. OnlyFirst(q, A) => ~Some(r, A) /\ OnlyFirst(r, A)
      BY <2>1, <2>2 DEF OnlyFirst, Some, n
    <2>4. ASSUME Followed(q, A, B), NEW i \in 1 .. n - 1, r[i] \in A
          PROVE  \E j \in 1 .. n - 1 : i < j /\ r[j] \in B
      <3>1. PICK j \in 1 .. n : i + 1 < j /\ q[j] \in B
        BY <2>1, <2>2, <2>4 DEF Followed, n
      <3>2. j - 1 \in 1 .. n - 1 /\ i < j - 1 /\ r[j - 1] = q[j]
        BY <2>1, <3>1
      <3> QED
        BY <3>1, <3>2
    <2>5. ASSUME Followed(q, A, B), m \in A PROVE Some(r, B)
      <3>1. PICK j \in 1 .. n : 1 < j /\ q[j] \in B
        BY <2>1, <2>5 DEF Followed, n
      <3>2. j - 1 \in 1 .. n - 1 /\ r[j - 1] = q[j]
        BY <2>1, <3>1
      <3> QED
        BY <2>1, <3>1, <3>2 DEF Some
    <2>6. Followed(q, A, B) => Followed(r, A, B)
      BY <2>1, <2>4 DEF Followed
    <2> QED
      BY <2>3, <2>5, <2>6 DEF m, r
  <1>2. ASSUME NEW r \in Seq(S), ~Some(r, A)
        PROVE  /\ OnlyFirst(q, A) => OnlyFirst(q \o r, A)
               /\ Followed(q, A, B) => Followed(q \o r, A, B)
    <2> DEFINE s == q \o r
               l == Len(q)
               k == Len(r)
    <2>1. /\ l \in Nat /\ k \in Nat /\ Len(s) = l + k
          /\ \A i \in 1 .. l : i \in 1 .. l + k /\ s[i] = q[i]
          /\ \A i \in 1 .. l + k : i \in 1 .. l \/ (i - l \in 1 .. k /\ s[i] = r[i - l])
      BY Joined
    <2> HIDE DEF s, l, k
    <2>2. \A i \in 1 .. l + k : s[i] \in A => i \in 1 .. l /\ q[i] \in A
      BY <1>2, <2>1 DEF Some, k
    <2>3. OnlyFirst(q, A) => OnlyFirst(s, A)
      BY <2>1, <2>2 DEF OnlyFirst, l
    <2>4. Followed(q, A, B) => Followed(s, A, B)
      BY <2>1, <2>2 DEF Followed, l
    <2> QED
      BY <2>3, <2>4 DEF s
  <1> QED
    BY <1>1, <1>2

\* More calls, none of them the first one.
LEMMA CallsKeepTold ==
    ASSUME TypeOK, DaemonSound,
           \/ toPpd' = toPpd
           \/ \E r \in Seq(DaemonCalls) : toPpd' = toPpd \o r /\ ~Some(r, Asks),
           UNCHANGED <<toDaemon, current, selected, held>>
    PROVE  DaemonSound'
  <1>0. toPpd \in Seq(DaemonCalls)
    BY DEF TypeOK
  <1>1. OnlyFirst(toPpd', Asks) /\ (Some(toPpd, Asks) => Some(toPpd', Asks))
    <2>1. CASE toPpd' = toPpd
      BY <2>1 DEF DaemonSound
    <2>2. ASSUME NEW r \in Seq(DaemonCalls), toPpd' = toPpd \o r, ~Some(r, Asks)
          PROVE  <1>1!:
      BY <1>0, <2>2, JoinHas, OrdersKept DEF DaemonSound
    <2> QED
      BY <2>1, <2>2
  <1>2. ActiveProfile' = ActiveProfile
    BY DEF ActiveProfile, Chosen
  <1> QED
    BY <1>1, <1>2 DEF DaemonSound

\* A call that is not the first one is added.
LEMMA CallKeepsTold ==
    ASSUME TypeOK, DaemonSound, NEW m \in DaemonCalls, m.op # "getAll",
           toPpd' = Append(toPpd, m), UNCHANGED <<toDaemon, current, selected, held>>
    PROVE  DaemonSound'
  <1>1. <<m>> \in Seq(DaemonCalls) /\ toPpd' = toPpd \o <<m>> /\ ~Some(<<m>>, Asks)
    BY Appended, Single, OneHas DEF Asks, TypeOK
  <1> QED
    BY <1>1, CallsKeepTold

\* A change tells of the new profile.
LEMMA ChangeTells ==
    ASSUME TypeOK, NEW s \in Profiles, NEW h, NEW start
    PROVE  /\ Changes(s, h) \in Seq(PpdMessages) /\ ~Some(Changes(s, h), SetDone)
           /\ Tells(Changed, toDaemon, start, ActiveProfile) =>
                  Tells(Changed, toDaemon \o Changes(s, h), start, Chosen(s, h))
  <1> DEFINE q == Changes(s, h)
             p == Chosen(s, h)
  <1>1. /\ q \in Seq(PpdMessages) /\ p \in Profiles /\ toDaemon \in Seq(PpdMessages)
        /\ \A i \in 1 .. Len(q) : q[i] = Properties(p)
    BY ChangesSaid DEF TypeOK
  <1>2. q = IF p = ActiveProfile THEN <<>> ELSE <<Properties(p)>>
    BY DEF Changes
  <1> HIDE DEF p, q
  <1>3. Properties(p) \in Changed /\ Properties(p) \notin SetDone /\ Properties(p).profile = p
        /\ Properties(p) \in PpdMessages
    <2>1. Properties(p) \in PpdMessages
      BY <1>1, MessagesAreTyped
    <2> QED
      BY <2>1 DEF Properties, Changed, SetDone
  <1>4. ~Some(q, SetDone)
    BY <1>1, <1>3 DEF Some
  <1>5. Tells(Changed, toDaemon, start, ActiveProfile) => Tells(Changed, toDaemon \o q, start, p)
    <2>1. CASE p = ActiveProfile
      <3>1. ~Some(q, Changed)
        BY <1>2, <2>1, NoneHas
      <3> QED
        BY <1>1, <2>1, <3>1, JoinTells
    <2>2. CASE p # ActiveProfile
      BY <1>1, <1>2, <1>3, <2>2, JoinTells
    <2> QED
      BY <2>1, <2>2
  <1> QED
    BY <1>1, <1>4, <1>5 DEF q, p

\* Messages r after those the daemon has yet to handle, of which no answer to
\* a choice is one.
LEMMA AnswersStillFollow ==
    ASSUME TypeOK, NEW r \in Seq(PpdMessages), ~Some(r, SetDone),
           \A i \in 1 .. Len(toDaemon) : toDaemon[i] \in SetDone =>
               TellsUpTo(i - 1, Changed, toDaemon, current, toDaemon[i].profile)
    PROVE  \A i \in 1 .. Len(toDaemon \o r) : (toDaemon \o r)[i] \in SetDone =>
               TellsUpTo(i - 1, Changed, toDaemon \o r, current, (toDaemon \o r)[i].profile)
  <1> DEFINE q == toDaemon
             s == q \o r
  <1>1. /\ q \in Seq(PpdMessages) /\ Len(q) \in Nat
        /\ \A i \in 1 .. Len(q) : s[i] = q[i]
        /\ \A i \in 1 .. Len(s) : i \notin 1 .. Len(q) =>
               i - Len(q) \in 1 .. Len(r) /\ s[i] = r[i - Len(q)]
    BY Joined DEF TypeOK
  <1>2. \A n \in 0 .. Len(q) : \A p :
            TellsUpTo(n, Changed, s, current, p) <=> TellsUpTo(n, Changed, q, current, p)
    BY <1>1, JoinTells
  <1> HIDE DEF s
  <1> SUFFICES ASSUME NEW i \in 1 .. Len(s), s[i] \in SetDone
               PROVE  TellsUpTo(i - 1, Changed, s, current, s[i].profile)
    BY DEF s
  <1>3. i \in 1 .. Len(q) /\ s[i] = q[i]
    BY <1>1 DEF Some
  <1>4. TellsUpTo(i - 1, Changed, q, current, s[i].profile) /\ i - 1 \in 0 .. Len(q)
    BY <1>1, <1>3
  <1> QED
    BY <1>2, <1>4

LEMMA PpdKeepsTold ==
    ASSUME TypeOK, DaemonSound, Ppd
    PROVE  DaemonSound'
  <1> DEFINE call == Head(toPpd)
  <1>0. /\ toPpd \in Seq(DaemonCalls) /\ toDaemon \in Seq(PpdMessages)
        /\ selected \in Profiles
    BY DEF TypeOK
  <1>1. toPpd # <<>> /\ toPpd' = Tail(toPpd) /\ current' = current
    BY DEF Ppd, PpdGetsAll, PpdHolds, PpdReleases, PpdSets, PpdAnswers, daemon
  <1>2. /\ call \in DaemonCalls /\ OnlyFirst(toPpd', Asks)
        /\ call.op # "getAll" => ~Some(toPpd, Asks)
    <2>1. call \in DaemonCalls /\ OnlyFirst(toPpd', Asks) /\ ~Some(toPpd', Asks)
      BY <1>0, <1>1, Read, OrdersKept DEF DaemonSound
    <2>2. call.op # "getAll" => ~Some(toPpd, Asks)
      BY <1>0, <1>1, <2>1, TailHas DEF Asks
    <2> QED
      BY <2>1, <2>2
  <1>3. ASSUME NEW s \in Profiles, NEW h, NEW r \in Seq(PpdMessages), call.op # "getAll",
               toDaemon' = toDaemon \o Changes(s, h) \o r, selected' = s, held' = h,
               ~Some(r, Changed)
        PROVE  /\ Tells(Changed, toDaemon', current, ActiveProfile')
               /\ toDaemon \o Changes(s, h) \in Seq(PpdMessages)
               /\ Tells(Changed, toDaemon \o Changes(s, h), current, s) \/ h # {}
               /\ ~Some(r, SetDone) => DaemonSound'
    <2> DEFINE change == Changes(s, h)
    <2>1. /\ change \in Seq(PpdMessages) /\ ~Some(change, SetDone)
          /\ Tells(Changed, toDaemon \o change, current, Chosen(s, h))
      BY <1>2, <1>3, ChangeTells DEF DaemonSound
    <2>2. ActiveProfile' = Chosen(s, h) /\ (h = {} => Chosen(s, h) = s)
      BY <1>3 DEF ActiveProfile, Chosen
    <2>3. toDaemon' = toDaemon \o change \o r
      BY <1>3
    <2> HIDE DEF change
    <2>4. toDaemon \o change \in Seq(PpdMessages)
      BY <1>0, <2>1
    <2>5. Tells(Changed, toDaemon', current, ActiveProfile')
      <3> DEFINE before == toDaemon \o change
      <3>1. /\ before \in Seq(PpdMessages) /\ toDaemon' = before \o r
            /\ Tells(Changed, before, current, Chosen(s, h))
        BY <2>1, <2>3, <2>4
      <3> HIDE DEF before
      <3>2. Tells(Changed, before \o r, current, Chosen(s, h))
        BY <1>3, <3>1, JoinTells
      <3> QED
        BY <2>2, <3>1, <3>2
    <2>6. ASSUME ~Some(r, SetDone) PROVE DaemonSound'
      <3> DEFINE q == change \o r
      <3>1. /\ q \in Seq(PpdMessages) /\ toDaemon' = toDaemon \o q
            /\ ~Some(q, SetDone)
        BY <1>0, <2>1, <2>3, <2>6, JoinHas
      <3> HIDE DEF q
      <3>2. \A i \in 1 .. Len(toDaemon') : toDaemon'[i] \in SetDone =>
                TellsUpTo(i - 1, Changed, toDaemon', current, toDaemon'[i].profile)
        BY <3>1, AnswersStillFollow DEF DaemonSound
      <3> QED
        BY <1>1, <1>2, <2>5, <3>2 DEF DaemonSound
    <2> QED
      BY <2>1, <2>2, <2>4, <2>5, <2>6 DEF change
  <1>4. CASE PpdGetsAll
    <2> DEFINE m == Properties(ActiveProfile)
               change == Changes(selected, held)
               r == change \o <<m>>
    <2>1. /\ toDaemon' = toDaemon \o change \o <<m>>
          /\ UNCHANGED <<selected, held>>
      BY <1>4 DEF PpdGetsAll, PpdAnswers
    <2>2. m \in PpdMessages /\ m \in Changed /\ m.profile = ActiveProfile /\ m \notin SetDone
      <3>1. ActiveProfile \in Profiles
        BY <1>0, ProfilesAssumption DEF ActiveProfile, Chosen
      <3>2. m \in PpdMessages
        BY <3>1, MessagesAreTyped
      <3> QED
        BY <3>2 DEF Properties, Changed, SetDone
    <2>3. change \in Seq(PpdMessages) /\ ~Some(change, SetDone)
      BY <1>0, ChangeTells
    <2>4. ActiveProfile' = ActiveProfile
      BY <2>1 DEF ActiveProfile, Chosen
    <2> HIDE DEF m, change
    <2>5. <<m>> \in Seq(PpdMessages) /\ ~Some(<<m>>, SetDone)
      BY <2>2, Single, OneHas
    <2>6. /\ r \in Seq(PpdMessages) /\ toDaemon' = toDaemon \o r
          /\ ~Some(r, SetDone)
      <3>1. r \in Seq(PpdMessages) /\ toDaemon' = toDaemon \o r
        BY <1>0, <2>1, <2>3, <2>5
      <3>2. ~Some(r, SetDone)
        BY <2>3, <2>5, JoinHas
      <3> QED
        BY <3>1, <3>2
    <2> HIDE DEF r
    <2>7. \A i \in 1 .. Len(toDaemon') : toDaemon'[i] \in SetDone =>
              TellsUpTo(i - 1, Changed, toDaemon', current, toDaemon'[i].profile)
      BY <2>6, AnswersStillFollow DEF DaemonSound
    <2>8. Tells(Changed, toDaemon', current, ActiveProfile)
      <3>1. toDaemon \o change \in Seq(PpdMessages)
        BY <1>0, <2>3
      <3> QED
        BY <2>1, <2>2, <2>5, <3>1, JoinTells
    <2> QED
      BY <1>1, <1>2, <2>4, <2>7, <2>8 DEF DaemonSound
  <1>5. CASE PpdHolds
    <2>1. call.op = "hold" /\ call.by \in Clients
      BY <1>2, <1>5, CallsHaveFields DEF PpdHolds
    <2>2. PICK k \in Cookies :
              PpdAnswers(selected, held \cup {k},
                         <<[kind |-> "held", by |-> call.by, cookie |-> k]>>)
      BY <1>5 DEF PpdHolds, Cookies
    <2> DEFINE m == [kind |-> "held", by |-> call.by, cookie |-> k]
    <2>3. m \in PpdMessages /\ m \notin Changed /\ m \notin SetDone
      BY <2>1, MessagesAreTyped DEF Changed, SetDone
    <2>4. /\ toDaemon' = toDaemon \o Changes(selected, held \cup {k}) \o <<m>>
          /\ selected' = selected /\ held' = held \cup {k}
      BY <2>2 DEF PpdAnswers
    <2> HIDE DEF m
    <2>5. <<m>> \in Seq(PpdMessages) /\ ~Some(<<m>>, Changed) /\ ~Some(<<m>>, SetDone)
      BY <2>3, Single, OneHas
    <2> QED
      BY <1>0, <1>3, <2>1, <2>4, <2>5
  <1>6. CASE PpdReleases
    <2> DEFINE j == call.cookie
               answers == IF j \in held /\ call.by # Nobody
                          THEN <<[kind |-> "released", by |-> call.by, cookie |-> j]>>
                          ELSE <<>>
    <2>1. /\ call.op = "release" /\ toDaemon' = toDaemon \o Changes(selected, held \ {j}) \o answers
          /\ selected' = selected /\ held' = held \ {j}
      BY <1>6 DEF PpdReleases, PpdAnswers
    <2>2. j \in Cookies /\ call.by \in Clients \cup {Nobody}
      BY <1>2, <2>1, CallsHaveFields
    <2>3. /\ answers \in Seq(PpdMessages) /\ ~Some(answers, Changed) /\ ~Some(answers, SetDone)
      <3>1. CASE j \in held /\ call.by # Nobody
        <4> DEFINE m == [kind |-> "released", by |-> call.by, cookie |-> j]
        <4>1. answers = <<m>>
          BY <3>1
        <4>2. m \in PpdMessages /\ m \notin Changed /\ m \notin SetDone
          BY <2>2, <3>1, MessagesAreTyped DEF Changed, SetDone
        <4> HIDE DEF m, answers, call
        <4> QED
          BY <4>1, <4>2, OneHas, Single
      <3>2. CASE ~(j \in held /\ call.by # Nobody)
        <4>1. answers = <<>>
          BY <3>2
        <4> HIDE DEF answers
        <4> QED
          BY <4>1, NoneHas
      <3> QED
        BY <3>1, <3>2
    <2> HIDE DEF answers
    <2> QED
      BY <1>0, <1>3, <2>1, <2>3
  <1>7. CASE PpdSets
    <2> DEFINE p == call.profile
               m == [kind |-> "set", by |-> call.by, profile |-> p]
    <2>1. PICK ks \in InAnyOrder(held) :
              PpdAnswers(p, {}, Append(ProfileReleasedFor(ks), m))
      BY <1>7 DEF PpdSets
    <2> DEFINE gone == ProfileReleasedFor(ks)
               answers == Append(gone, m)
               change == Changes(p, {})
    <2>2. /\ call.op = "set" /\ toDaemon' = toDaemon \o change \o answers
          /\ selected' = p /\ held' = {}
      BY <1>7, <2>1 DEF PpdSets, PpdAnswers
    <2>3. p \in Profiles /\ call.by \in {Nobody, "applet"}
      BY <1>2, <2>2, CallsHaveFields
    <2>4. m \in PpdMessages /\ m \notin Changed /\ m \in SetDone /\ m.profile = p
      BY <2>3, MessagesAreTyped DEF Changed, SetDone
    <2>5. gone \in Seq(PpdMessages) /\ ~Some(gone, Changed) /\ ~Some(gone, SetDone)
      <3>0. ks \in Seq(Cookies)
        BY HeldInAnyOrder
      <3>1. gone \in Seq(PpdMessages) /\ Len(gone) = Len(ks)
            /\ \A i \in 1 .. Len(ks) : gone[i].kind = "gone"
        BY <3>0, GoneSaid
      <3> HIDE DEF gone
      <3> QED
        BY <3>1 DEF Some, Changed, SetDone
    <2> HIDE DEF m, gone
    <2>6. /\ answers = gone \o <<m>> /\ <<m>> \in Seq(PpdMessages) /\ answers \in Seq(PpdMessages)
          /\ ~Some(answers, Changed)
      <3>1. ~Some(<<m>>, Changed) /\ <<m>> \in Seq(PpdMessages) /\ answers = gone \o <<m>>
        BY <2>4, <2>5, OneHas, Single, Appended
      <3> HIDE DEF answers
      <3>2. answers \in Seq(PpdMessages)
        BY <2>5, <3>1
      <3>3. ~Some(gone \o <<m>>, Changed)
        BY <2>5, <3>1, JoinHas
      <3> QED
        BY <3>1, <3>2, <3>3
    <2> HIDE DEF answers
    <2>7. /\ Tells(Changed, toDaemon', current, ActiveProfile')
          /\ toDaemon \o change \in Seq(PpdMessages)
          /\ Tells(Changed, toDaemon \o change, current, p)
      BY <1>3, <2>2, <2>3, <2>6
    <2>8. change \in Seq(PpdMessages) /\ ~Some(change, SetDone)
      BY <2>3, ChangeTells
    <2> HIDE DEF change
    <2> DEFINE r == change \o gone
               q == toDaemon \o r
    <2>9. /\ r \in Seq(PpdMessages) /\ ~Some(r, SetDone) /\ q \in Seq(PpdMessages)
          /\ q = (toDaemon \o change) \o gone /\ toDaemon' = q \o <<m>>
      <3>1. r \in Seq(PpdMessages) /\ q \in Seq(PpdMessages)
        BY <1>0, <2>5, <2>8
      <3>2. ~Some(r, SetDone)
        BY <2>5, <2>8, JoinHas
      <3>3. q = (toDaemon \o change) \o gone
        BY <1>0, <2>5, <2>8
      <3>4. toDaemon' = q \o <<m>>
        <4>1. toDaemon' = (toDaemon \o change) \o (gone \o <<m>>)
          BY <2>2, <2>6
        <4> HIDE DEF q
        <4> QED
          BY <1>0, <2>5, <2>6, <2>7, <3>3, <4>1
      <3> QED
        BY <3>1, <3>2, <3>3, <3>4
    <2>10. Tells(Changed, q, current, p)
      BY <2>5, <2>7, <2>9, JoinTells
    <2>11. \A i \in 1 .. Len(q) : q[i] \in SetDone =>
              TellsUpTo(i - 1, Changed, q, current, q[i].profile)
      <3> HIDE DEF r
      <3> QED
        BY <2>9, AnswersStillFollow DEF DaemonSound
    <2> HIDE DEF r, q
    <2>12. ASSUME NEW i \in 1 .. Len(toDaemon'), toDaemon'[i] \in SetDone
           PROVE  TellsUpTo(i - 1, Changed, toDaemon', current, toDaemon'[i].profile)
      <3>1. /\ Len(toDaemon') = Len(q) + 1 /\ Len(q) \in Nat /\ toDaemon'[Len(q) + 1] = m
            /\ \A j \in 1 .. Len(q) : toDaemon'[j] = q[j]
        BY <2>6, <2>9
      <3>2. \A n \in 0 .. Len(q) : \A s :
                TellsUpTo(n, Changed, toDaemon', current, s) <=> TellsUpTo(n, Changed, q, current, s)
        BY <2>6, <2>9, JoinTells
      <3>3. CASE i \in 1 .. Len(q)
        <4>1. TellsUpTo(i - 1, Changed, q, current, q[i].profile)
          BY <2>11, <2>12, <3>1, <3>3
        <4>2. i - 1 \in 0 .. Len(q) /\ toDaemon'[i] = q[i]
          BY <3>1, <3>3
        <4> QED
          BY <3>2, <4>1, <4>2
      <3>4. CASE i \notin 1 .. Len(q)
        <4>1. i = Len(q) + 1 /\ toDaemon'[i].profile = p /\ i - 1 = Len(q)
          BY <2>4, <3>1, <3>4
        <4>2. TellsUpTo(Len(q), Changed, q, current, p) /\ Len(q) \in 0 .. Len(q)
          BY <2>10, <3>1 DEF Tells
        <4> QED
          BY <3>2, <4>1, <4>2
      <3> QED
        BY <3>3, <3>4
    <2> QED
      BY <1>1, <1>2, <2>7, <2>12 DEF DaemonSound
  <1> QED
    BY <1>4, <1>5, <1>6, <1>7 DEF Ppd

\* Another program's choice is told like the others, unless the daemon has yet
\* to ask.
LEMMA OthersKeepTold ==
    ASSUME TypeOK, DaemonSound, NEW p \in Profiles, OthersSet(p)
    PROVE  DaemonSound'
  <1>0. toDaemon \in Seq(PpdMessages)
    BY DEF TypeOK
  <1>1. PICK ks \in InAnyOrder(held) :
            toDaemon' = toDaemon \o Changes(p, {}) \o ProfileReleasedFor(ks)
    BY DEF OthersSet
  <1> DEFINE gone == ProfileReleasedFor(ks)
             change == Changes(p, {})
             r == change \o gone
  <1>2. /\ selected' = p /\ held' = {} /\ UNCHANGED <<toPpd, current>>
        /\ toDaemon' = (toDaemon \o change) \o gone
    BY <1>1 DEF OthersSet, daemon
  <1>3. gone \in Seq(PpdMessages) /\ ~Some(gone, Changed) /\ ~Some(gone, SetDone)
    <2>0. ks \in Seq(Cookies)
      BY HeldInAnyOrder
    <2>1. gone \in Seq(PpdMessages) /\ Len(gone) = Len(ks)
          /\ \A i \in 1 .. Len(ks) : gone[i].kind = "gone"
      BY <2>0, GoneSaid
    <2> HIDE DEF gone
    <2> QED
      BY <2>1 DEF Some, Changed, SetDone
  <1>4. /\ change \in Seq(PpdMessages) /\ ~Some(change, SetDone)
        /\ Tells(Changed, toDaemon, current, ActiveProfile) =>
               Tells(Changed, toDaemon \o change, current, Chosen(p, {}))
    BY ChangeTells
  <1>5. ActiveProfile' = p /\ Chosen(p, {}) = p
    BY <1>2 DEF ActiveProfile, Chosen
  <1> HIDE DEF gone, change
  <1>6. Tells(Changed, toDaemon, current, ActiveProfile) => Tells(Changed, toDaemon', current, p)
    <2> DEFINE before == toDaemon \o change
    <2>1. before \in Seq(PpdMessages) /\ toDaemon' = before \o gone
      BY <1>0, <1>2, <1>4
    <2>2. Tells(Changed, toDaemon, current, ActiveProfile) => Tells(Changed, before, current, p)
      BY <1>4, <1>5
    <2> HIDE DEF before
    <2> QED
      BY <1>3, <2>1, <2>2, JoinTells
  <1>7. r \in Seq(PpdMessages) /\ toDaemon' = toDaemon \o r
    BY <1>0, <1>2, <1>3, <1>4
  <1>8. ~Some(r, SetDone)
    BY <1>3, <1>4, JoinHas
  <1> HIDE DEF r
  <1>9. \A i \in 1 .. Len(toDaemon') : toDaemon'[i] \in SetDone =>
            TellsUpTo(i - 1, Changed, toDaemon', current, toDaemon'[i].profile)
    BY <1>7, <1>8, AnswersStillFollow DEF DaemonSound
  <1> QED
    BY <1>2, <1>5, <1>6, <1>9 DEF DaemonSound

\* The daemon handles a message of ppd: a change is the profile it knows then.
LEMMA DaemonKeepsTold ==
    ASSUME TypeOK, DaemonSound, FromPpd
    PROVE  DaemonSound'
  <1> DEFINE m == Head(toDaemon)
  <1>0. toDaemon \in Seq(PpdMessages)
    BY DEF TypeOK
  <1>1. /\ toDaemon # <<>> /\ toDaemon' = Tail(toDaemon)
        /\ UNCHANGED <<toPpd, selected, held>>
    BY DEF FromPpd, propertiesChanged, HoldGranted, ReleaseGranted, ProfileReleased, SetAnswered,
           Receives, ppd
  <1>2. /\ m \in PpdMessages
        /\ m \in Changed => current' = m.profile
        /\ m \notin Changed => current' = current
    <2>1. m \in PpdMessages
      BY <1>0, <1>1, Read
    <2>2. CASE propertiesChanged
      BY <2>1, <2>2 DEF propertiesChanged, Receives, readProperties, Changed
    <2>3. CASE HoldGranted \/ ReleaseGranted \/ ProfileReleased \/ SetAnswered
      BY <2>1, <2>3 DEF HoldGranted, ReleaseGranted, ProfileReleased, SetAnswered, Receives,
                        Changed, daemon
    <2> QED
      BY <2>1, <2>2, <2>3 DEF FromPpd
  <1>3. ActiveProfile' = ActiveProfile
    BY <1>1 DEF ActiveProfile, Chosen
  <1>4. \A p : /\ \A n \in 1 .. Len(toDaemon) :
                      TellsUpTo(n, Changed, toDaemon, current, p) =>
                          TellsUpTo(n - 1, Changed, toDaemon', current', p)
               /\ Tells(Changed, toDaemon, current, p) => Tells(Changed, toDaemon', current', p)
    BY <1>0, <1>1, <1>2, TailTells
  <1>5. ASSUME NEW i \in 1 .. Len(toDaemon'), toDaemon'[i] \in SetDone
        PROVE  TellsUpTo(i - 1, Changed, toDaemon', current', toDaemon'[i].profile)
    <2>1. /\ toDaemon'[i] = toDaemon[i + 1] /\ i + 1 \in 1 .. Len(toDaemon)
          /\ i \in 1 .. Len(toDaemon) /\ i = (i + 1) - 1
      BY <1>0, <1>1
    <2>2. TellsUpTo((i + 1) - 1, Changed, toDaemon, current, toDaemon[i + 1].profile)
      BY <1>5, <2>1 DEF DaemonSound
    <2> QED
      BY <1>4, <2>1, <2>2
  <1> QED
    BY <1>1, <1>3, <1>4, <1>5 DEF DaemonSound

\* The daemon starts by asking.
LEMMA FreshTold ==
    /\ Init => DaemonSound
    /\ Restart => DaemonSound'
  <1> DEFINE m == [op |-> "getAll", by |-> Nobody]
  <1>1. m \in Asks /\ Len(<<m>>) = 1
    BY CallsAreTyped DEF Asks
  <1> HIDE DEF m
  <1>2. Some(<<m>>, Asks) /\ OnlyFirst(<<m>>, Asks)
    BY <1>1, OneHas DEF OnlyFirst
  <1>3. ASSUME Init PROVE DaemonSound
    <2>1. toPpd = <<m>> /\ toDaemon = <<>>
      BY <1>3 DEF Init, m
    <2> QED
      BY <1>2, <2>1 DEF DaemonSound
  <1>4. ASSUME Restart PROVE DaemonSound'
    <2>1. toPpd' = <<m>> /\ toDaemon' = <<>>
      BY <1>4 DEF Restart, m
    <2> QED
      BY <1>2, <2>1 DEF DaemonSound
  <1> QED
    BY <1>3, <1>4

\* Everything that concerns what ppd tells the daemon.
LEMMA NextKeepsTold ==
    ASSUME TypeOK, DaemonSound, [Next]_vars
    PROVE  DaemonSound'
  <1>1. CASE Ppd
    BY <1>1, PpdKeepsTold
  <1>2. CASE FromPpd
    BY <1>2, DaemonKeepsTold
  <1>3. ASSUME NEW p \in Profiles, OthersSet(p) PROVE DaemonSound'
    BY <1>3, OthersKeepTold
  <1>4. CASE Restart
    BY <1>4, FreshTold
  <1>5. ASSUME NEW c \in Clients, serviceUnregistered(c) PROVE DaemonSound'
    <2> DEFINE cookies == {k \in DOMAIN owner : <<c, k>> \in holdMap}
    <2>1. PICK ks \in InAnyOrder(cookies) : toPpd' = toPpd \o ReleasesOf(ks)
      BY <1>5 DEF serviceUnregistered
    <2>2. cookies \in SUBSET Cookies
      BY DEF TypeOK
    <2> HIDE DEF cookies
    <2>3. ks \in Seq(Cookies)
      BY <2>2, Orders
    <2> DEFINE q == ReleasesOf(ks)
    <2>4. /\ q \in Seq(DaemonCalls) /\ Len(q) = Len(ks)
          /\ \A i \in 1 .. Len(ks) : q[i].op = "release"
      BY <2>3, ReleasesSaid
    <2>5. toPpd' = toPpd \o q /\ UNCHANGED <<toDaemon, current, selected, held>>
      BY <1>5, <2>1 DEF serviceUnregistered, ppd
    <2> HIDE DEF q
    <2>6. ~Some(q, Asks)
      BY <2>4 DEF Some, Asks
    <2> QED
      BY <2>4, <2>5, <2>6, CallsKeepTold
  <1>6. CASE ServeApplet
    <2> DEFINE m == [op |-> "set", by |-> "applet", profile |-> Head(calls).profile]
    <2>1. /\ \/ UNCHANGED toPpd
             \/ Head(calls).op = "set" /\ calls # <<>> /\ toPpd' = Append(toPpd, m)
          /\ UNCHANGED <<toDaemon, current, selected, held>>
      BY <1>6 DEF ServeApplet, daemon, ppd
    <2>2. /\ m.op = "set"
          /\ Head(calls).op = "set" /\ calls # <<>> => m \in DaemonCalls
      <3>1. calls # <<>> => Head(calls) \in AppletCalls
        BY Read DEF TypeOK
      <3> QED
        BY <3>1, AppletTypes, CallsAreTyped
    <2> HIDE DEF m
    <2>3. CASE UNCHANGED toPpd
      BY <2>1, <2>3, CallsKeepTold
    <2>4. CASE m \in DaemonCalls /\ toPpd' = Append(toPpd, m)
      BY <2>1, <2>2, <2>4, CallKeepsTold
    <2> QED
      BY <2>1, <2>2, <2>3, <2>4
  <1>7. ASSUME NEW p \in Profiles, setProfile(p) PROVE DaemonSound'
    <2> DEFINE m == [op |-> "set", by |-> Nobody, profile |-> p]
    <2>1. /\ m \in DaemonCalls /\ m.op = "set" /\ toPpd' = Append(toPpd, m)
          /\ UNCHANGED <<toDaemon, current, selected, held>>
      BY <1>7, CallsAreTyped DEF setProfile, daemon, ppd
    <2> HIDE DEF m
    <2> QED
      BY <2>1, CallKeepsTold
  <1>8. ASSUME NEW c \in Clients, holdProfile(c) PROVE DaemonSound'
    <2> DEFINE m == [op |-> "hold", by |-> c]
    <2>1. /\ m \in DaemonCalls /\ m.op = "hold" /\ toPpd' = Append(toPpd, m)
          /\ UNCHANGED <<toDaemon, current, selected, held>>
      BY <1>8, CallsAreTyped DEF holdProfile, daemon, ppd
    <2> HIDE DEF m
    <2> QED
      BY <2>1, CallKeepsTold
  <1>9. ASSUME NEW c \in Clients, NEW k \in Cookies, releaseProfile(c, k) PROVE DaemonSound'
    <2> DEFINE m == [op |-> "release", by |-> c, cookie |-> k]
    <2>1. /\ m \in DaemonCalls /\ m.op = "release" /\ toPpd' = Append(toPpd, m)
          /\ UNCHANGED <<toDaemon, current, selected, held>>
      BY <1>9, CallsAreTyped DEF releaseProfile, daemon, ppd
    <2> HIDE DEF m
    <2> QED
      BY <2>1, CallKeepsTold
  <1>10. CASE \/ Applet \/ UNCHANGED vars \/ \E c \in Clients : Leave(c)
              \/ \E p \in Profiles : AppletSetsProfile(p)
    <2>1. UNCHANGED <<toPpd, toDaemon, current, selected, held>>
      BY <1>10 DEF Applet, onServiceRegistered, onServiceUnregistered, AppletSetsProfile,
                   updatePowerProfileCurrentProfile, AppletSetAnswered, Leave, vars, channels,
                   daemon, ppd
    <2> QED
      BY <2>1, CallsKeepTold
  <1> QED
    BY <1>1, <1>2, <1>3, <1>4, <1>5, <1>6, <1>7, <1>8, <1>9, <1>10
    DEF Next, Users, Programs, Cookies

\* The applet is told nothing that makes it come or go, and what it is shown
\* last is what the daemon knows.
LEMMA AppletKept ==
    ASSUME TypeOK, AppletSound, installed' = installed, active' = active,
           Some(calls, Fetches) => Some(calls', Fetches) \/ Tells(Shown, toApplet', active, current'),
           \/ toApplet' = toApplet /\ current' = current
           \/ toApplet' = toApplet /\ ~installed
           \/ \E m \in Shown : toApplet' = Append(toApplet, m) /\ m.profile = current'
    PROVE  AppletSound'
  <1>0. toApplet \in Seq(AppletMessages)
    BY DEF TypeOK
  <1>1. CASE toApplet' = toApplet /\ (current' = current \/ ~installed)
    BY <1>1 DEF AppletSound
  <1>2. ASSUME NEW m \in Shown, toApplet' = Append(toApplet, m), m.profile = current'
        PROVE  AppletSound'
    <2>1. m \in AppletMessages /\ m \notin Unregistered /\ m \notin Registered
      BY DEF Shown, Unregistered, Registered
    <2>2. <<m>> \in Seq(AppletMessages) /\ toApplet' = toApplet \o <<m>> /\ ~Some(<<m>>, Unregistered)
      BY <1>0, <1>2, <2>1, Appended, Single, OneHas
    <2>3. Followed(toApplet', Unregistered, Registered)
      BY <1>0, <2>2, OrdersKept DEF AppletSound
    <2>4. Tells(Shown, toApplet', active, current')
      <3>1. \A p : m.profile = p => Tells(Shown, toApplet \o <<m>>, active, p)
        BY <1>0, <2>1, <2>2, JoinTells
      <3> QED
        BY <1>2, <2>2, <3>1
    <2>5. Some(toApplet, Registered) => Some(toApplet', Registered)
      BY <1>0, <2>2, JoinHas
    <2> QED
      BY <2>3, <2>4, <2>5 DEF AppletSound
  <1> QED
    BY <1>1, <1>2

\* Steps of the daemon and of ppd the applet may hear of.
LEMMA DaemonKeepsApplet ==
    ASSUME TypeOK, DaemonSound, AppletSound, FromPpd \/ ServeApplet
    PROVE  AppletSound'
  <1>0. /\ toDaemon \in Seq(PpdMessages) /\ calls \in Seq(AppletCalls)
        /\ toApplet \in Seq(AppletMessages)
    BY DEF TypeOK
  <1>1. UNCHANGED <<installed, active>>
    BY DEF FromPpd, propertiesChanged, HoldGranted, ReleaseGranted, ProfileReleased, SetAnswered,
           ServeApplet, applet
  <1>2. CASE propertiesChanged
    <2> DEFINE p == Head(toDaemon).profile
               m == [kind |-> "currentProfileChanged", profile |-> p]
    <2>1. /\ calls' = calls /\ current' = p
          /\ IF current = p \/ ~installed THEN toApplet' = toApplet \o <<>>
             ELSE toApplet' = toApplet \o <<m>>
      BY <1>2 DEF propertiesChanged, readProperties
    <2>2. p \in Profiles
      <3>1. Head(toDaemon) \in PpdMessages /\ Head(toDaemon).kind = "properties"
        BY <1>0, <1>2, Read DEF propertiesChanged, Receives
      <3> QED
        BY <3>1, MessagesHaveFields
    <2>3. m \in Shown /\ m.profile = p /\ m \in AppletMessages
      BY <2>2, AppletTypes DEF Shown
    <2> HIDE DEF m, p
    <2>4. CASE current = p \/ ~installed
      <3>1. toApplet' = toApplet
        BY <1>0, <2>1, <2>4
      <3> QED
        BY <1>1, <2>1, <2>4, <3>1, AppletKept
    <2>5. CASE ~(current = p \/ ~installed)
      <3>1. toApplet' = Append(toApplet, m) /\ m.profile = current'
        BY <1>0, <2>1, <2>3, <2>5
      <3> QED
        BY <1>1, <2>1, <2>3, <3>1, AppletKept
    <2> QED
      BY <2>4, <2>5
  <1>3. CASE SetAnswered
    <2> DEFINE p == Head(toDaemon).profile
               m == [kind |-> "done", profile |-> p]
    <2>1. /\ calls' = calls /\ current' = current
          /\ toApplet' = toApplet \/ toApplet' = Append(toApplet, m)
      BY <1>3 DEF SetAnswered, daemon
    <2>2. p \in Profiles /\ p = current
      <3>1. /\ Head(toDaemon) \in PpdMessages /\ Head(toDaemon).kind = "set"
            /\ Head(toDaemon) = toDaemon[1] /\ 1 \in 1 .. Len(toDaemon)
        BY <1>0, <1>3, Read DEF SetAnswered, Receives
      <3>2. TellsUpTo(1 - 1, Changed, toDaemon, current, p)
        BY <3>1 DEF DaemonSound, SetDone
      <3>3. 1 .. (1 - 1) = {}
        OBVIOUS
      <3> QED
        BY <3>1, <3>2, <3>3, MessagesHaveFields DEF TellsUpTo
    <2>3. m \in Shown /\ m.profile = p /\ m \in AppletMessages
      BY <2>2, AppletTypes DEF Shown
    <2> HIDE DEF m, p
    <2> QED
      BY <1>1, <2>1, <2>2, <2>3, AppletKept
  <1>4. CASE HoldGranted \/ ReleaseGranted \/ ProfileReleased
    <2>1. UNCHANGED <<calls, toApplet, current>>
      BY <1>4 DEF HoldGranted, ReleaseGranted, ProfileReleased
    <2> QED
      BY <1>1, <2>1, AppletKept
  <1>5. CASE ServeApplet
    <2> DEFINE m == [kind |-> "currentProfileChanged", profile |-> current]
    <2>1. /\ calls # <<>> /\ calls' = Tail(calls) /\ current' = current
          /\ \/ Head(calls).op = "fetch" /\ toApplet' = Append(toApplet, m)
             \/ Head(calls).op = "set" /\ toApplet' = toApplet
      BY <1>5 DEF ServeApplet, daemon
    <2>2. m \in Shown /\ m.profile = current /\ m \in AppletMessages
      BY AppletTypes DEF Shown, TypeOK
    <2> HIDE DEF m
    <2>3. CASE Head(calls).op = "set" /\ toApplet' = toApplet
      <3>1. Head(calls) \notin Fetches
        BY <2>3 DEF Fetches
      <3>2. Some(calls, Fetches) => Some(calls', Fetches)
        BY <1>0, <2>1, <3>1, TailHas
      <3> QED
        BY <1>1, <2>1, <2>3, <3>2, AppletKept
    <2>4. CASE toApplet' = Append(toApplet, m)
      <3>1. <<m>> \in Seq(AppletMessages) /\ toApplet' = toApplet \o <<m>>
        BY <1>0, <2>2, <2>4, Appended, Single
      <3>2. Tells(Shown, toApplet', active, current')
        BY <1>0, <2>1, <2>2, <3>1, JoinTells
      <3> QED
        BY <1>1, <2>1, <2>2, <2>4, <3>2, AppletKept
    <2> QED
      BY <2>1, <2>3, <2>4
  <1> QED
    BY <1>2, <1>3, <1>4, <1>5 DEF FromPpd

\* The applet handles a message.
LEMMA AppletKeepsApplet ==
    ASSUME TypeOK, AppletSound, Applet
    PROVE  AppletSound'
  <1> DEFINE m == Head(toApplet)
  <1>0. toApplet \in Seq(AppletMessages) /\ calls \in Seq(AppletCalls)
    BY DEF TypeOK
  <1>1. toApplet # <<>> /\ toApplet' = Tail(toApplet) /\ current' = current
    BY DEF Applet, onServiceRegistered, onServiceUnregistered, AppletReceives,
           updatePowerProfileCurrentProfile, AppletSetAnswered, daemon
  <1>2. /\ m \in AppletMessages
        /\ Followed(toApplet', Unregistered, Registered)
        /\ m \in Unregistered => Some(toApplet', Registered)
        /\ Some(toApplet, Registered) <=> m \in Registered \/ Some(toApplet', Registered)
    BY <1>0, <1>1, Read, OrdersKept, TailHas DEF AppletSound
  <1>3. CASE onServiceRegistered
    <2> DEFINE f == [op |-> "fetch"]
    <2>1. f \in AppletCalls /\ f \in Fetches
      BY AppletTypes DEF Fetches
    <2>2. calls' = Append(calls, f) /\ installed' = TRUE
      BY <1>3 DEF onServiceRegistered
    <2> HIDE DEF f
    <2>3. Some(calls', Fetches)
      <3>1. <<f>> \in Seq(AppletCalls) /\ calls' = calls \o <<f>> /\ Some(<<f>>, Fetches)
        BY <1>0, <2>1, <2>2, Appended, Single, OneHas
      <3> QED
        BY <1>0, <3>1, JoinHas
    <2> QED
      BY <1>2, <2>2, <2>3 DEF AppletSound
  <1>4. CASE onServiceUnregistered
    <2>1. m \in Unregistered
      BY <1>2, <1>4 DEF onServiceUnregistered, AppletReceives, Unregistered
    <2> QED
      BY <1>2, <2>1 DEF AppletSound
  <1>5. CASE updatePowerProfileCurrentProfile \/ AppletSetAnswered
    <2>1. /\ m.kind \in {"currentProfileChanged", "done"} /\ active' = m.profile
          /\ UNCHANGED <<calls, installed>>
      BY <1>5 DEF updatePowerProfileCurrentProfile, AppletSetAnswered, AppletReceives
    <2>2. m \in Shown /\ m \notin Registered
      BY <1>2, <2>1 DEF Shown, Registered
    <2>3. Tells(Shown, toApplet, active, current) => Tells(Shown, toApplet', active', current)
      BY <1>0, <1>1, <2>1, <2>2, TailTells
    <2> QED
      BY <1>1, <1>2, <2>1, <2>2, <2>3 DEF AppletSound
  <1> QED
    BY <1>3, <1>4, <1>5 DEF Applet

\* The service goes and comes back.
LEMMA RestartKeepsApplet ==
    ASSUME TypeOK, AppletSound, Restart
    PROVE  AppletSound'
  <1> DEFINE u == [kind |-> "unregistered"]
             g == [kind |-> "registered"]
             l == Len(toApplet)
  <1>1. toApplet \in Seq(AppletMessages) /\ l \in Nat
    BY DEF TypeOK
  <1>2. g \in Registered /\ g \notin Unregistered /\ toApplet' = toApplet \o <<u, g>>
    BY AppletTypes DEF Registered, Unregistered, Restart
  <1> HIDE DEF u, g
  <1>3. /\ Len(toApplet') = l + 2 /\ toApplet'[l + 2] = g /\ l + 2 \in 1 .. l + 2
        /\ \A i \in 1 .. l + 2 : i < l + 2 \/ i = l + 2
    BY <1>1, <1>2
  <1> HIDE DEF l
  <1>4. Some(toApplet', Registered) /\ Followed(toApplet', Unregistered, Registered)
    BY <1>2, <1>3 DEF Some, Followed
  <1> QED
    BY <1>4 DEF AppletSound

LEMMA InitApplet == Init => AppletSound
  <1> SUFFICES ASSUME Init PROVE AppletSound
    OBVIOUS
  <1> DEFINE g == [kind |-> "registered"]
  <1>1. g \in Registered /\ g \notin Unregistered /\ toApplet = <<g>>
    BY AppletTypes DEF Registered, Unregistered, Init
  <1> HIDE DEF g
  <1>2. Some(toApplet, Registered) /\ ~Some(toApplet, Unregistered)
    BY <1>1, OneHas
  <1>3. Followed(toApplet, Unregistered, Registered)
    BY <1>2 DEF Followed, Some
  <1> QED
    BY <1>2, <1>3 DEF AppletSound

LEMMA NextKeepsApplet ==
    ASSUME TypeOK, DaemonSound, AppletSound, [Next]_vars
    PROVE  AppletSound'
  <1>1. CASE FromPpd \/ ServeApplet
    BY <1>1, DaemonKeepsApplet
  <1>2. CASE Applet
    BY <1>2, AppletKeepsApplet
  <1>3. CASE Restart
    BY <1>3, RestartKeepsApplet
  <1>4. ASSUME NEW p \in Profiles, AppletSetsProfile(p) PROVE AppletSound'
    <2> DEFINE m == [op |-> "set", profile |-> p]
    <2>1. m \in AppletCalls /\ calls \in Seq(AppletCalls)
      BY AppletTypes DEF TypeOK
    <2>2. calls' = Append(calls, m) /\ UNCHANGED <<toApplet, current, installed, active>>
      BY <1>4 DEF AppletSetsProfile, daemon, applet
    <2> HIDE DEF m
    <2>3. <<m>> \in Seq(AppletCalls) /\ calls' = calls \o <<m>>
      BY <2>1, <2>2, Appended, Single
    <2>4. Some(calls, Fetches) => Some(calls', Fetches)
      BY <2>1, <2>3, JoinHas
    <2> QED
      BY <2>2, <2>4, AppletKept
  <1>5. CASE \/ Ppd \/ UNCHANGED vars \/ Programs \/ \E c \in Clients : serviceUnregistered(c)
             \/ \E p \in Profiles : OthersSet(p) \/ setProfile(p)
    <2>1. UNCHANGED <<toApplet, calls, current, installed, active>>
      <3>1. CASE Ppd
        BY <3>1 DEF Ppd, PpdGetsAll, PpdHolds, PpdReleases, PpdSets, PpdAnswers, daemon, applet
      <3>2. CASE UNCHANGED vars
        BY <3>2 DEF vars, channels, daemon, applet
      <3>3. CASE Programs
        BY <3>3 DEF Programs, holdProfile, releaseProfile, Leave, channels, daemon, applet
      <3>4. CASE \E c \in Clients : serviceUnregistered(c)
        BY <3>4 DEF serviceUnregistered, applet
      <3>5. CASE \E p \in Profiles : OthersSet(p) \/ setProfile(p)
        BY <3>5 DEF OthersSet, setProfile, daemon, applet
      <3> QED
        BY <1>5, <3>1, <3>2, <3>3, <3>4, <3>5
    <2> QED
      BY <2>1, AppletKept
  <1> QED
    BY <1>1, <1>2, <1>3, <1>4, <1>5 DEF Next, Users

\* When all messages are handled, the applet shows the profile ppd is in, and
\* the daemon knows it (readProperties and setProfile in powerprofile.cpp, the
\* replies in powerprofilescontrol.cpp): whoever chose last, however many holds
\* came and went, and however often the daemon was restarted meanwhile.
THEOREM AlwaysAppletShows == Spec => []AppletShowsActual
  <1> DEFINE IInv == TypeOK /\ DaemonSound /\ AppletSound
  <1>1. Init => IInv
    BY InitTypes, FreshTold, InitApplet
  <1>2. TypeOK /\ IInv /\ [Next]_vars /\ TypeOK' => IInv'
    BY NextKeepsTold, NextKeepsApplet
  <1>3. IInv => AppletShowsActual
    <2> SUFFICES ASSUME DaemonSound, AppletSound,
                        toPpd = <<>>, toDaemon = <<>>, calls = <<>>, toApplet = <<>>
                 PROVE  installed /\ current = ActiveProfile /\ active = current
      BY DEF AppletShowsActual
    <2>1. installed /\ Tells(Shown, <<>>, active, current)
      BY NoneHas DEF AppletSound
    <2>2. Tells(Changed, <<>>, current, ActiveProfile)
      BY NoneHas DEF DaemonSound
    <2> QED
      BY <2>1, <2>2, NoneTells
  <1> QED
    BY <1>1, <1>2, <1>3, TypeCorrect, PTL DEF Spec

=============================================================================
