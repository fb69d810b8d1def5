----------------------- MODULE ManualInhibitionProofs -----------------------
(***************************************************************************)
(* Theorems about the switch and the list of the battery applet, for any   *)
(* number of events, inhibitions and restarts of the daemon, and for any   *)
(* backlog of calls and messages as they happen.                           *)
(*                                                                         *)
(* The properties say what the applet shows once everything has been       *)
(* read.  The invariant says what is under way until then: that the last   *)
(* message of a kind, or the call that will be answered with one, brings   *)
(* what the applet lacks.  Without, Ends and Once say this of a sequence,  *)
(* and a lemma each says what becomes of them as a message is added at     *)
(* its end or read from its front.  The rest goes part by part: the types, *)
(* the daemon's names, HasInhibit, the list, and the switch.               *)
(***************************************************************************)
EXTENDS ManualInhibition, TLAPS

\* There is no message of these kinds.
Without(s, kinds) == \A i \in 1 .. Len(s) : s[i].what \notin kinds

\* There are messages of these kinds, and the last one is right.
Ends(s, kinds, right) ==
    \E i \in 1 .. Len(s) : /\ s[i].what \in kinds /\ s[i] \in right
                           /\ \A j \in 1 .. Len(s) : j > i => s[j].what \notin kinds

\* One message of these kinds is in s, and it is m.
Once(s, kinds, m) ==
    \E i \in 1 .. Len(s) : s[i] = m /\ \A j \in 1 .. Len(s) : j # i => s[j].what \notin kinds

LEMMA AppendIsConcat ==
    ASSUME NEW M, NEW s \in Seq(M), NEW m \in M
    PROVE  Append(s, m) = s \o <<m>>
OBVIOUS

LEMMA ConcatTyped ==
    ASSUME NEW M, NEW s \in Seq(M), NEW t \in Seq(M)
    PROVE  s \o t \in Seq(M)
OBVIOUS

LEMMA AppendTyped ==
    ASSUME NEW M, NEW s \in Seq(M), NEW m \in M
    PROVE  Append(s, m) \in Seq(M) /\ <<m>> \in Seq(M)
OBVIOUS

LEMMA WithoutShort ==
    ASSUME NEW kinds, NEW m
    PROVE  Without(<<>>, kinds) /\ (Without(<<m>>, kinds) <=> m.what \notin kinds)
BY DEF Without

LEMMA EndsShort ==
    ASSUME NEW kinds, NEW right, NEW m, m.what \in kinds, m \in right
    PROVE  Ends(<<m>>, kinds, right)
BY DEF Ends

LEMMA WithoutConcat ==
    ASSUME NEW M, NEW s \in Seq(M), NEW t \in Seq(M), NEW kinds
    PROVE  Without(s \o t, kinds) <=> Without(s, kinds) /\ Without(t, kinds)
<1>1. ASSUME Without(s \o t, kinds) PROVE Without(s, kinds) /\ Without(t, kinds)
  <2>1. ASSUME NEW i \in 1 .. Len(s) PROVE s[i].what \notin kinds
    <3>1. i \in 1 .. Len(s \o t) /\ (s \o t)[i] = s[i]
      OBVIOUS
    <3> QED BY <1>1, <3>1 DEF Without
  <2>2. ASSUME NEW i \in 1 .. Len(t) PROVE t[i].what \notin kinds
    <3>1. i + Len(s) \in 1 .. Len(s \o t) /\ (s \o t)[i + Len(s)] = t[i]
      OBVIOUS
    <3> QED BY <1>1, <3>1 DEF Without
  <2> QED BY <2>1, <2>2 DEF Without
<1>2. ASSUME Without(s, kinds), Without(t, kinds) PROVE Without(s \o t, kinds)
  <2>1. ASSUME NEW i \in 1 .. Len(s \o t) PROVE (s \o t)[i].what \notin kinds
    <3>1. CASE i <= Len(s)
      <4>1. i \in 1 .. Len(s) /\ (s \o t)[i] = s[i]
        BY <3>1
      <4> QED BY <1>2, <4>1 DEF Without
    <3>2. CASE i > Len(s)
      <4>1. i - Len(s) \in 1 .. Len(t) /\ (s \o t)[i] = t[i - Len(s)]
        BY <3>2
      <4> QED BY <1>2, <4>1 DEF Without
    <3> QED BY <3>1, <3>2
  <2> QED BY <2>1 DEF Without
<1> QED BY <1>1, <1>2

LEMMA WithoutTail ==
    ASSUME NEW M, NEW s \in Seq(M), s # <<>>, NEW kinds
    PROVE  Without(s, kinds) <=> s[1].what \notin kinds /\ Without(Tail(s), kinds)
<1>0. Len(Tail(s)) = Len(s) - 1 /\ Len(s) \in Nat /\ Len(s) > 0
  OBVIOUS
<1>1. \A i \in 1 .. Len(Tail(s)) : Tail(s)[i] = s[i + 1] /\ i + 1 \in 1 .. Len(s)
  OBVIOUS
<1>2. ASSUME Without(s, kinds) PROVE s[1].what \notin kinds /\ Without(Tail(s), kinds)
  BY <1>0, <1>1, <1>2 DEF Without
<1>3. ASSUME s[1].what \notin kinds, Without(Tail(s), kinds) PROVE Without(s, kinds)
  <2>1. ASSUME NEW i \in 1 .. Len(s), i # 1 PROVE s[i].what \notin kinds
    <3>1. i - 1 \in 1 .. Len(Tail(s)) /\ Tail(s)[i - 1] = s[i]
      BY <1>0, <2>1
    <3> QED BY <1>3, <3>1 DEF Without
  <2> QED BY <2>1, <1>3 DEF Without
<1> QED BY <1>2, <1>3

LEMMA EndsConcat ==
    ASSUME NEW M, NEW s \in Seq(M), NEW t \in Seq(M), NEW kinds, NEW right
    PROVE  /\ Ends(t, kinds, right) => Ends(s \o t, kinds, right)
           /\ Ends(s, kinds, right) /\ Without(t, kinds) => Ends(s \o t, kinds, right)
<1> DEFINE u == s \o t
<1>0. /\ u \in Seq(M) /\ Len(u) = Len(s) + Len(t) /\ Len(s) \in Nat /\ Len(t) \in Nat
      /\ \A i \in 1 .. Len(s) : i \in 1 .. Len(u) /\ u[i] = s[i]
      /\ \A i \in 1 .. Len(t) : i + Len(s) \in 1 .. Len(u) /\ u[i + Len(s)] = t[i]
      /\ \A i \in 1 .. Len(u) : i > Len(s) => i - Len(s) \in 1 .. Len(t) /\ u[i] = t[i - Len(s)]
      /\ \A i \in 1 .. Len(u) : ~(i > Len(s)) => i \in 1 .. Len(s)
  OBVIOUS
<1> HIDE DEF u
<1>1. ASSUME NEW i \in 1 .. Len(t), t[i].what \in kinds, t[i] \in right,
             \A j \in 1 .. Len(t) : j > i => t[j].what \notin kinds
      PROVE  Ends(u, kinds, right)
  <2>1. i + Len(s) \in 1 .. Len(u) /\ u[i + Len(s)] = t[i]
    BY <1>0
  <2>2. \A j \in 1 .. Len(u) : j > i + Len(s) => u[j].what \notin kinds
    <3> SUFFICES ASSUME NEW j \in 1 .. Len(u), j > i + Len(s) PROVE u[j].what \notin kinds
      OBVIOUS
    <3>1. j - Len(s) \in 1 .. Len(t) /\ u[j] = t[j - Len(s)] /\ j - Len(s) > i
      BY <1>0
    <3> QED BY <3>1, <1>1
  <2> QED BY <2>1, <2>2, <1>1 DEF Ends
<1>2. ASSUME Without(t, kinds), NEW i \in 1 .. Len(s), s[i].what \in kinds, s[i] \in right,
             \A j \in 1 .. Len(s) : j > i => s[j].what \notin kinds
      PROVE  Ends(u, kinds, right)
  <2>1. i \in 1 .. Len(u) /\ u[i] = s[i]
    BY <1>0
  <2>2. \A j \in 1 .. Len(u) : j > i => u[j].what \notin kinds
    <3> SUFFICES ASSUME NEW j \in 1 .. Len(u), j > i PROVE u[j].what \notin kinds
      OBVIOUS
    <3>1. CASE j > Len(s)
      BY <3>1, <1>0, <1>2 DEF Without
    <3>2. CASE ~(j > Len(s))
      BY <3>2, <1>0, <1>2
    <3> QED BY <3>1, <3>2
  <2> QED BY <2>1, <2>2, <1>2 DEF Ends
<1>3. Ends(t, kinds, right) => Ends(u, kinds, right)
  BY <1>1 DEF Ends
<1>4. Ends(s, kinds, right) /\ Without(t, kinds) => Ends(u, kinds, right)
  BY <1>2 DEF Ends
<1> QED BY <1>3, <1>4 DEF u

LEMMA EndsIsThere ==
    ASSUME NEW s, NEW kinds, NEW right, Ends(s, kinds, right)
    PROVE  ~Without(s, kinds)
BY DEF Ends, Without

LEMMA OnceIsThere ==
    ASSUME NEW s, NEW kinds, NEW m, Once(s, kinds, m), m.what \in kinds
    PROVE  ~Without(s, kinds)
BY DEF Once, Without

LEMMA OnceConcat ==
    ASSUME NEW M, NEW s \in Seq(M), NEW t \in Seq(M), NEW kinds, NEW m
    PROVE  /\ Once(s, kinds, m) /\ Without(t, kinds) => Once(s \o t, kinds, m)
           /\ Without(s, kinds) /\ Once(t, kinds, m) => Once(s \o t, kinds, m)
<1> DEFINE u == s \o t
<1>0. /\ u \in Seq(M) /\ Len(u) = Len(s) + Len(t) /\ Len(s) \in Nat /\ Len(t) \in Nat
      /\ \A i \in 1 .. Len(s) : i \in 1 .. Len(u) /\ u[i] = s[i]
      /\ \A i \in 1 .. Len(t) : i + Len(s) \in 1 .. Len(u) /\ u[i + Len(s)] = t[i]
      /\ \A i \in 1 .. Len(u) : i > Len(s) => i - Len(s) \in 1 .. Len(t) /\ u[i] = t[i - Len(s)]
      /\ \A i \in 1 .. Len(u) : ~(i > Len(s)) => i \in 1 .. Len(s)
  OBVIOUS
<1> HIDE DEF u
<1>1. ASSUME Once(s, kinds, m), Without(t, kinds) PROVE Once(u, kinds, m)
  <2> PICK i \in 1 .. Len(s) :
          s[i] = m /\ \A j \in 1 .. Len(s) : j # i => s[j].what \notin kinds
    BY <1>1 DEF Once
  <2>1. i \in 1 .. Len(u) /\ u[i] = m
    BY <1>0
  <2>2. ASSUME NEW j \in 1 .. Len(u), j # i PROVE u[j].what \notin kinds
    <3>1. CASE j > Len(s)
      BY <3>1, <1>0, <1>1 DEF Without
    <3>2. CASE ~(j > Len(s))
      BY <3>2, <1>0, <2>2
    <3> QED BY <3>1, <3>2
  <2> QED BY <2>1, <2>2 DEF Once
<1>2. ASSUME Without(s, kinds), Once(t, kinds, m) PROVE Once(u, kinds, m)
  <2> PICK i \in 1 .. Len(t) :
          t[i] = m /\ \A j \in 1 .. Len(t) : j # i => t[j].what \notin kinds
    BY <1>2 DEF Once
  <2>1. i + Len(s) \in 1 .. Len(u) /\ u[i + Len(s)] = m
    BY <1>0
  <2>2. ASSUME NEW j \in 1 .. Len(u), j # i + Len(s) PROVE u[j].what \notin kinds
    <3>1. CASE j > Len(s)
      <4>1. j - Len(s) \in 1 .. Len(t) /\ u[j] = t[j - Len(s)] /\ j - Len(s) # i
        BY <3>1, <1>0, <2>2
      <4> QED BY <4>1
    <3>2. CASE ~(j > Len(s))
      BY <3>2, <1>0, <1>2 DEF Without
    <3> QED BY <3>1, <3>2
  <2> QED BY <2>1, <2>2 DEF Once
<1> QED BY <1>1, <1>2 DEF u

LEMMA OnceTail ==
    ASSUME NEW M, NEW s \in Seq(M), s # <<>>, NEW kinds, NEW m, m.what \in kinds,
           Once(s, kinds, m)
    PROVE  IF s[1].what \in kinds THEN s[1] = m /\ Without(Tail(s), kinds)
           ELSE Once(Tail(s), kinds, m)
<1>0. /\ Len(Tail(s)) = Len(s) - 1 /\ Len(s) \in Nat /\ Len(s) > 0
      /\ \A i \in 1 .. Len(Tail(s)) : Tail(s)[i] = s[i + 1] /\ i + 1 \in 1 .. Len(s)
      /\ \A i \in 1 .. Len(s) : i # 1 => i - 1 \in 1 .. Len(Tail(s)) /\ Tail(s)[i - 1] = s[i]
  OBVIOUS
<1> PICK i \in 1 .. Len(s) :
        s[i] = m /\ \A j \in 1 .. Len(s) : j # i => s[j].what \notin kinds
  BY DEF Once
<1>1. CASE i = 1
  BY <1>1, <1>0 DEF Without
<1>2. CASE i # 1
  <2>1. i - 1 \in 1 .. Len(Tail(s)) /\ Tail(s)[i - 1] = m
    BY <1>2, <1>0
  <2>2. ASSUME NEW j \in 1 .. Len(Tail(s)), j # i - 1 PROVE Tail(s)[j].what \notin kinds
    <3>1. Tail(s)[j] = s[j + 1] /\ j + 1 \in 1 .. Len(s) /\ j + 1 # i
      BY <1>0, <2>2
    <3> QED BY <3>1
  <2>3. Once(Tail(s), kinds, m)
    BY <2>1, <2>2 DEF Once
  <2>4. s[1].what \notin kinds
    BY <1>0, <1>2
  <2> QED BY <2>3, <2>4
<1> QED BY <1>1, <1>2

LEMMA EndsTail ==
    ASSUME NEW M, NEW s \in Seq(M), s # <<>>, NEW kinds, NEW right, Ends(s, kinds, right)
    PROVE  \/ s[1].what \in kinds /\ s[1] \in right /\ Without(Tail(s), kinds)
           \/ Ends(Tail(s), kinds, right)
<1>0. /\ Len(Tail(s)) = Len(s) - 1 /\ Len(s) \in Nat /\ Len(s) > 0
      /\ \A i \in 1 .. Len(Tail(s)) : Tail(s)[i] = s[i + 1] /\ i + 1 \in 1 .. Len(s)
      /\ \A i \in 1 .. Len(s) : i # 1 => i - 1 \in 1 .. Len(Tail(s)) /\ Tail(s)[i - 1] = s[i]
  OBVIOUS
<1> PICK i \in 1 .. Len(s) : /\ s[i].what \in kinds /\ s[i] \in right
                             /\ \A j \in 1 .. Len(s) : j > i => s[j].what \notin kinds
  BY DEF Ends
<1>1. CASE i = 1
  <2>1. Without(Tail(s), kinds)
    BY <1>1, <1>0 DEF Without
  <2> QED BY <1>1, <2>1
<1>2. CASE i # 1
  <2>1. i - 1 \in 1 .. Len(Tail(s)) /\ Tail(s)[i - 1] = s[i]
    BY <1>2, <1>0
  <2>2. ASSUME NEW j \in 1 .. Len(Tail(s)), j > i - 1 PROVE Tail(s)[j].what \notin kinds
    <3>1. Tail(s)[j] = s[j + 1] /\ j + 1 \in 1 .. Len(s) /\ j + 1 > i
      BY <1>0, <2>2
    <3> QED BY <3>1
  <2> QED BY <2>1, <2>2 DEF Ends
<1> QED BY <1>1, <1>2

-----------------------------------------------------------------------------
(* Types                                                                   *)

Names == {"Registered", "Unregistered"}
HasKinds == {"HasInhibitChanged", "HasInhibit"}
Asks == {"Inhibit", "UnInhibit"}
Answers == {"Cookie", "Released"}

Entry == [cookie : Nat, who : {"application", "plasmashell"}]
Row == [cookie : Nat, active : BOOLEAN]

CallType == [what : {"Get", "HasInhibit", "Inhibit"}]
               \union [what : {"UnInhibit"}, cookie : Nat]
               \union [what : {"SetInhibitionAllowed"}, allowed : BOOLEAN]

MessageType == [what : Names \union {"PropertiesChanged", "Released", "Error"}]
                  \union [what : HasKinds, value : BOOLEAN]
                  \union [what : {"Inhibitions"}, list : SUBSET Row]
                  \union [what : {"Cookie"}, cookie : Nat]

LockCallType == [what : {"Inhibit"}] \union [what : {"UnInhibit"}, cookie : Nat]

ManualTypeOK ==
    /\ running \in BOOLEAN /\ exported \in BOOLEAN /\ registered \in BOOLEAN
    /\ blocked \in BOOLEAN /\ missed \in BOOLEAN /\ doubtful \in BOOLEAN
    /\ hasInhibition \in BOOLEAN /\ isManuallyInhibited \in BOOLEAN
    /\ lastCookie \in Nat /\ lastLock \in Nat /\ events \in Nat
    /\ sleepInhibitionCookie \in Nat /\ lockInhibitionCookie \in Nat
    /\ pending \in SUBSET Entry /\ requested \in SUBSET Entry /\ locks \in SUBSET Nat
    /\ calls \in Seq(CallType) /\ messages \in Seq(MessageType) /\ lockCalls \in Seq(LockCallType)
    /\ requestedInhibitions \in SUBSET Row

LEMMA MessageParts ==
    ASSUME NEW m \in MessageType
    PROVE  /\ m.what \in Names \union {"PropertiesChanged", "Released", "Error", "Inhibitions",
                                       "Cookie"} \union HasKinds
           /\ m.what \in HasKinds => m.value \in BOOLEAN
           /\ m.what = "Inhibitions" => m.list \in SUBSET Row
           /\ m.what = "Cookie" => m.cookie \in Nat /\ m = [what |-> "Cookie", cookie |-> m.cookie]
           /\ m.what = "Released" => m = [what |-> "Released"]
BY DEF MessageType, Names, HasKinds

LEMMA CallParts ==
    ASSUME NEW c \in CallType
    PROVE  /\ c.what \in {"Get", "HasInhibit", "Inhibit", "UnInhibit", "SetInhibitionAllowed"}
           /\ c.what = "UnInhibit" => c.cookie \in Nat
           /\ c.what = "SetInhibitionAllowed" => c.allowed \in BOOLEAN
BY DEF CallType

LEMMA Members ==
    /\ [what |-> "Registered"] \in MessageType /\ [what |-> "Unregistered"] \in MessageType
    /\ [what |-> "PropertiesChanged"] \in MessageType /\ [what |-> "Released"] \in MessageType
    /\ [what |-> "Error"] \in MessageType
    /\ \A v \in BOOLEAN : /\ [what |-> "HasInhibitChanged", value |-> v] \in MessageType
                          /\ [what |-> "HasInhibit", value |-> v] \in MessageType
    /\ \A l \in SUBSET Row : [what |-> "Inhibitions", list |-> l] \in MessageType
    /\ \A c \in Nat : [what |-> "Cookie", cookie |-> c] \in MessageType
    /\ [what |-> "Get"] \in CallType /\ [what |-> "HasInhibit"] \in CallType
    /\ [what |-> "Inhibit"] \in CallType
    /\ \A c \in Nat : [what |-> "UnInhibit", cookie |-> c] \in CallType
    /\ \A a \in BOOLEAN : [what |-> "SetInhibitionAllowed", allowed |-> a] \in CallType
BY DEF MessageType, CallType, Names, HasKinds

Errors(n) == [call \in 1 .. n |-> [what |-> "Error"]]

LEMMA ErrorsOnly ==
    ASSUME NEW n \in Nat
    PROVE  /\ Errors(n) \in Seq(MessageType)
           /\ \A kinds : "Error" \notin kinds => Without(Errors(n), kinds)
<1>1. Errors(n) \in Seq(MessageType)
  <2>1. Errors(n) \in [1 .. n -> MessageType]
    BY Members DEF Errors
  <2> QED BY <2>1
<1>2. Len(Errors(n)) = n
  BY DEF Errors
<1>3. \A i \in 1 .. n : Errors(n)[i].what = "Error"
  BY DEF Errors
<1> QED BY <1>1, <1>2, <1>3 DEF Without

\* What the agent signals.
LEMMA SignalsTell ==
    ASSUME Active' \in SUBSET Entry
    PROVE  /\ Sent(Signals) \in Seq(MessageType)
           /\ Without(Sent(Signals), Names) /\ Without(Sent(Signals), {"Inhibitions"})
           /\ Without(Sent(Signals), Answers)
           /\ registered /\ (requested' # requested \/ Active' # Active)
                => ~Without(Sent(Signals), {"PropertiesChanged"})
           /\ registered /\ ~((Active = {}) <=> (Active' = {}))
                => Ends(Sent(Signals), HasKinds, [what : HasKinds, value : {Active' # {}}])
           /\ ((Active = {}) <=> (Active' = {})) => Without(Sent(Signals), HasKinds)
<1> DEFINE v == Active' # {}
           pc == [what |-> "PropertiesChanged"]
           hc == [what |-> "HasInhibitChanged", value |-> v]
           a == requested' # requested \/ Active' # Active
           b == ~((Active = {}) <=> (Active' = {}))
           p == IF a THEN <<pc>> ELSE <<>>
           q == IF b THEN <<hc>> ELSE <<>>
           right == [what : HasKinds, value : {v}]
<1>0. v \in BOOLEAN /\ a \in BOOLEAN /\ b \in BOOLEAN
  OBVIOUS
<1>1. Sent(Signals) = IF registered THEN p \o q ELSE <<>>
  <2>1. ((Active = {}) # (Active' = {})) <=> b
    OBVIOUS
  <2> QED BY <2>1 DEF Sent, Signals
<1> HIDE DEF v, a, b
<1>2. /\ pc \in MessageType /\ hc \in MessageType /\ hc \in right /\ hc.what \in HasKinds
      /\ pc.what = "PropertiesChanged" /\ hc.what = "HasInhibitChanged"
  BY <1>0, Members DEF HasKinds
<1> HIDE DEF pc, hc, right
<1>3. p \in Seq(MessageType) /\ q \in Seq(MessageType)
  BY <1>2
<1>4. /\ Without(p, Names) /\ Without(p, {"Inhibitions"}) /\ Without(p, Answers)
      /\ Without(p, HasKinds) /\ (a => ~Without(p, {"PropertiesChanged"}))
  BY <1>2, WithoutShort DEF Names, Answers, HasKinds
<1>5. /\ Without(q, Names) /\ Without(q, {"Inhibitions"}) /\ Without(q, Answers)
      /\ (~b => Without(q, HasKinds))
  BY <1>2, WithoutShort DEF Names, Answers, HasKinds
<1>6. b => Ends(q, HasKinds, right)
  BY <1>2, EndsShort
<1>7. Without(<<>>, Names) /\ Without(<<>>, {"Inhibitions"}) /\ Without(<<>>, Answers)
      /\ Without(<<>>, HasKinds) /\ <<>> \in Seq(MessageType)
  BY DEF Without
<1> HIDE DEF p, q
<1>8. p \o q \in Seq(MessageType)
  BY <1>3
<1>9. /\ Without(p \o q, Names) /\ Without(p \o q, {"Inhibitions"}) /\ Without(p \o q, Answers)
      /\ (a => ~Without(p \o q, {"PropertiesChanged"})) /\ (~b => Without(p \o q, HasKinds))
  BY <1>3, <1>4, <1>5, WithoutConcat
<1>10. b => Ends(p \o q, HasKinds, right)
  BY <1>3, <1>6, EndsConcat
<1>11. /\ Sent(Signals) \in Seq(MessageType)
       /\ Without(Sent(Signals), Names) /\ Without(Sent(Signals), {"Inhibitions"})
       /\ Without(Sent(Signals), Answers)
       /\ registered /\ a => ~Without(Sent(Signals), {"PropertiesChanged"})
       /\ registered /\ b => Ends(Sent(Signals), HasKinds, right)
       /\ ~b => Without(Sent(Signals), HasKinds)
  BY <1>1, <1>7, <1>8, <1>9, <1>10
<1> QED BY <1>11 DEF a, b, right, v

LEMMA ActiveTyped ==
    /\ requested \in SUBSET Entry => Active \in SUBSET Entry /\ Listed \in SUBSET Row
    /\ requested' \in SUBSET Entry => Active' \in SUBSET Entry
<1>1. ASSUME requested \in SUBSET Entry
      PROVE  Active \in SUBSET Entry /\ Listed \in SUBSET Row
  <2>1. Active \in SUBSET Entry
    BY <1>1 DEF Active
  <2>2. \A i \in requested : i.cookie \in Nat
    BY <1>1 DEF Entry
  <2>3. \A i : (i \in Active) \in BOOLEAN
    OBVIOUS
  <2>4. \A i \in requested : [cookie |-> i.cookie, active |-> i \in Active] \in Row
    <3> TAKE i \in requested
    <3> DEFINE a == i \in Active
    <3>1. a \in BOOLEAN /\ i.cookie \in Nat
      BY <2>2
    <3> HIDE DEF a
    <3>2. [cookie |-> i.cookie, active |-> a] \in Row
      BY <3>1 DEF Row
    <3> QED BY <3>2 DEF a
  <2>5. Listed \in SUBSET Row
    BY <2>4 DEF Listed
  <2> QED BY <2>1, <2>5
<1>2. ASSUME requested' \in SUBSET Entry PROVE Active' \in SUBSET Entry
  BY <1>2 DEF Active
<1> QED BY <1>1, <1>2

\* What onServiceRegistered and the others ask, and what nobody answers.
LEMMA CallTyped ==
    ASSUME ManualTypeOK, NEW asked \in Seq(CallType), Call(asked)
    PROVE  /\ calls' \in Seq(CallType) /\ messages' \in Seq(MessageType)
           /\ running => calls' = calls \o asked /\ messages' = messages
           /\ ~running => calls' = calls /\ messages' = messages \o Errors(Len(asked))
<1>0. calls \in Seq(CallType) /\ messages \in Seq(MessageType)
  BY DEF ManualTypeOK
<1>1. CASE running
  <2>1. calls \o asked \in Seq(CallType)
    BY <1>0, ConcatTyped
  <2> QED BY <1>0, <1>1, <2>1 DEF Call
<1>2. CASE ~running
  <2>1. messages' = messages \o Errors(Len(asked)) /\ calls' = calls
    BY <1>2 DEF Call, Errors
  <2>2. messages \o Errors(Len(asked)) \in Seq(MessageType)
    BY <1>0, ErrorsOnly, ConcatTyped
  <2> QED BY <1>0, <1>2, <2>1, <2>2
<1> QED BY <1>1, <1>2

LEMMA HeadTyped ==
    ASSUME ManualTypeOK
    PROVE  /\ messages # <<>> => messages[1] \in MessageType /\ Tail(messages) \in Seq(MessageType)
           /\ calls # <<>> => calls[1] \in CallType /\ Tail(calls) \in Seq(CallType)
           /\ lockCalls # <<>> => /\ lockCalls[1] \in LockCallType
                                  /\ Tail(lockCalls) \in Seq(LockCallType)
BY DEF ManualTypeOK

LEMMA ReleaseTyped ==
    ASSUME ManualTypeOK, NEW cookies, Release(cookies)
    PROVE  pending' \in SUBSET Entry /\ requested' \in SUBSET Entry /\ lastCookie' \in Nat
           /\ blocked' \in BOOLEAN
BY DEF ManualTypeOK, Release

LEMMA ScheduleTyped ==
    ASSUME ManualTypeOK, NEW who \in {"application", "plasmashell"}, Schedule(who)
    PROVE  pending' \in SUBSET Entry /\ requested' \in SUBSET Entry /\ lastCookie' \in Nat
           /\ blocked' \in BOOLEAN
BY DEF ManualTypeOK, Schedule, Inhibition, Entry

LEMMA AnswerTyped ==
    ASSUME ManualTypeOK, NEW call \in CallType, lastCookie' \in Nat
    PROVE  Answer(call) \in Seq(MessageType)
<1>1. CASE call.what = "Inhibit"
  BY <1>1, Members DEF Answer
<1>2. CASE call.what = "UnInhibit"
  BY <1>2, Members DEF Answer
<1>3. CASE call.what = "HasInhibit"
  <2> DEFINE v == Active # {}
  <2>1. v \in BOOLEAN /\ Answer(call) = <<[what |-> "HasInhibit", value |-> v]>>
    BY <1>3 DEF Answer
  <2> HIDE DEF v
  <2>2. [what |-> "HasInhibit", value |-> v] \in MessageType
    BY <2>1, Members
  <2>3. <<[what |-> "HasInhibit", value |-> v]>> \in Seq(MessageType)
    BY <2>2, AppendTyped
  <2> QED BY <2>1, <2>3
<1>4. CASE call.what = "Get"
  <2>1. [what |-> "Inhibitions", list |-> Listed] \in MessageType
    BY ActiveTyped, Members DEF ManualTypeOK
  <2>2. <<[what |-> "Inhibitions", list |-> Listed]>> \in Seq(MessageType)
        /\ <<[what |-> "Error"]>> \in Seq(MessageType)
    BY <2>1, Members, AppendTyped
  <2>3. Answer(call) \in {<<[what |-> "Inhibitions", list |-> Listed]>>, <<[what |-> "Error"]>>}
    BY <1>4 DEF Answer
  <2> QED BY <2>2, <2>3
<1>5. CASE call.what = "SetInhibitionAllowed"
  BY <1>5 DEF Answer
<1> QED BY <1>1, <1>2, <1>3, <1>4, <1>5, CallParts

LEMMA InitTyped == Init => ManualTypeOK
<1>1. <<[what |-> "Registered"]>> \in Seq(MessageType)
  BY Members
<1>2. <<>> \in Seq(CallType) /\ <<>> \in Seq(LockCallType)
  OBVIOUS
<1>3. ASSUME Init
      PROVE  /\ calls \in Seq(CallType) /\ messages \in Seq(MessageType)
             /\ lockCalls \in Seq(LockCallType)
  BY <1>1, <1>2, <1>3 DEF Init
<1>4. ASSUME Init
      PROVE  /\ running \in BOOLEAN /\ exported \in BOOLEAN /\ registered \in BOOLEAN
             /\ blocked \in BOOLEAN /\ missed \in BOOLEAN /\ doubtful \in BOOLEAN
             /\ hasInhibition \in BOOLEAN /\ isManuallyInhibited \in BOOLEAN
             /\ lastCookie \in Nat /\ lastLock \in Nat /\ events \in Nat
             /\ sleepInhibitionCookie \in Nat /\ lockInhibitionCookie \in Nat
             /\ pending = {} /\ requested = {} /\ locks = {} /\ requestedInhibitions = {}
  BY <1>4 DEF Init, NoCookie
<1> QED BY <1>3, <1>4 DEF ManualTypeOK

LEMMA EnforceTyped ==
    ASSUME ManualTypeOK, NEW inhibition \in pending, Enforce(inhibition)
    PROVE  ManualTypeOK'
<1>1. pending' \in SUBSET Entry /\ requested' \in SUBSET Entry
  BY DEF Enforce, ManualTypeOK
<1>2. Sent(Signals) \in Seq(MessageType)
  BY <1>1, ActiveTyped, SignalsTell
<1>3. messages' \in Seq(MessageType)
  BY <1>2 DEF Enforce, ManualTypeOK
<1> QED BY <1>1, <1>3 DEF Enforce, ManualTypeOK, bystanders, saver, monitor, control

LEMMA ApplicationTyped == ASSUME ManualTypeOK, Application PROVE ManualTypeOK'
<1>1. /\ pending' \in SUBSET Entry /\ requested' \in SUBSET Entry /\ lastCookie' \in Nat
      /\ blocked' \in BOOLEAN
  <2>1. CASE Schedule("application")
    BY <2>1, ScheduleTyped
  <2>2. CASE Release(Cookies("application"))
    BY <2>2, ReleaseTyped
  <2> QED BY <2>1, <2>2 DEF Application
<1>2. Sent(Signals) \in Seq(MessageType)
  BY <1>1, ActiveTyped, SignalsTell
<1>3. messages' \in Seq(MessageType)
  BY <1>2 DEF Application, ManualTypeOK
<1> QED BY <1>1, <1>3 DEF Application, ManualTypeOK, Happens, bystanders, saver, monitor, control

LEMMA ForceUnInhibitAllTyped == ASSUME ManualTypeOK, ForceUnInhibitAll PROVE ManualTypeOK'
<1>1. /\ pending' \in SUBSET Entry /\ requested' \in SUBSET Entry /\ lastCookie' \in Nat
      /\ blocked' \in BOOLEAN
  BY ReleaseTyped DEF ForceUnInhibitAll
<1>2. Sent(Signals) \in Seq(MessageType)
  BY <1>1, ActiveTyped, SignalsTell
<1>3. messages' \in Seq(MessageType)
  BY <1>2 DEF ForceUnInhibitAll, ManualTypeOK
<1>4. doubtful' \in BOOLEAN
  BY DEF ForceUnInhibitAll, ManualTypeOK
<1> QED BY <1>1, <1>3, <1>4
        DEF ForceUnInhibitAll, ManualTypeOK, Happens, bystanders, saver, monitor, control

\* What serving a call leaves: the four kinds, and what they do to the list.
LEMMA ServeParts ==
    ASSUME ManualTypeOK, Serve
    PROVE  /\ calls # <<>> /\ calls' = Tail(calls) /\ calls[1] \in CallType
           /\ \/ calls[1].what = "Inhibit" /\ Schedule("plasmashell")
              \/ calls[1].what = "UnInhibit" /\ Release({calls[1].cookie})
              \/ /\ calls[1].what = "SetInhibitionAllowed" /\ blocked' = ~calls[1].allowed
                 /\ UNCHANGED <<lastCookie, pending, requested>>
              \/ calls[1].what \in {"Get", "HasInhibit"} /\ UNCHANGED agent
           /\ messages' = (messages \o Sent(Signals)) \o Answer(calls[1])
           /\ missed' = IF calls[1].what = "Get" THEN ~exported ELSE missed
           /\ UNCHANGED <<running, exported, saver, lockCalls, monitor, control, doubtful, events>>
           /\ pending' \in SUBSET Entry /\ requested' \in SUBSET Entry /\ lastCookie' \in Nat
           /\ blocked' \in BOOLEAN
<1>1. /\ calls # <<>> /\ calls' = Tail(calls) /\ calls[1] \in CallType
  BY HeadTyped DEF Serve
<1>2. /\ \/ calls[1].what = "Inhibit" /\ Schedule("plasmashell")
         \/ calls[1].what = "UnInhibit" /\ Release({calls[1].cookie})
         \/ /\ calls[1].what = "SetInhibitionAllowed" /\ blocked' = ~calls[1].allowed
            /\ UNCHANGED <<lastCookie, pending, requested>>
         \/ calls[1].what \in {"Get", "HasInhibit"} /\ UNCHANGED agent
  BY DEF Serve
<1>3. /\ pending' \in SUBSET Entry /\ requested' \in SUBSET Entry /\ lastCookie' \in Nat
      /\ blocked' \in BOOLEAN
  <2>1. CASE Schedule("plasmashell")
    BY <2>1, ScheduleTyped
  <2>2. CASE Release({calls[1].cookie})
    BY <2>2, ReleaseTyped
  <2>3. CASE calls[1].what = "SetInhibitionAllowed" /\ blocked' = ~calls[1].allowed
             /\ UNCHANGED <<lastCookie, pending, requested>>
    BY <2>3, <1>1, CallParts DEF ManualTypeOK
  <2>4. CASE UNCHANGED agent
    BY <2>4 DEF ManualTypeOK, agent
  <2> QED BY <1>2, <2>1, <2>2, <2>3, <2>4
<1>4. messages' = (messages \o Sent(Signals)) \o Answer(calls[1])
      /\ missed' = IF calls[1].what = "Get" THEN ~exported ELSE missed
  BY DEF Serve
<1>5. UNCHANGED <<running, exported, saver, lockCalls, monitor, control, doubtful, events>>
  BY DEF Serve
<1> QED BY <1>1, <1>2, <1>3, <1>4, <1>5

LEMMA ServeTyped == ASSUME ManualTypeOK, Serve PROVE ManualTypeOK'
<1>1. /\ pending' \in SUBSET Entry /\ requested' \in SUBSET Entry /\ lastCookie' \in Nat
      /\ blocked' \in BOOLEAN /\ calls # <<>> /\ calls' = Tail(calls) /\ calls[1] \in CallType
      /\ messages' = (messages \o Sent(Signals)) \o Answer(calls[1])
      /\ missed' = IF calls[1].what = "Get" THEN ~exported ELSE missed
      /\ UNCHANGED <<running, exported, saver, lockCalls, monitor, control, doubtful, events>>
  BY ServeParts
<1>2. Sent(Signals) \in Seq(MessageType)
  BY <1>1, ActiveTyped, SignalsTell
<1>3. Answer(calls[1]) \in Seq(MessageType)
  BY <1>1, AnswerTyped
<1>4. messages' \in Seq(MessageType)
  BY <1>1, <1>2, <1>3 DEF ManualTypeOK
<1>5. calls' \in Seq(CallType)
  BY <1>1, HeadTyped
<1>6. missed' \in BOOLEAN
  BY <1>1 DEF ManualTypeOK
<1> QED BY <1>1, <1>4, <1>5, <1>6 DEF ManualTypeOK, saver, monitor, control

LEMMA DaemonEndsTyped == ASSUME ManualTypeOK, DaemonEnds PROVE ManualTypeOK'
<1>1. /\ messages' = (messages \o <<[what |-> "Unregistered"]>>) \o Errors(Len(calls))
      /\ Errors(Len(calls)) \in Seq(MessageType)
      /\ <<[what |-> "Unregistered"]>> \in Seq(MessageType)
  <2>1. Len(calls) \in Nat
    BY DEF ManualTypeOK
  <2> QED BY <2>1, ErrorsOnly, Members DEF DaemonEnds, Errors
<1>2. messages' \in Seq(MessageType)
  BY <1>1 DEF ManualTypeOK
<1>3. doubtful' \in BOOLEAN
  BY DEF DaemonEnds, ManualTypeOK
<1>4. calls' \in Seq(CallType) /\ lockCalls' = lockCalls /\ events' \in Nat
  BY DEF DaemonEnds, Happens, ManualTypeOK
<1>5. /\ running' = FALSE /\ exported' = FALSE /\ lastCookie' = 0 /\ pending' = {}
      /\ requested' = {} /\ blocked' = blocked /\ UNCHANGED <<saver, monitor, control, missed>>
  BY DEF DaemonEnds
<1> QED BY <1>2, <1>3, <1>4, <1>5 DEF ManualTypeOK, saver, monitor, control

LEMMA ToggleTyped == ASSUME ManualTypeOK, Toggle PROVE ManualTypeOK'
<1>1. doubtful' \in BOOLEAN /\ events' \in Nat
  BY DEF Toggle, ManualTypeOK, Happens
<1>2. <<[what |-> "Inhibit"]>> \in Seq(CallType)
      /\ <<[what |-> "UnInhibit", cookie |-> sleepInhibitionCookie]>> \in Seq(CallType)
  BY Members DEF ManualTypeOK
<1>3. /\ [what |-> "Inhibit"] \in LockCallType
      /\ [what |-> "UnInhibit", cookie |-> lockInhibitionCookie] \in LockCallType
  BY DEF LockCallType, ManualTypeOK
<1>4. lockCalls' \in Seq(LockCallType)
  <2>1. lockCalls \in Seq(LockCallType)
    BY DEF ManualTypeOK
  <2>2. /\ Append(lockCalls, [what |-> "Inhibit"]) \in Seq(LockCallType)
        /\ Append(lockCalls, [what |-> "UnInhibit", cookie |-> lockInhibitionCookie])
              \in Seq(LockCallType)
    BY <1>3, <2>1, AppendTyped
  <2> QED BY <2>1, <2>2 DEF Toggle, stopSuppressingScreenPowerManagement,
                            beginSuppressingScreenPowerManagement
<1>5. /\ calls' \in Seq(CallType) /\ messages' \in Seq(MessageType)
      /\ isManuallyInhibited' \in BOOLEAN
  <2>1. CASE stopSuppressingSleep
    <3>1. CASE sleepInhibitionCookie = NoCookie
      BY <2>1, <3>1 DEF stopSuppressingSleep, ManualTypeOK, Switched
    <3>2. CASE ~(sleepInhibitionCookie = NoCookie)
      <4>1. Call(<<[what |-> "UnInhibit", cookie |-> sleepInhibitionCookie]>>)
            /\ isManuallyInhibited' = isManuallyInhibited
        BY <2>1, <3>2 DEF stopSuppressingSleep
      <4> QED BY <4>1, <1>2, CallTyped DEF ManualTypeOK
    <3> QED BY <3>1, <3>2
  <2>2. CASE beginSuppressingSleep
    <3>1. CASE sleepInhibitionCookie # NoCookie
      BY <2>2, <3>1 DEF beginSuppressingSleep, ManualTypeOK, Switched
    <3>2. CASE ~(sleepInhibitionCookie # NoCookie)
      <4>1. Call(<<[what |-> "Inhibit"]>>) /\ isManuallyInhibited' = isManuallyInhibited
        BY <2>2, <3>2 DEF beginSuppressingSleep
      <4> QED BY <4>1, <1>2, CallTyped DEF ManualTypeOK
    <3> QED BY <3>1, <3>2
  <2> QED BY <2>1, <2>2 DEF Toggle
<1> QED BY <1>1, <1>4, <1>5 DEF Toggle, ManualTypeOK, agent, saver, monitor

LEMMA SetAllowedTyped ==
    ASSUME ManualTypeOK, NEW allowed \in BOOLEAN, setInhibitionAllowed(allowed)
    PROVE  ManualTypeOK'
<1>1. <<[what |-> "SetInhibitionAllowed", allowed |-> allowed]>> \in Seq(CallType)
  BY Members
<1>2. calls' \in Seq(CallType) /\ messages' \in Seq(MessageType)
  BY <1>1, CallTyped DEF setInhibitionAllowed
<1> QED BY <1>2 DEF setInhibitionAllowed, ManualTypeOK, agent, saver, monitor, control, Happens

LEMMA ScreenSaverTyped == ASSUME ManualTypeOK, ScreenSaver PROVE ManualTypeOK'
<1>1. lockCalls[1] \in LockCallType /\ lockCalls' \in Seq(LockCallType)
  BY HeadTyped DEF ScreenSaver
<1>2. lastLock' \in Nat /\ lockInhibitionCookie' \in Nat /\ locks' \in SUBSET Nat
  <2>1. lastLock \in Nat /\ locks \in SUBSET Nat
    BY DEF ManualTypeOK
  <2>2. CASE lastLock' = lastLock + 1 /\ locks' = locks \union {lastLock + 1}
             /\ lockInhibitionCookie' = lastLock + 1
    BY <2>1, <2>2
  <2>3. CASE locks' = locks \ {lockCalls[1].cookie} /\ lockInhibitionCookie' = NoCookie
             /\ lastLock' = lastLock
    BY <2>1, <2>3 DEF NoCookie
  <2> QED BY <2>2, <2>3 DEF ScreenSaver
<1> QED BY <1>1, <1>2 DEF ScreenSaver, ManualTypeOK, agent, control

\* What asking leaves when a message has been read.
LEMMA ReadAndAskTyped ==
    ASSUME ManualTypeOK, messages # <<>>, NEW asked \in Seq(CallType),
           IF running THEN calls' = calls \o asked /\ messages' = Tail(messages)
           ELSE messages' = Tail(messages) \o Errors(Len(asked)) /\ UNCHANGED calls
    PROVE  calls' \in Seq(CallType) /\ messages' \in Seq(MessageType)
<1>1. Errors(Len(asked)) \in Seq(MessageType)
  BY ErrorsOnly
<1>2. Tail(messages) \in Seq(MessageType) /\ calls \in Seq(CallType)
  BY HeadTyped DEF ManualTypeOK
<1>3. Tail(messages) \o Errors(Len(asked)) \in Seq(MessageType) /\ calls \o asked \in Seq(CallType)
  BY <1>1, <1>2, ConcatTyped
<1> QED BY <1>2, <1>3

LEMMA RegisteredAsks ==
    ASSUME ManualTypeOK, onServiceRegistered
    PROVE  /\ messages # <<>> /\ Asked \in Seq(CallType)
           /\ IF running THEN calls' = calls \o Asked /\ messages' = Tail(messages)
              ELSE messages' = Tail(messages) \o Errors(Len(Asked)) /\ UNCHANGED calls
<1>1. Asked \in Seq(CallType)
  BY Members DEF Asked
<1> QED BY <1>1 DEF onServiceRegistered, Errors

LEMMA PropertiesAsk ==
    ASSUME ManualTypeOK, onPolicyAgentPropertiesChanged
    PROVE  /\ messages # <<>> /\ <<[what |-> "Get"]>> \in Seq(CallType)
           /\ IF running THEN calls' = calls \o <<[what |-> "Get"]>> /\ messages' = Tail(messages)
              ELSE messages' = Tail(messages) \o Errors(Len(<<[what |-> "Get"]>>))
                   /\ UNCHANGED calls
<1>1. [what |-> "Get"] \in CallType /\ [what |-> "Error"] \in MessageType
  BY Members
<1>2. Append(calls, [what |-> "Get"]) = calls \o <<[what |-> "Get"]>>
  BY <1>1, AppendIsConcat DEF ManualTypeOK
<1>3. messages # <<>>
  BY DEF onPolicyAgentPropertiesChanged
<1>4. Append(Tail(messages), [what |-> "Error"]) = Tail(messages) \o <<[what |-> "Error"]>>
  <2>1. Tail(messages) \in Seq(MessageType)
    BY <1>3, HeadTyped
  <2> QED BY <1>1, <2>1, AppendIsConcat
<1>5. Errors(Len(<<[what |-> "Get"]>>)) = <<[what |-> "Error"]>>
  BY DEF Errors
<1>6. <<[what |-> "Get"]>> \in Seq(CallType)
  BY <1>1, AppendTyped
<1> QED BY <1>2, <1>3, <1>4, <1>5, <1>6 DEF onPolicyAgentPropertiesChanged

LEMMA PlasmashellTyped == ASSUME ManualTypeOK, Plasmashell PROVE ManualTypeOK'
<1> USE DEF others, agent, saver
<1>1. CASE onServiceRegistered
  <2>1. calls' \in Seq(CallType) /\ messages' \in Seq(MessageType)
    BY <1>1, RegisteredAsks, ReadAndAskTyped
  <2> QED BY <1>1, <2>1 DEF onServiceRegistered, ManualTypeOK
<1>2. CASE onServiceUnregistered
  <2>1. messages' \in Seq(MessageType)
    BY <1>2, HeadTyped DEF onServiceUnregistered, read
  <2> QED BY <1>2, <2>1 DEF onServiceUnregistered, ManualTypeOK
<1>3. CASE onPolicyAgentPropertiesChanged
  <2>1. calls' \in Seq(CallType) /\ messages' \in Seq(MessageType)
    BY <1>3, PropertiesAsk, ReadAndAskTyped
  <2> QED BY <1>3, <2>1 DEF onPolicyAgentPropertiesChanged, ManualTypeOK, control
<1>4. CASE onHasInhibitionChanged
  <2>1. messages' \in Seq(MessageType) /\ messages[1].value \in BOOLEAN
    BY <1>4, HeadTyped, MessageParts DEF onHasInhibitionChanged, read, HasKinds
  <2> QED BY <1>4, <2>1 DEF onHasInhibitionChanged, ManualTypeOK
<1>5. CASE updatedInhibitions
  <2>1. messages' \in Seq(MessageType) /\ messages[1].list \in SUBSET Row
    BY <1>5, HeadTyped, MessageParts DEF updatedInhibitions, read
  <2> QED BY <1>5, <2>1 DEF updatedInhibitions, ManualTypeOK
<1>6. CASE SleepAnswered
  <2>1. messages' \in Seq(MessageType)
        /\ (messages[1].what = "Cookie" => messages[1].cookie \in Nat)
    BY <1>6, HeadTyped, MessageParts DEF SleepAnswered, read
  <2>2. sleepInhibitionCookie' \in Nat /\ isManuallyInhibited' \in BOOLEAN
    <3>1. sleepInhibitionCookie \in Nat /\ isManuallyInhibited \in BOOLEAN
      BY DEF ManualTypeOK
    <3>2. /\ Switched(TRUE) => isManuallyInhibited' \in BOOLEAN
          /\ Switched(FALSE) => isManuallyInhibited' \in BOOLEAN
      BY <3>1 DEF Switched
    <3>3. CASE /\ messages[1].what = "Cookie" /\ sleepInhibitionCookie' = messages[1].cookie
               /\ Switched(TRUE)
      BY <2>1, <3>2, <3>3
    <3>4. CASE sleepInhibitionCookie' = NoCookie /\ Switched(FALSE)
      BY <3>2, <3>4 DEF NoCookie
    <3>5. CASE UNCHANGED <<sleepInhibitionCookie, isManuallyInhibited>>
      BY <3>1, <3>5
    <3> QED BY <1>6, <3>3, <3>4, <3>5 DEF SleepAnswered
  <2> QED BY <1>6, <2>1, <2>2 DEF SleepAnswered, ManualTypeOK
<1> QED BY <1>1, <1>2, <1>3, <1>4, <1>5, <1>6 DEF Plasmashell

LEMMA StartsTyped ==
    ASSUME ManualTypeOK, DaemonStarts \/ Export PROVE ManualTypeOK'
<1>1. messages' \in Seq(MessageType)
  <2>1. messages \in Seq(MessageType)
    BY DEF ManualTypeOK
  <2>2. Append(messages, [what |-> "Registered"]) \in Seq(MessageType)
    BY <2>1, Members, AppendTyped
  <2> QED BY <2>1, <2>2 DEF DaemonStarts, Export
<1> QED BY <1>1 DEF DaemonStarts, Export, ManualTypeOK, agent, saver, monitor, control

LEMMA StepTyped == ManualTypeOK /\ [Next]_vars => ManualTypeOK'
<1> SUFFICES ASSUME ManualTypeOK, [Next]_vars PROVE ManualTypeOK'
  OBVIOUS
<1>1. CASE Daemon
  BY <1>1, ServeTyped, EnforceTyped, StartsTyped DEF Daemon
<1>2. CASE Plasmashell
  BY <1>2, PlasmashellTyped
<1>3. CASE World
  BY <1>3, ApplicationTyped, ForceUnInhibitAllTyped, DaemonEndsTyped, ToggleTyped,
     ScreenSaverTyped, SetAllowedTyped DEF World
<1>4. CASE UNCHANGED vars
  BY <1>4 DEF vars, agent, saver, monitor, control, ManualTypeOK
<1> QED BY <1>1, <1>2, <1>3, <1>4 DEF Next

-----------------------------------------------------------------------------
(* The names of the daemon                                                 *)

\* What plasmashell will know of the daemon's names once it has read everything
\* is what they are, and nothing is asked of a daemon that is gone.
NameInv ==
    /\ \/ Ends(messages, Names, [what : {IF running THEN "Registered" ELSE "Unregistered"}])
       \/ Without(messages, Names) /\ (registered <=> running)
    /\ calls # <<>> => running

\* The daemon is there, and plasmashell knows.
Informed == running /\ Without(messages, Names)

LEMMA NameInvKept ==
    ASSUME ManualTypeOK, NameInv, NEW added \in Seq(MessageType), Without(added, Names),
           messages' = messages \o added, UNCHANGED <<running, registered>>,
           calls' # <<>> => running
    PROVE  NameInv'
<1>1. messages \in Seq(MessageType)
  BY DEF ManualTypeOK
<1> DEFINE right == [what : {IF running THEN "Registered" ELSE "Unregistered"}]
<1>2. Ends(messages, Names, right) => Ends(messages', Names, right)
  BY <1>1, EndsConcat
<1>3. Without(messages, Names) => Without(messages', Names)
  BY <1>1, WithoutConcat
<1> QED BY <1>2, <1>3 DEF NameInv

\* A message that is not of the names is read.
LEMMA NameInvReads ==
    ASSUME ManualTypeOK, NameInv, messages # <<>>, messages[1].what \notin Names,
           NEW added \in Seq(MessageType), Without(added, Names),
           messages' = Tail(messages) \o added, UNCHANGED <<running, registered>>,
           calls' # <<>> => running
    PROVE  NameInv'
<1>1. messages \in Seq(MessageType) /\ Tail(messages) \in Seq(MessageType)
  BY HeadTyped DEF ManualTypeOK
<1> DEFINE right == [what : {IF running THEN "Registered" ELSE "Unregistered"}]
<1>2. Ends(messages, Names, right) => Ends(Tail(messages), Names, right)
  BY <1>1, EndsTail
<1>3. Ends(Tail(messages), Names, right) => Ends(messages', Names, right)
  BY <1>1, EndsConcat
<1>4. Without(messages, Names) => Without(Tail(messages), Names)
  BY <1>1, WithoutTail
<1>5. Without(Tail(messages), Names) => Without(messages', Names)
  BY <1>1, WithoutConcat
<1> QED BY <1>2, <1>3, <1>4, <1>5 DEF NameInv

\* What a call is answered.
LEMMA AnswerParts ==
    ASSUME ManualTypeOK, NEW call \in CallType, lastCookie' \in Nat
    PROVE  /\ Answer(call) \in Seq(MessageType) /\ Without(Answer(call), Names)
           /\ call.what = "HasInhibit"
                => Ends(Answer(call), HasKinds, [what : HasKinds, value : {Active # {}}])
           /\ call.what # "HasInhibit" => Without(Answer(call), HasKinds)
           /\ call.what = "Get" /\ exported
                => Ends(Answer(call), {"Inhibitions"}, [what : {"Inhibitions"}, list : {Listed}])
           /\ call.what # "Get" => Without(Answer(call), {"Inhibitions"})
           /\ call.what = "Inhibit"
                => Once(Answer(call), Answers, [what |-> "Cookie", cookie |-> lastCookie'])
           /\ call.what = "UnInhibit" => Once(Answer(call), Answers, [what |-> "Released"])
           /\ call.what \notin Asks => Without(Answer(call), Answers)
<1> USE DEF Names, HasKinds, Asks, Answers
<1>0. Answer(call) \in Seq(MessageType)
  BY AnswerTyped
<1>1. CASE call.what = "Inhibit"
  <2>1. Answer(call) = <<[what |-> "Cookie", cookie |-> lastCookie']>>
    BY <1>1 DEF Answer
  <2> QED BY <1>0, <1>1, <2>1, WithoutShort DEF Once
<1>2. CASE call.what = "UnInhibit"
  <2>1. Answer(call) = <<[what |-> "Released"]>>
    BY <1>2 DEF Answer
  <2> QED BY <1>0, <1>2, <2>1, WithoutShort DEF Once
<1>3. CASE call.what = "HasInhibit"
  <2> DEFINE v == Active # {}
             right == [what : HasKinds, value : {v}]
             m == [what |-> "HasInhibit", value |-> v]
  <2>1. Answer(call) = <<m>>
    BY <1>3 DEF Answer
  <2>2. m.what = "HasInhibit" /\ m \in right
    OBVIOUS
  <2> HIDE DEF m
  <2>3. Ends(<<m>>, HasKinds, right)
    <3> HIDE DEF right
    <3> QED BY <2>2, EndsShort
  <2>4. Without(<<m>>, Names) /\ Without(<<m>>, {"Inhibitions"}) /\ Without(<<m>>, Answers)
    BY <2>2, WithoutShort
  <2> HIDE DEF right
  <2>5. /\ Answer(call) \in Seq(MessageType) /\ Without(Answer(call), Names)
        /\ Ends(Answer(call), HasKinds, right)
        /\ Without(Answer(call), {"Inhibitions"}) /\ Without(Answer(call), Answers)
    BY <1>0, <2>1, <2>3, <2>4
  <2> QED BY <1>3, <2>5 DEF right
<1>4. CASE call.what = "Get"
  <2> DEFINE right == [what : {"Inhibitions"}, list : {Listed}]
             m == [what |-> "Inhibitions", list |-> Listed]
             e == [what |-> "Error"]
  <2>1. Answer(call) = IF exported THEN <<m>> ELSE <<e>>
    BY <1>4 DEF Answer
  <2>2. m.what = "Inhibitions" /\ m \in right /\ e.what = "Error"
    OBVIOUS
  <2> HIDE DEF m, e
  <2>3. Ends(<<m>>, {"Inhibitions"}, right)
    <3> HIDE DEF right
    <3> QED BY <2>2, EndsShort
  <2>4. /\ Without(<<m>>, Names) /\ Without(<<m>>, HasKinds) /\ Without(<<m>>, Answers)
        /\ Without(<<e>>, Names) /\ Without(<<e>>, HasKinds) /\ Without(<<e>>, Answers)
    BY <2>2, WithoutShort
  <2> HIDE DEF right
  <2>5. /\ Without(Answer(call), Names) /\ Without(Answer(call), HasKinds)
        /\ Without(Answer(call), Answers)
        /\ exported => Ends(Answer(call), {"Inhibitions"}, right)
    BY <2>1, <2>3, <2>4
  <2> QED BY <1>0, <1>4, <2>5 DEF right
<1>5. CASE call.what = "SetInhibitionAllowed"
  <2>1. Answer(call) = <<>>
    BY <1>5 DEF Answer
  <2> QED BY <1>0, <1>5, <2>1, WithoutShort
<1> QED BY <1>1, <1>2, <1>3, <1>4, <1>5, CallParts

\* What Serve adds to the messages.
LEMMA ServeAdds ==
    ASSUME ManualTypeOK, Serve
    PROVE  /\ Sent(Signals) \in Seq(MessageType) /\ Answer(calls[1]) \in Seq(MessageType)
           /\ messages \o Sent(Signals) \in Seq(MessageType)
           /\ Sent(Signals) \o Answer(calls[1]) \in Seq(MessageType)
           /\ messages' = messages \o (Sent(Signals) \o Answer(calls[1]))
           /\ Without(Sent(Signals) \o Answer(calls[1]), Names)
<1>1. /\ messages \in Seq(MessageType) /\ calls[1] \in CallType /\ lastCookie' \in Nat
      /\ requested' \in SUBSET Entry
      /\ messages' = (messages \o Sent(Signals)) \o Answer(calls[1])
  BY ServeParts DEF ManualTypeOK
<1>2. Sent(Signals) \in Seq(MessageType) /\ Without(Sent(Signals), Names)
  BY <1>1, ActiveTyped, SignalsTell
<1>3. Answer(calls[1]) \in Seq(MessageType) /\ Without(Answer(calls[1]), Names)
  BY <1>1, AnswerParts
<1>4. \A s, t, u \in Seq(MessageType) : (s \o t) \o u = s \o (t \o u)
  OBVIOUS
<1>5. messages \o Sent(Signals) \in Seq(MessageType)
      /\ Sent(Signals) \o Answer(calls[1]) \in Seq(MessageType)
  BY <1>1, <1>2, <1>3, ConcatTyped
<1> QED BY <1>1, <1>2, <1>3, <1>4, <1>5, WithoutConcat

\* What the agent's own steps, and Application and ForceUnInhibitAll, leave and add.
LEMMA AgentParts ==
    ASSUME ManualTypeOK,
           (\E inhibition \in pending : Enforce(inhibition)) \/ Application \/ ForceUnInhibitAll
    PROVE  /\ messages' = messages \o Sent(Signals)
           /\ Sent(Signals) \in Seq(MessageType) /\ Without(Sent(Signals), Names)
           /\ Without(Sent(Signals), Answers) /\ Without(Sent(Signals), {"Inhibitions"})
           /\ UNCHANGED bystanders
           /\ requested' \in SUBSET Entry /\ blocked' = blocked
<1>1. messages' = messages \o Sent(Signals) /\ UNCHANGED bystanders /\ blocked' = blocked
  BY DEF Enforce, Application, ForceUnInhibitAll, Schedule, Release
<1>2. ManualTypeOK'
  BY EnforceTyped, ApplicationTyped, ForceUnInhibitAllTyped
<1>3. requested' \in SUBSET Entry
  BY <1>2 DEF ManualTypeOK
<1>4. Active' \in SUBSET Entry
  BY <1>3, ActiveTyped
<1> QED BY <1>1, <1>3, <1>4, SignalsTell

LEMMA NameInvSignals ==
    ASSUME ManualTypeOK, NameInv,
           (\E inhibition \in pending : Enforce(inhibition)) \/ Application \/ ForceUnInhibitAll
    PROVE  NameInv'
<1>1. /\ messages' = messages \o Sent(Signals)
      /\ Sent(Signals) \in Seq(MessageType) /\ Without(Sent(Signals), Names)
      /\ UNCHANGED bystanders
  BY AgentParts
<1>2. UNCHANGED <<running, registered, calls>>
  BY <1>1 DEF bystanders, control
<1>3. calls' # <<>> => running
  BY <1>2 DEF NameInv
<1> QED BY <1>1, <1>2, <1>3, NameInvKept

LEMMA NameInvServe == ASSUME ManualTypeOK, NameInv, Serve PROVE NameInv'
<1> DEFINE added == Sent(Signals) \o Answer(calls[1])
<1>1. added \in Seq(MessageType) /\ messages' = messages \o added /\ Without(added, Names)
  BY ServeAdds
<1>2. UNCHANGED <<running, registered>> /\ calls # <<>>
  BY ServeParts DEF control
<1>3. running
  BY <1>2 DEF NameInv
<1> HIDE DEF added
<1> QED BY <1>1, <1>2, <1>3, NameInvKept

LEMMA NameInvDaemonEnds == ASSUME ManualTypeOK, NameInv, DaemonEnds PROVE NameInv'
<1> DEFINE gone == <<[what |-> "Unregistered"]>>
           right == [what : {"Unregistered"}]
<1>1. /\ messages' = (messages \o gone) \o Errors(Len(calls)) /\ running' = FALSE /\ calls' = <<>>
      /\ messages \in Seq(MessageType) /\ gone \in Seq(MessageType) /\ Len(calls) \in Nat
  BY Members DEF DaemonEnds, Errors, ManualTypeOK
<1>2. Errors(Len(calls)) \in Seq(MessageType) /\ Without(Errors(Len(calls)), Names)
  BY <1>1, ErrorsOnly DEF Names
<1>3. Ends(gone, Names, right)
  BY DEF Ends, Names
<1> HIDE DEF gone, right
<1>4. messages \o gone \in Seq(MessageType) /\ Ends(messages \o gone, Names, right)
  BY <1>1, <1>3, ConcatTyped, EndsConcat
<1>5. Ends(messages', Names, right)
  BY <1>1, <1>2, <1>4, EndsConcat
<1> QED BY <1>1, <1>5 DEF NameInv, right

LEMMA NameInvDaemonStarts == ASSUME ManualTypeOK, NameInv, DaemonStarts PROVE NameInv'
<1> DEFINE came == [what |-> "Registered"]
           right == [what : {"Registered"}]
<1>1. /\ messages' = Append(messages, came) /\ running' = TRUE /\ calls' = calls
      /\ messages \in Seq(MessageType) /\ came \in MessageType
  BY Members DEF DaemonStarts, ManualTypeOK
<1>2. messages' = messages \o <<came>> /\ <<came>> \in Seq(MessageType)
  BY <1>1, AppendIsConcat, AppendTyped
<1>3. Ends(<<came>>, Names, right)
  BY DEF Ends, Names
<1> HIDE DEF came, right
<1>4. Ends(messages', Names, right)
  BY <1>1, <1>2, <1>3, EndsConcat
<1> QED BY <1>1, <1>4 DEF NameInv, right

\* What is asked of the daemon when nothing has been read.
LEMMA NameInvCalls ==
    ASSUME ManualTypeOK, NameInv, NEW asked \in Seq(CallType), Call(asked),
           UNCHANGED <<running, registered>>
    PROVE  NameInv'
<1>1. CASE running
  <2>1. messages' = messages
    BY <1>1, CallTyped
  <2> QED BY <1>1, <2>1 DEF NameInv
<1>2. CASE ~running
  <2>1. messages' = messages \o Errors(Len(asked)) /\ calls' = calls
    BY <1>2, CallTyped
  <2>2. Errors(Len(asked)) \in Seq(MessageType) /\ Without(Errors(Len(asked)), Names)
    BY ErrorsOnly DEF Names
  <2>3. calls' # <<>> => running
    BY <2>1 DEF NameInv
  <2> QED BY <2>1, <2>2, <2>3, NameInvKept
<1> QED BY <1>1, <1>2

LEMMA NameInvSame ==
    ASSUME NameInv, UNCHANGED <<running, registered, messages, calls>>
    PROVE  NameInv'
BY DEF NameInv

\* What the switch asks of the daemon.
LEMMA ToggleParts ==
    ASSUME ManualTypeOK, Toggle
    PROVE  /\ UNCHANGED <<running, exported, agent, saver, monitor, registered,
                          requestedInhibitions, hasInhibition, missed>>
           /\ \/ UNCHANGED <<calls, messages>>
              \/ \E asked \in Seq(CallType) : Call(asked) /\ Without(asked, {"Get", "HasInhibit"})
<1>1. UNCHANGED <<running, exported, agent, saver, monitor, registered,
                  requestedInhibitions, hasInhibition, missed>>
  BY DEF Toggle
<1>2. [what |-> "Inhibit"] \in CallType
      /\ [what |-> "UnInhibit", cookie |-> sleepInhibitionCookie] \in CallType
  BY Members DEF ManualTypeOK
<1> DEFINE a == <<[what |-> "Inhibit"]>>
           b == <<[what |-> "UnInhibit", cookie |-> sleepInhibitionCookie]>>
<1>3. a \in Seq(CallType) /\ b \in Seq(CallType)
  BY <1>2, AppendTyped
<1>4. Without(a, {"Get", "HasInhibit"}) /\ Without(b, {"Get", "HasInhibit"})
  BY DEF Without
<1>5. UNCHANGED <<calls, messages>> \/ Call(a) \/ Call(b)
  BY DEF Toggle, stopSuppressingSleep, beginSuppressingSleep
<1> HIDE DEF a, b
<1> QED BY <1>1, <1>3, <1>4, <1>5

LEMMA NameInvWorld ==
    ASSUME ManualTypeOK, NameInv, Toggle \/ ScreenSaver \/ Export
                                    \/ \E allowed \in BOOLEAN : setInhibitionAllowed(allowed)
    PROVE  NameInv'
<1>1. CASE Toggle
  <2>1. UNCHANGED <<running, registered>>
        /\ (UNCHANGED <<calls, messages>> \/ \E asked \in Seq(CallType) : Call(asked))
    BY <1>1, ToggleParts
  <2> QED BY <2>1, NameInvSame, NameInvCalls
<1>2. CASE ScreenSaver
  BY <1>2, NameInvSame DEF ScreenSaver, control
<1>3. CASE Export
  BY <1>3, NameInvSame DEF Export, control
<1>4. ASSUME NEW allowed \in BOOLEAN, setInhibitionAllowed(allowed) PROVE NameInv'
  <2>1. <<[what |-> "SetInhibitionAllowed", allowed |-> allowed]>> \in Seq(CallType)
    BY Members, AppendTyped
  <2>2. Call(<<[what |-> "SetInhibitionAllowed", allowed |-> allowed]>>)
        /\ UNCHANGED <<running, registered>>
    BY <1>4 DEF setInhibitionAllowed, control
  <2> QED BY <2>1, <2>2, NameInvCalls
<1> QED BY <1>1, <1>2, <1>3, <1>4

LEMMA NameInvRegistered == ASSUME ManualTypeOK, NameInv, onServiceRegistered PROVE NameInv'
<1>1. messages # <<>> /\ messages[1].what = "Registered" /\ registered' = TRUE
      /\ running' = running
  BY DEF onServiceRegistered, others
<1>2. messages \in Seq(MessageType) /\ Tail(messages) \in Seq(MessageType)
  BY <1>1, HeadTyped DEF ManualTypeOK
<1> DEFINE right == [what : {IF running THEN "Registered" ELSE "Unregistered"}]
<1>3. ~Without(messages, Names)
  BY <1>1, <1>2, WithoutTail DEF Names
<1>4. Ends(messages, Names, right)
  BY <1>3 DEF NameInv
<1>5. messages[1] \in right => running
  BY <1>1
<1> HIDE DEF right
<1>6. (running /\ Without(Tail(messages), Names)) \/ Ends(Tail(messages), Names, right)
  BY <1>1, <1>2, <1>4, <1>5, EndsTail
<1>7. CASE running
  <2>1. messages' = Tail(messages)
    BY <1>7, RegisteredAsks
  <2> QED BY <1>1, <1>6, <1>7, <2>1 DEF NameInv, right
<1>8. CASE ~running
  <2>1. messages' = Tail(messages) \o Errors(Len(Asked)) /\ calls' = calls
    BY <1>8, RegisteredAsks
  <2>2. Errors(Len(Asked)) \in Seq(MessageType) /\ Without(Errors(Len(Asked)), Names)
    <3>1. Len(Asked) \in Nat
      BY DEF Asked
    <3> QED BY <3>1, ErrorsOnly DEF Names
  <2>3. Ends(messages', Names, right)
    BY <1>2, <1>6, <1>8, <2>1, <2>2, EndsConcat
  <2> QED BY <1>1, <2>1, <2>3 DEF NameInv, right
<1> QED BY <1>7, <1>8

LEMMA NameInvUnregistered == ASSUME ManualTypeOK, NameInv, onServiceUnregistered PROVE NameInv'
<1>1. messages # <<>> /\ messages[1].what = "Unregistered" /\ registered' = FALSE
      /\ UNCHANGED <<running, calls>> /\ messages' = Tail(messages)
  BY DEF onServiceUnregistered, others, read
<1>2. messages \in Seq(MessageType)
  BY DEF ManualTypeOK
<1> DEFINE right == [what : {IF running THEN "Registered" ELSE "Unregistered"}]
<1>3. ~Without(messages, Names)
  BY <1>1, <1>2, WithoutTail DEF Names
<1>4. Ends(messages, Names, right)
  BY <1>3 DEF NameInv
<1>5. messages[1] \in right => ~running
  BY <1>1
<1> HIDE DEF right
<1>6. (~running /\ Without(Tail(messages), Names)) \/ Ends(Tail(messages), Names, right)
  BY <1>1, <1>2, <1>4, <1>5, EndsTail
<1> QED BY <1>1, <1>6 DEF NameInv, right

\* What the other messages leave when they are read.
LEMMA ReadParts ==
    ASSUME ManualTypeOK, NameInv,
           \/ onPolicyAgentPropertiesChanged \/ onHasInhibitionChanged \/ updatedInhibitions
           \/ SleepAnswered
    PROVE  /\ messages # <<>> /\ messages[1] \in MessageType /\ messages[1].what \notin Names
           /\ UNCHANGED <<running, exported, agent, saver, lockCalls, lockInhibitionCookie,
                          missed, doubtful, registered>>
           /\ \E added \in Seq(MessageType) :
                 /\ messages' = Tail(messages) \o added
                 /\ \A kinds : "Error" \notin kinds => Without(added, kinds)
           /\ calls' # <<>> => running
           /\ \/ messages[1].what = "PropertiesChanged"
              \/ calls' = calls /\ messages' = Tail(messages)
<1>1. messages # <<>> /\ messages[1].what \notin Names
  BY DEF onPolicyAgentPropertiesChanged, onHasInhibitionChanged, updatedInhibitions,
         SleepAnswered, read, Names
<1>2. messages[1] \in MessageType /\ Tail(messages) \in Seq(MessageType)
  BY <1>1, HeadTyped
<1>3. UNCHANGED <<running, exported, agent, saver, lockCalls, lockInhibitionCookie,
                  missed, doubtful, registered>>
  BY DEF onPolicyAgentPropertiesChanged, onHasInhibitionChanged, updatedInhibitions,
         SleepAnswered, others, control
<1>4. CASE onPolicyAgentPropertiesChanged
  <2>1. messages[1].what = "PropertiesChanged"
    BY <1>4 DEF onPolicyAgentPropertiesChanged
  <2>2. IF running THEN calls' = calls \o <<[what |-> "Get"]>> /\ messages' = Tail(messages)
        ELSE messages' = Tail(messages) \o Errors(Len(<<[what |-> "Get"]>>)) /\ UNCHANGED calls
    BY <1>4, PropertiesAsk
  <2>3. Tail(messages) = Tail(messages) \o <<>> /\ <<>> \in Seq(MessageType)
        /\ \A kinds : Without(<<>>, kinds)
    BY <1>2 DEF Without
  <2>4. Len(<<[what |-> "Get"]>>) \in Nat
    OBVIOUS
  <2>5. \E added \in Seq(MessageType) :
           /\ messages' = Tail(messages) \o added
           /\ \A kinds : "Error" \notin kinds => Without(added, kinds)
    BY <2>2, <2>3, <2>4, ErrorsOnly
  <2>6. calls' # <<>> => running
    BY <2>2 DEF NameInv
  <2> QED BY <1>1, <1>2, <1>3, <2>1, <2>5, <2>6
<1>5. CASE onHasInhibitionChanged \/ updatedInhibitions \/ SleepAnswered
  <2>1. messages' = Tail(messages) /\ calls' = calls
    BY <1>5 DEF onHasInhibitionChanged, updatedInhibitions, SleepAnswered, read
  <2>2. Tail(messages) = Tail(messages) \o <<>> /\ <<>> \in Seq(MessageType)
        /\ \A kinds : Without(<<>>, kinds)
    BY <1>2 DEF Without
  <2> QED BY <1>1, <1>2, <1>3, <2>1, <2>2 DEF NameInv
<1> QED BY <1>4, <1>5

LEMMA NameInvRead ==
    ASSUME ManualTypeOK, NameInv,
           \/ onPolicyAgentPropertiesChanged \/ onHasInhibitionChanged \/ updatedInhibitions
           \/ SleepAnswered
    PROVE  NameInv'
<1>1. /\ messages # <<>> /\ messages[1].what \notin Names /\ UNCHANGED <<running, registered>>
      /\ calls' # <<>> => running
  BY ReadParts
<1> PICK added \in Seq(MessageType) :
        /\ messages' = Tail(messages) \o added
        /\ \A kinds : "Error" \notin kinds => Without(added, kinds)
  BY ReadParts
<1>2. Without(added, Names)
  BY DEF Names
<1> QED BY <1>1, <1>2, NameInvReads

-----------------------------------------------------------------------------
(* Whether sleep is inhibited                                              *)

HasRight == [what : HasKinds, value : {Active # {}}]

\* The agent has been asked, or the last that it has told of is so, or plasmashell
\* has read it all.
HasInv ==
    Informed =>
        \/ ~Without(calls, {"HasInhibit"})
        \/ Ends(messages, HasKinds, HasRight)
        \/ Without(messages, HasKinds) /\ (hasInhibition <=> Active # {})

LEMMA InformedKept ==
    ASSUME ManualTypeOK, NameInv, NEW added \in Seq(MessageType), messages' = messages \o added,
           UNCHANGED running, Informed'
    PROVE  Informed /\ registered
<1>1. Without(messages, Names) /\ running
  BY WithoutConcat DEF Informed, ManualTypeOK
<1>2. registered
  BY <1>1, EndsIsThere DEF NameInv
<1> QED BY <1>1, <1>2 DEF Informed

LEMMA InformedReads ==
    ASSUME ManualTypeOK, NameInv, NEW added \in Seq(MessageType), messages # <<>>,
           messages[1].what \notin Names, messages' = Tail(messages) \o added,
           UNCHANGED running, Informed'
    PROVE  Informed /\ registered
<1>1. messages \in Seq(MessageType) /\ Tail(messages) \in Seq(MessageType)
  BY HeadTyped DEF ManualTypeOK
<1>2. Without(Tail(messages), Names) /\ running
  BY <1>1, WithoutConcat DEF Informed
<1>3. Without(messages, Names)
  BY <1>1, <1>2, WithoutTail
<1>4. registered
  BY <1>2, <1>3, EndsIsThere DEF NameInv
<1> QED BY <1>2, <1>3, <1>4 DEF Informed

LEMMA HasInvKept ==
    ASSUME ManualTypeOK, NameInv, HasInv, NEW added \in Seq(MessageType), Without(added, HasKinds),
           messages' = messages \o added, UNCHANGED <<running, hasInhibition>>,
           (Active = {}) <=> (Active' = {}),
           Without(calls', {"HasInhibit"}) => Without(calls, {"HasInhibit"})
    PROVE  HasInv'
<1> SUFFICES ASSUME Informed'
             PROVE  \/ ~Without(calls', {"HasInhibit"})
                    \/ Ends(messages', HasKinds, HasRight')
                    \/ Without(messages', HasKinds) /\ (hasInhibition' <=> Active' # {})
  BY DEF HasInv
<1>1. Informed
  BY InformedKept
<1>2. messages \in Seq(MessageType)
  BY DEF ManualTypeOK
<1>3. HasRight' = HasRight
  <2>1. (Active # {}) = (Active' # {})
    OBVIOUS
  <2> QED BY <2>1 DEF HasRight
<1>4. Ends(messages, HasKinds, HasRight) => Ends(messages', HasKinds, HasRight')
  BY <1>2, <1>3, EndsConcat
<1>5. Without(messages, HasKinds) => Without(messages', HasKinds)
  BY <1>2, WithoutConcat
<1> QED BY <1>1, <1>4, <1>5 DEF HasInv

LEMMA HasInvTold ==
    ASSUME ManualTypeOK, NEW added \in Seq(MessageType), Ends(added, HasKinds, HasRight'),
           messages' = messages \o added
    PROVE  HasInv'
<1>1. messages \in Seq(MessageType)
  BY DEF ManualTypeOK
<1>2. Ends(messages', HasKinds, HasRight')
  BY <1>1, EndsConcat
<1> QED BY <1>2 DEF HasInv

LEMMA HasInvSame ==
    ASSUME HasInv, UNCHANGED <<running, messages, hasInhibition, agent>>,
           Without(calls', {"HasInhibit"}) => Without(calls, {"HasInhibit"})
    PROVE  HasInv'
<1>1. Active' = Active
  BY DEF Active, agent
<1>2. HasRight' = HasRight
  BY <1>1 DEF HasRight
<1> QED BY <1>1, <1>2 DEF HasInv, Informed

LEMMA HasInvReads ==
    ASSUME ManualTypeOK, NameInv, HasInv, NEW added \in Seq(MessageType), Without(added, HasKinds),
           messages # <<>>, messages[1].what \notin Names, messages[1].what \notin HasKinds,
           messages' = Tail(messages) \o added, UNCHANGED <<running, hasInhibition, agent>>,
           Without(calls', {"HasInhibit"}) => Without(calls, {"HasInhibit"})
    PROVE  HasInv'
<1> SUFFICES ASSUME Informed'
             PROVE  \/ ~Without(calls', {"HasInhibit"})
                    \/ Ends(messages', HasKinds, HasRight')
                    \/ Without(messages', HasKinds) /\ (hasInhibition' <=> Active' # {})
  BY DEF HasInv
<1>1. Informed
  BY InformedReads
<1>2. messages \in Seq(MessageType) /\ Tail(messages) \in Seq(MessageType)
  BY HeadTyped DEF ManualTypeOK
<1>3. Active' = Active
  BY DEF Active, agent
<1>4. HasRight' = HasRight
  BY <1>3 DEF HasRight
<1>5. Ends(messages, HasKinds, HasRight) => Ends(Tail(messages), HasKinds, HasRight)
  BY <1>2, EndsTail
<1>6. Ends(Tail(messages), HasKinds, HasRight) => Ends(messages', HasKinds, HasRight')
  BY <1>2, <1>4, EndsConcat
<1>7. Without(messages, HasKinds) => Without(Tail(messages), HasKinds)
  BY <1>2, WithoutTail
<1>8. Without(Tail(messages), HasKinds) => Without(messages', HasKinds)
  BY <1>2, WithoutConcat
<1> QED BY <1>1, <1>3, <1>5, <1>6, <1>7, <1>8 DEF HasInv

LEMMA HasInvSignals ==
    ASSUME ManualTypeOK, NameInv, HasInv,
           (\E inhibition \in pending : Enforce(inhibition)) \/ Application \/ ForceUnInhibitAll
    PROVE  HasInv'
<1>1. /\ messages' = messages \o Sent(Signals) /\ Sent(Signals) \in Seq(MessageType)
      /\ UNCHANGED <<running, hasInhibition, calls>> /\ Active' \in SUBSET Entry
  BY AgentParts, ActiveTyped DEF bystanders, control
<1>2. CASE (Active = {}) <=> (Active' = {})
  <2>1. Without(Sent(Signals), HasKinds)
    BY <1>1, <1>2, SignalsTell
  <2> QED BY <1>1, <1>2, <2>1, HasInvKept
<1>3. CASE ~((Active = {}) <=> (Active' = {}))
  <2>1. CASE ~Informed'
    BY <2>1 DEF HasInv
  <2>2. CASE Informed'
    <3>1. registered
      BY <1>1, <2>2, InformedKept
    <3>2. Ends(Sent(Signals), HasKinds, HasRight')
      BY <1>1, <1>3, <3>1, SignalsTell DEF HasRight
    <3> QED BY <1>1, <3>2, HasInvTold
  <2> QED BY <2>1, <2>2
<1> QED BY <1>2, <1>3

LEMMA HasInvServe == ASSUME ManualTypeOK, NameInv, HasInv, Serve PROVE HasInv'
<1> DEFINE added == Sent(Signals) \o Answer(calls[1])
<1>1. /\ added \in Seq(MessageType) /\ messages' = messages \o added
      /\ Sent(Signals) \in Seq(MessageType) /\ Answer(calls[1]) \in Seq(MessageType)
  BY ServeAdds
<1>2. /\ UNCHANGED <<running, hasInhibition>> /\ calls # <<>> /\ calls' = Tail(calls)
      /\ calls[1] \in CallType /\ lastCookie' \in Nat /\ Active' \in SUBSET Entry
      /\ calls \in Seq(CallType)
  BY ServeParts, ActiveTyped DEF control, ManualTypeOK
<1>3. CASE calls[1].what = "HasInhibit"
  <2>1. UNCHANGED agent
    BY <1>3, ServeParts
  <2>2. Active' = Active
    BY <2>1 DEF Active, agent
  <2>3. Ends(Answer(calls[1]), HasKinds, HasRight')
    BY <1>2, <1>3, <2>2, AnswerParts DEF HasRight
  <2>4. Ends(added, HasKinds, HasRight')
    BY <1>1, <2>3, EndsConcat
  <2> HIDE DEF added
  <2> QED BY <1>1, <2>4, HasInvTold
<1>4. CASE calls[1].what # "HasInhibit"
  <2>1. Without(Answer(calls[1]), HasKinds)
    BY <1>2, <1>4, AnswerParts
  <2>2. Without(calls', {"HasInhibit"}) => Without(calls, {"HasInhibit"})
    BY <1>2, <1>4, WithoutTail
  <2>3. CASE (Active = {}) <=> (Active' = {})
    <3>1. Without(Sent(Signals), HasKinds)
      BY <1>2, <2>3, SignalsTell
    <3>2. Without(added, HasKinds)
      BY <1>1, <2>1, <3>1, WithoutConcat
    <3> HIDE DEF added
    <3> QED BY <1>1, <1>2, <2>2, <2>3, <3>2, HasInvKept
  <2>4. CASE ~((Active = {}) <=> (Active' = {}))
    <3>1. CASE ~Informed'
      BY <3>1 DEF HasInv
    <3>2. CASE Informed'
      <4>1. registered
        <5> HIDE DEF added
        <5> QED BY <1>1, <1>2, <3>2, InformedKept
      <4>2. Ends(Sent(Signals), HasKinds, HasRight')
        BY <1>2, <2>4, <4>1, SignalsTell DEF HasRight
      <4>3. Ends(added, HasKinds, HasRight')
        BY <1>1, <2>1, <4>2, EndsConcat
      <4> HIDE DEF added
      <4> QED BY <1>1, <4>3, HasInvTold
    <3> QED BY <3>1, <3>2
  <2> QED BY <2>3, <2>4
<1> QED BY <1>3, <1>4

LEMMA NotInformed ==
    /\ ManualTypeOK /\ DaemonEnds => ~Informed'
    /\ ManualTypeOK /\ DaemonStarts => ~Informed'
    /\ NameInv' /\ onServiceUnregistered => ~Informed'
<1>1. DaemonEnds => ~Informed'
  BY DEF DaemonEnds, Informed
<1>2. ASSUME ManualTypeOK, DaemonStarts PROVE ~Informed'
  <2>1. /\ messages' = messages \o <<[what |-> "Registered"]>> /\ messages \in Seq(MessageType)
        /\ <<[what |-> "Registered"]>> \in Seq(MessageType)
    BY <1>2, Members, AppendIsConcat, AppendTyped DEF DaemonStarts, ManualTypeOK
  <2>2. ~Without(<<[what |-> "Registered"]>>, Names)
    BY DEF Without, Names
  <2> QED BY <2>1, <2>2, WithoutConcat DEF Informed
<1>3. ASSUME NameInv', onServiceUnregistered PROVE ~Informed'
  <2>1. registered' = FALSE
    BY <1>3 DEF onServiceUnregistered
  <2>2. Ends(messages', Names, [what : {IF running' THEN "Registered" ELSE "Unregistered"}])
          \/ (Without(messages', Names) /\ (registered' <=> running'))
    BY <1>3 DEF NameInv
  <2> QED BY <2>1, <2>2, EndsIsThere DEF Informed
<1> QED BY <1>1, <1>2, <1>3

\* Calls that are not Get or HasInhibit leave what is asked of these two.
LEMMA CallsKept ==
    ASSUME ManualTypeOK, NEW asked \in Seq(CallType), Call(asked), UNCHANGED running, Informed',
           NEW kinds
    PROVE  /\ Informed /\ messages' = messages
           /\ Without(calls', kinds) => Without(calls, kinds)
<1>1. running
  BY DEF Informed
<1>2. calls' = calls \o asked /\ messages' = messages
  BY <1>1, CallTyped
<1>3. Informed
  BY <1>2 DEF Informed
<1> QED BY <1>2, <1>3, WithoutConcat DEF ManualTypeOK

LEMMA HasInvCalls ==
    ASSUME ManualTypeOK, HasInv, NEW asked \in Seq(CallType), Call(asked),
           UNCHANGED <<running, hasInhibition, agent>>
    PROVE  HasInv'
<1>1. CASE ~Informed'
  BY <1>1 DEF HasInv
<1>2. CASE Informed'
  <2>1. messages' = messages /\ (Without(calls', {"HasInhibit"}) => Without(calls, {"HasInhibit"}))
    BY <1>2, CallsKept
  <2> QED BY <2>1, HasInvSame
<1> QED BY <1>1, <1>2

LEMMA HasInvWorld ==
    ASSUME ManualTypeOK, HasInv, Toggle \/ ScreenSaver \/ Export
                                    \/ \E allowed \in BOOLEAN : setInhibitionAllowed(allowed)
    PROVE  HasInv'
<1>1. CASE Toggle
  <2>1. UNCHANGED <<running, hasInhibition, agent>>
        /\ (UNCHANGED <<calls, messages>> \/ \E asked \in Seq(CallType) : Call(asked))
    BY <1>1, ToggleParts
  <2> QED BY <2>1, HasInvSame, HasInvCalls
<1>2. CASE ScreenSaver
  BY <1>2, HasInvSame DEF ScreenSaver, control
<1>3. CASE Export
  BY <1>3, HasInvSame DEF Export, control
<1>4. ASSUME NEW allowed \in BOOLEAN, setInhibitionAllowed(allowed) PROVE HasInv'
  <2>1. <<[what |-> "SetInhibitionAllowed", allowed |-> allowed]>> \in Seq(CallType)
    BY Members, AppendTyped
  <2>2. Call(<<[what |-> "SetInhibitionAllowed", allowed |-> allowed]>>)
        /\ UNCHANGED <<running, hasInhibition, agent>>
    BY <1>4 DEF setInhibitionAllowed, control
  <2> QED BY <2>1, <2>2, HasInvCalls
<1> QED BY <1>1, <1>2, <1>3, <1>4

LEMMA HasInvRegistered == ASSUME ManualTypeOK, onServiceRegistered PROVE HasInv'
<1>1. CASE ~running
  BY <1>1 DEF onServiceRegistered, others, HasInv, Informed
<1>2. CASE running
  <2>1. calls' = calls \o Asked /\ Asked \in Seq(CallType)
    BY <1>2, RegisteredAsks
  <2>2. ~Without(Asked, {"HasInhibit"})
    BY DEF Asked, Without
  <2>3. ~Without(calls', {"HasInhibit"})
    BY <2>1, <2>2, WithoutConcat DEF ManualTypeOK
  <2> QED BY <2>3 DEF HasInv
<1> QED BY <1>1, <1>2

LEMMA HasInvOther ==
    ASSUME ManualTypeOK, NameInv, HasInv,
           onPolicyAgentPropertiesChanged \/ updatedInhibitions \/ SleepAnswered
    PROVE  HasInv'
<1>1. /\ messages # <<>> /\ messages[1].what \notin Names
      /\ UNCHANGED <<running, agent>>
  BY ReadParts
<1>2. messages[1].what \notin HasKinds /\ hasInhibition' = hasInhibition
  BY DEF onPolicyAgentPropertiesChanged, updatedInhibitions, SleepAnswered, HasKinds, control
<1>3. Without(calls', {"HasInhibit"}) => Without(calls, {"HasInhibit"})
  <2>1. calls' = calls \/ calls' = calls \o <<[what |-> "Get"]>>
    <3>1. CASE onPolicyAgentPropertiesChanged
      BY <3>1, PropertiesAsk
    <3>2. CASE updatedInhibitions \/ SleepAnswered
      BY <3>2 DEF updatedInhibitions, SleepAnswered
    <3> QED BY <3>1, <3>2
  <2>2. <<[what |-> "Get"]>> \in Seq(CallType)
    BY Members, AppendTyped
  <2> QED BY <2>1, <2>2, WithoutConcat DEF ManualTypeOK
<1> PICK added \in Seq(MessageType) :
        /\ messages' = Tail(messages) \o added
        /\ \A kinds : "Error" \notin kinds => Without(added, kinds)
  BY ReadParts
<1>4. Without(added, HasKinds)
  BY DEF HasKinds
<1> QED BY <1>1, <1>2, <1>3, <1>4, HasInvReads

LEMMA HasInvRead == ASSUME ManualTypeOK, NameInv, HasInv, onHasInhibitionChanged PROVE HasInv'
<1> SUFFICES ASSUME Informed'
             PROVE  \/ ~Without(calls', {"HasInhibit"})
                    \/ Ends(messages', HasKinds, HasRight')
                    \/ Without(messages', HasKinds) /\ (hasInhibition' <=> Active' # {})
  BY DEF HasInv
<1>1. /\ messages # <<>> /\ messages[1].what \in HasKinds /\ hasInhibition' = messages[1].value
      /\ UNCHANGED <<calls, running, agent>> /\ messages' = Tail(messages)
      /\ messages[1].what \notin Names
  BY DEF onHasInhibitionChanged, read, others, HasKinds, Names
<1>2. messages \in Seq(MessageType) /\ Tail(messages) \in Seq(MessageType)
  BY <1>1, HeadTyped DEF ManualTypeOK
<1>3. Active' = Active
  BY <1>1 DEF Active, agent
<1>4. HasRight' = HasRight
  BY <1>3 DEF HasRight
<1>5. Informed
  BY <1>1, <1>2, WithoutTail DEF Informed
<1>6. CASE Ends(messages, HasKinds, HasRight)
  <2>1. CASE Ends(Tail(messages), HasKinds, HasRight)
    BY <1>1, <1>4, <2>1
  <2>2. CASE messages[1] \in HasRight /\ Without(Tail(messages), HasKinds)
    <3>1. messages[1].value = (Active # {})
      BY <2>2 DEF HasRight
    <3> QED BY <1>1, <1>3, <2>2, <3>1
  <2> QED BY <1>1, <1>2, <1>6, <2>1, <2>2, EndsTail
<1>7. ~Without(messages, HasKinds)
  BY <1>1, <1>2, WithoutTail
<1> QED BY <1>1, <1>5, <1>6, <1>7 DEF HasInv

-----------------------------------------------------------------------------
(* The list                                                                *)

Gets == {"Get"}
Changes == {"PropertiesChanged"}
ListKinds == {"Inhibitions"}
ListRight == [what : ListKinds, list : {Listed}]

\* The list has been asked for, or will be once a signal has been read, or was
\* asked for too early; or the last that is under way is so, or it has been read.
ListInv ==
    Informed =>
        \/ ~Without(calls, Gets)
        \/ ~Without(messages, Changes)
        \/ missed
        \/ Ends(messages, ListKinds, ListRight)
        \/ Without(messages, ListKinds) /\ requestedInhibitions = Listed

LEMMA ListedKept ==
    ASSUME requested' = requested, Active' = Active
    PROVE  Listed' = Listed
BY DEF Listed

LEMMA ListInvKept ==
    ASSUME ManualTypeOK, NameInv, ListInv, NEW added \in Seq(MessageType),
           Without(added, ListKinds), messages' = messages \o added,
           UNCHANGED <<running, requestedInhibitions, missed>>, Listed' = Listed,
           Without(calls', Gets) => Without(calls, Gets)
    PROVE  ListInv'
<1> SUFFICES ASSUME Informed'
             PROVE  \/ ~Without(calls', Gets) \/ ~Without(messages', Changes) \/ missed'
                    \/ Ends(messages', ListKinds, ListRight')
                    \/ Without(messages', ListKinds) /\ requestedInhibitions' = Listed'
  BY DEF ListInv
<1>1. Informed
  BY InformedKept
<1>2. messages \in Seq(MessageType)
  BY DEF ManualTypeOK
<1>3. ListRight' = ListRight
  BY DEF ListRight
<1>4. Ends(messages, ListKinds, ListRight) => Ends(messages', ListKinds, ListRight')
  BY <1>2, <1>3, EndsConcat
<1>5. Without(messages, ListKinds) => Without(messages', ListKinds)
  BY <1>2, WithoutConcat
<1>6. Without(messages', Changes) => Without(messages, Changes)
  BY <1>2, WithoutConcat
<1> QED BY <1>1, <1>4, <1>5, <1>6 DEF ListInv

\* Something is added that will do: a signal, or the list as it is.
LEMMA ListInvTold ==
    ASSUME ManualTypeOK, NEW added \in Seq(MessageType), messages' = messages \o added,
           ~Without(added, Changes) \/ Ends(added, ListKinds, ListRight')
    PROVE  ListInv'
<1>1. messages \in Seq(MessageType)
  BY DEF ManualTypeOK
<1>2. ~Without(messages', Changes) \/ Ends(messages', ListKinds, ListRight')
  BY <1>1, EndsConcat, WithoutConcat
<1> QED BY <1>2 DEF ListInv

LEMMA ListInvSame ==
    ASSUME ListInv, UNCHANGED <<running, messages, requestedInhibitions, missed, agent>>,
           Without(calls', Gets) => Without(calls, Gets)
    PROVE  ListInv'
<1>1. Listed' = Listed
  BY DEF Active, agent, Listed
<1>2. ListRight' = ListRight
  BY <1>1 DEF ListRight
<1> QED BY <1>1, <1>2 DEF ListInv, Informed

LEMMA ListInvReads ==
    ASSUME ManualTypeOK, NameInv, ListInv, NEW added \in Seq(MessageType),
           Without(added, ListKinds), messages # <<>>, messages[1].what \notin Names,
           messages[1].what \notin ListKinds, messages[1].what \notin Changes,
           messages' = Tail(messages) \o added,
           UNCHANGED <<running, requestedInhibitions, missed, agent, calls>>
    PROVE  ListInv'
<1> SUFFICES ASSUME Informed'
             PROVE  \/ ~Without(calls', Gets) \/ ~Without(messages', Changes) \/ missed'
                    \/ Ends(messages', ListKinds, ListRight')
                    \/ Without(messages', ListKinds) /\ requestedInhibitions' = Listed'
  BY DEF ListInv
<1>1. Informed
  BY InformedReads
<1>2. messages \in Seq(MessageType) /\ Tail(messages) \in Seq(MessageType)
  BY HeadTyped DEF ManualTypeOK
<1>3. Listed' = Listed
  BY DEF Active, agent, Listed
<1>4. ListRight' = ListRight
  BY <1>3 DEF ListRight
<1>5. Ends(messages, ListKinds, ListRight) => Ends(Tail(messages), ListKinds, ListRight)
  BY <1>2, EndsTail
<1>6. Ends(Tail(messages), ListKinds, ListRight) => Ends(messages', ListKinds, ListRight')
  BY <1>2, <1>4, EndsConcat
<1>7. Without(messages, ListKinds) => Without(Tail(messages), ListKinds)
  BY <1>2, WithoutTail
<1>8. Without(Tail(messages), ListKinds) => Without(messages', ListKinds)
  BY <1>2, WithoutConcat
<1>9. Without(messages', Changes) => Without(Tail(messages), Changes)
  BY <1>2, WithoutConcat
<1>10. Without(Tail(messages), Changes) => Without(messages, Changes)
  BY <1>2, WithoutTail
<1> QED BY <1>1, <1>3, <1>5, <1>6, <1>7, <1>8, <1>9, <1>10 DEF ListInv

LEMMA ListInvSignals ==
    ASSUME ManualTypeOK, NameInv, ListInv,
           (\E inhibition \in pending : Enforce(inhibition)) \/ Application \/ ForceUnInhibitAll
    PROVE  ListInv'
<1>1. /\ messages' = messages \o Sent(Signals) /\ Sent(Signals) \in Seq(MessageType)
      /\ UNCHANGED <<running, requestedInhibitions, missed, calls>> /\ Active' \in SUBSET Entry
      /\ Without(Sent(Signals), ListKinds)
  BY AgentParts, ActiveTyped DEF bystanders, control, ListKinds
<1>2. CASE requested' = requested /\ Active' = Active
  BY <1>1, <1>2, ListedKept, ListInvKept
<1>3. CASE requested' # requested \/ Active' # Active
  <2>1. CASE ~Informed'
    BY <2>1 DEF ListInv
  <2>2. CASE Informed'
    <3>1. registered
      BY <1>1, <2>2, InformedKept
    <3>2. ~Without(Sent(Signals), Changes)
      BY <1>1, <1>3, <3>1, SignalsTell DEF Changes
    <3> QED BY <1>1, <3>2, ListInvTold
  <2> QED BY <2>1, <2>2
<1> QED BY <1>2, <1>3

LEMMA ListInvServe == ASSUME ManualTypeOK, NameInv, ListInv, Serve PROVE ListInv'
<1> DEFINE added == Sent(Signals) \o Answer(calls[1])
<1>1. /\ added \in Seq(MessageType) /\ messages' = messages \o added
      /\ Sent(Signals) \in Seq(MessageType) /\ Answer(calls[1]) \in Seq(MessageType)
  BY ServeAdds
<1>2. /\ UNCHANGED <<running, requestedInhibitions>> /\ calls # <<>> /\ calls' = Tail(calls)
      /\ calls[1] \in CallType /\ lastCookie' \in Nat /\ Active' \in SUBSET Entry
      /\ calls \in Seq(CallType)
      /\ missed' = IF calls[1].what = "Get" THEN ~exported ELSE missed
  BY ServeParts, ActiveTyped DEF control, ManualTypeOK
<1>3. CASE calls[1].what = "Get" /\ ~exported
  BY <1>2, <1>3 DEF ListInv
<1>4. CASE calls[1].what = "Get" /\ exported
  <2>1. UNCHANGED agent
    BY <1>4, ServeParts
  <2>2. Listed' = Listed
    BY <2>1 DEF Active, agent, Listed
  <2>3. Ends(Answer(calls[1]), ListKinds, ListRight')
    BY <1>2, <1>4, <2>2, AnswerParts DEF ListRight, ListKinds
  <2>4. Ends(added, ListKinds, ListRight')
    BY <1>1, <2>3, EndsConcat
  <2> HIDE DEF added
  <2> QED BY <1>1, <2>4, ListInvTold
<1>5. CASE calls[1].what # "Get"
  <2>1. Without(Answer(calls[1]), ListKinds)
    BY <1>2, <1>5, AnswerParts DEF ListKinds
  <2>2. (Without(calls', Gets) => Without(calls, Gets)) /\ missed' = missed
    BY <1>2, <1>5, WithoutTail DEF Gets
  <2>3. CASE requested' = requested /\ Active' = Active
    <3>1. Without(Sent(Signals), ListKinds)
      BY <1>2, SignalsTell DEF ListKinds
    <3>2. Without(added, ListKinds)
      BY <1>1, <2>1, <3>1, WithoutConcat
    <3>3. Listed' = Listed
      BY <2>3, ListedKept
    <3> HIDE DEF added
    <3> QED BY <1>1, <1>2, <2>2, <3>2, <3>3, ListInvKept
  <2>4. CASE requested' # requested \/ Active' # Active
    <3>1. CASE ~Informed'
      BY <3>1 DEF ListInv
    <3>2. CASE Informed'
      <4>1. registered
        <5> HIDE DEF added
        <5> QED BY <1>1, <1>2, <3>2, InformedKept
      <4>2. ~Without(Sent(Signals), Changes)
        BY <1>2, <2>4, <4>1, SignalsTell DEF Changes
      <4>3. ~Without(added, Changes)
        BY <1>1, <4>2, WithoutConcat
      <4> HIDE DEF added
      <4> QED BY <1>1, <4>3, ListInvTold
    <3> QED BY <3>1, <3>2
  <2> QED BY <2>3, <2>4
<1> QED BY <1>3, <1>4, <1>5

LEMMA ListInvCalls ==
    ASSUME ManualTypeOK, ListInv, NEW asked \in Seq(CallType), Call(asked),
           UNCHANGED <<running, requestedInhibitions, missed, agent>>
    PROVE  ListInv'
<1>1. CASE ~Informed'
  BY <1>1 DEF ListInv
<1>2. CASE Informed'
  <2>1. messages' = messages /\ (Without(calls', Gets) => Without(calls, Gets))
    BY <1>2, CallsKept
  <2> QED BY <2>1, ListInvSame
<1> QED BY <1>1, <1>2

LEMMA ListInvWorld ==
    ASSUME ManualTypeOK, ListInv, Toggle \/ ScreenSaver \/ Export
                                    \/ \E allowed \in BOOLEAN : setInhibitionAllowed(allowed)
    PROVE  ListInv'
<1>1. CASE Toggle
  <2>1. UNCHANGED <<running, requestedInhibitions, missed, agent>>
        /\ (UNCHANGED <<calls, messages>> \/ \E asked \in Seq(CallType) : Call(asked))
    BY <1>1, ToggleParts
  <2> QED BY <2>1, ListInvSame, ListInvCalls
<1>2. CASE ScreenSaver
  BY <1>2, ListInvSame DEF ScreenSaver, control
<1>3. CASE Export
  BY <1>3, ListInvSame DEF Export, control
<1>4. ASSUME NEW allowed \in BOOLEAN, setInhibitionAllowed(allowed) PROVE ListInv'
  <2>1. <<[what |-> "SetInhibitionAllowed", allowed |-> allowed]>> \in Seq(CallType)
    BY Members, AppendTyped
  <2>2. Call(<<[what |-> "SetInhibitionAllowed", allowed |-> allowed]>>)
        /\ UNCHANGED <<running, requestedInhibitions, missed, agent>>
    BY <1>4 DEF setInhibitionAllowed, control
  <2> QED BY <2>1, <2>2, ListInvCalls
<1> QED BY <1>1, <1>2, <1>3, <1>4

\* onServiceRegistered and onPolicyAgentPropertiesChanged ask for the list.
LEMMA ListInvAsks ==
    ASSUME ManualTypeOK, onServiceRegistered \/ onPolicyAgentPropertiesChanged
    PROVE  ListInv'
<1>1. CASE ~running
  BY <1>1 DEF onServiceRegistered, onPolicyAgentPropertiesChanged, others, ListInv, Informed
<1>2. CASE running
  <2> DEFINE get == <<[what |-> "Get"]>>
  <2>1. /\ Asked \in Seq(CallType) /\ get \in Seq(CallType)
        /\ ~Without(Asked, Gets) /\ ~Without(get, Gets)
    BY Members, AppendTyped DEF Asked, Without, Gets
  <2>2. calls' = calls \o Asked \/ calls' = calls \o get
    BY <1>2, RegisteredAsks, PropertiesAsk
  <2> HIDE DEF get
  <2>3. calls \in Seq(CallType)
    BY DEF ManualTypeOK
  <2>4. ~Without(calls \o Asked, Gets)
    BY <2>1, <2>3, WithoutConcat
  <2>5. ~Without(calls \o get, Gets)
    BY <2>1, <2>3, WithoutConcat
  <2> QED BY <2>2, <2>4, <2>5 DEF ListInv
<1> QED BY <1>1, <1>2

LEMMA ListInvOther ==
    ASSUME ManualTypeOK, NameInv, ListInv, onHasInhibitionChanged \/ SleepAnswered
    PROVE  ListInv'
<1>1. /\ messages # <<>> /\ messages[1].what \notin Names
      /\ UNCHANGED <<running, agent, missed>>
  BY ReadParts
<1>2. /\ messages[1].what \notin ListKinds /\ messages[1].what \notin Changes
      /\ UNCHANGED <<calls, requestedInhibitions>> /\ messages' = Tail(messages)
  BY DEF onHasInhibitionChanged, SleepAnswered, ListKinds, Changes, read
<1>3. <<>> \in Seq(MessageType) /\ Without(<<>>, ListKinds)
  BY DEF Without
<1>4. messages' = Tail(messages) \o <<>>
  BY <1>1, <1>2, HeadTyped
<1> QED BY <1>1, <1>2, <1>3, <1>4, ListInvReads

LEMMA ListInvRead == ASSUME ManualTypeOK, NameInv, ListInv, updatedInhibitions PROVE ListInv'
<1> SUFFICES ASSUME Informed'
             PROVE  \/ ~Without(calls', Gets) \/ ~Without(messages', Changes) \/ missed'
                    \/ Ends(messages', ListKinds, ListRight')
                    \/ Without(messages', ListKinds) /\ requestedInhibitions' = Listed'
  BY DEF ListInv
<1>1. /\ messages # <<>> /\ messages[1].what \in ListKinds
      /\ requestedInhibitions' = messages[1].list
      /\ UNCHANGED <<calls, running, agent, missed>> /\ messages' = Tail(messages)
      /\ messages[1].what \notin Names /\ messages[1].what \notin Changes
  BY DEF updatedInhibitions, read, others, ListKinds, Names, Changes
<1>2. messages \in Seq(MessageType) /\ Tail(messages) \in Seq(MessageType)
  BY <1>1, HeadTyped DEF ManualTypeOK
<1>3. Listed' = Listed
  BY <1>1 DEF Active, agent, Listed
<1>4. ListRight' = ListRight
  BY <1>3 DEF ListRight
<1>5. Informed
  BY <1>1, <1>2, WithoutTail DEF Informed
<1>6. CASE Ends(messages, ListKinds, ListRight)
  <2>1. CASE Ends(Tail(messages), ListKinds, ListRight)
    BY <1>1, <1>4, <2>1
  <2>2. CASE messages[1] \in ListRight /\ Without(Tail(messages), ListKinds)
    <3>1. messages[1].list = Listed
      BY <2>2 DEF ListRight
    <3> QED BY <1>1, <1>3, <2>2, <3>1
  <2> QED BY <1>1, <1>2, <1>6, <2>1, <2>2, EndsTail
<1>7. ~Without(messages, ListKinds)
  BY <1>1, <1>2, WithoutTail
<1>8. ~Without(messages, Changes) => ~Without(Tail(messages), Changes)
  BY <1>1, <1>2, WithoutTail
<1> QED BY <1>1, <1>5, <1>6, <1>7, <1>8 DEF ListInv

-----------------------------------------------------------------------------
(* The switch                                                              *)

Held == Cookies("plasmashell")

\* Nobody else has the cookie of an inhibition.
CookieInv ==
    \A i, j \in pending \union requested :
        /\ i.cookie <= lastCookie
        /\ i.cookie = j.cookie => i.who = j.who

\* Where beginSuppressingSleep and stopSuppressingSleep are: nothing is under way,
\* the call or its answer is.
SleepSettled ==
    /\ Without(calls, Asks) /\ Without(messages, Answers)
    /\ sleepInhibitionCookie = NoCookie => Held = {}
    /\ sleepInhibitionCookie # NoCookie => Held = {sleepInhibitionCookie}

SleepAsked ==
    /\ Once(calls, Asks, [what |-> "Inhibit"]) /\ Without(messages, Answers)
    /\ sleepInhibitionCookie = NoCookie /\ Held = {}

SleepGiven ==
    /\ Without(calls, Asks) /\ sleepInhibitionCookie = NoCookie
    /\ \E c \in Nat \ {NoCookie} :
          Held = {c} /\ Once(messages, Answers, [what |-> "Cookie", cookie |-> c])

SleepEnding ==
    /\ Once(calls, Asks, [what |-> "UnInhibit", cookie |-> sleepInhibitionCookie])
    /\ Without(messages, Answers)
    /\ sleepInhibitionCookie # NoCookie /\ Held = {sleepInhibitionCookie}

SleepEnded ==
    /\ Without(calls, Asks) /\ Once(messages, Answers, [what |-> "Released"])
    /\ sleepInhibitionCookie # NoCookie /\ Held = {}

\* The same for the screen saver.
LockSettled ==
    /\ lockCalls = <<>>
    /\ lockInhibitionCookie = NoCookie => locks = {}
    /\ lockInhibitionCookie # NoCookie => locks = {lockInhibitionCookie}

LockAsked ==
    /\ lockCalls = <<[what |-> "Inhibit"]>>
    /\ lockInhibitionCookie = NoCookie /\ locks = {}

LockEnding ==
    /\ lockCalls = <<[what |-> "UnInhibit", cookie |-> lockInhibitionCookie]>>
    /\ lockInhibitionCookie # NoCookie /\ locks = {lockInhibitionCookie}

SleepOn == SleepAsked \/ SleepGiven \/ (SleepSettled /\ sleepInhibitionCookie # NoCookie)
SleepOff == SleepEnding \/ SleepEnded \/ (SleepSettled /\ sleepInhibitionCookie = NoCookie)
LockOn == LockAsked \/ (LockSettled /\ lockInhibitionCookie # NoCookie)
LockOff == LockEnding \/ (LockSettled /\ lockInhibitionCookie = NoCookie)

Balanced == (SleepOn /\ LockOn) \/ (SleepOff /\ LockOff)

Off == /\ SleepSettled /\ LockSettled
       /\ sleepInhibitionCookie = NoCookie /\ lockInhibitionCookie = NoCookie

SwitchShown == registered => (isManuallyInhibited <=> sleepInhibitionCookie # NoCookie)

\* Both are on their way to the same, which the switch follows, and nothing is
\* held or asked for unless the daemon is there.
SwitchInv ==
    ~doubtful => Balanced /\ SwitchShown /\ (Off \/ (Informed /\ registered))

LEMMA OffIsBalanced == Off => Balanced
BY DEF Off, Balanced, SleepOff, LockOff

\* Nothing of these kinds has come or gone.
AsBefore(s, t, kinds) ==
    /\ Without(s, kinds) => Without(t, kinds)
    /\ \A m \in CallType \union MessageType :
          m.what \in kinds /\ Once(s, kinds, m) => Once(t, kinds, m)

LEMMA AsBeforeSame == ASSUME NEW s, NEW kinds PROVE AsBefore(s, s, kinds)
BY DEF AsBefore

LEMMA AsBeforeConcat ==
    ASSUME NEW M, NEW s \in Seq(M), NEW t \in Seq(M), NEW kinds, Without(t, kinds)
    PROVE  AsBefore(s, s \o t, kinds)
BY WithoutConcat, OnceConcat DEF AsBefore

LEMMA AsBeforeTail ==
    ASSUME NEW M, NEW s \in Seq(M), s # <<>>, NEW kinds, s[1].what \notin kinds
    PROVE  AsBefore(s, Tail(s), kinds)
BY WithoutTail, OnceTail DEF AsBefore

LEMMA AsBeforeTwice ==
    ASSUME NEW s, NEW t, NEW u, NEW kinds, AsBefore(s, t, kinds), AsBefore(t, u, kinds)
    PROVE  AsBefore(s, u, kinds)
BY DEF AsBefore

\* What neither the switch nor its answers are about leaves everything as it is.
LEMMA SwitchInvKept ==
    ASSUME ManualTypeOK, SwitchInv, AsBefore(calls, calls', Asks),
           AsBefore(messages, messages', Answers), Held' = Held,
           UNCHANGED <<doubtful, sleepInhibitionCookie, lockInhibitionCookie, locks, lockCalls,
                       isManuallyInhibited, registered>>,
           Informed => Informed'
    PROVE  SwitchInv'
<1> SUFFICES ASSUME ~doubtful'
             PROVE  Balanced' /\ SwitchShown' /\ (Off' \/ (Informed' /\ registered'))
  BY DEF SwitchInv
<1>0. Balanced /\ SwitchShown /\ (Off \/ (Informed /\ registered))
  BY DEF SwitchInv
<1>1. sleepInhibitionCookie \in Nat
  BY DEF ManualTypeOK
<1>2. SleepSettled => SleepSettled'
  BY DEF SleepSettled, AsBefore
<1>3. SleepAsked => SleepAsked'
  <2>1. [what |-> "Inhibit"] \in CallType /\ [what |-> "Inhibit"].what \in Asks
    BY Members DEF Asks
  <2> QED BY <2>1 DEF SleepAsked, AsBefore
<1>4. SleepGiven => SleepGiven'
  <2>1. \A c \in Nat : /\ [what |-> "Cookie", cookie |-> c] \in MessageType
                       /\ [what |-> "Cookie", cookie |-> c].what \in Answers
    BY Members DEF Answers
  <2> QED BY <2>1 DEF SleepGiven, AsBefore
<1>5. SleepEnding => SleepEnding'
  <2>1. /\ [what |-> "UnInhibit", cookie |-> sleepInhibitionCookie] \in CallType
        /\ [what |-> "UnInhibit", cookie |-> sleepInhibitionCookie].what \in Asks
    BY <1>1, Members DEF Asks
  <2> QED BY <2>1 DEF SleepEnding, AsBefore
<1>6. SleepEnded => SleepEnded'
  <2>1. [what |-> "Released"] \in MessageType /\ [what |-> "Released"].what \in Answers
    BY Members DEF Answers
  <2> QED BY <2>1 DEF SleepEnded, AsBefore
<1>7. (SleepOn => SleepOn') /\ (SleepOff => SleepOff')
  BY <1>2, <1>3, <1>4, <1>5, <1>6 DEF SleepOn, SleepOff
<1>8. (LockOn => LockOn') /\ (LockOff => LockOff') /\ (LockSettled => LockSettled')
  BY DEF LockOn, LockOff, LockSettled, LockAsked, LockEnding
<1>9. Balanced'
  BY <1>0, <1>7, <1>8 DEF Balanced
<1>10. SwitchShown'
  BY <1>0 DEF SwitchShown
<1>11. Off => Off'
  BY <1>2, <1>8 DEF Off
<1> QED BY <1>0, <1>9, <1>10, <1>11

LEMMA CookieInvStep == ManualTypeOK /\ CookieInv /\ [Next]_vars => CookieInv'
<1> SUFFICES ASSUME ManualTypeOK, CookieInv, [Next]_vars PROVE CookieInv'
  OBVIOUS
<1>1. ASSUME NEW who \in {"application", "plasmashell"}, Schedule(who) PROVE CookieInv'
  <2>1. /\ pending' \union requested'
             = (pending \union requested) \union {Inhibition(lastCookie + 1, who)}
        /\ lastCookie' = lastCookie + 1
    BY <1>1 DEF Schedule
  <2>2. \A i \in pending \union requested : i.cookie \in Nat /\ i.cookie <= lastCookie
    BY DEF CookieInv, ManualTypeOK, Entry
  <2>3. lastCookie \in Nat /\ Inhibition(lastCookie + 1, who).cookie = lastCookie + 1
    BY DEF ManualTypeOK, Inhibition
  <2>4. \A i \in pending \union requested : /\ i.cookie # Inhibition(lastCookie + 1, who).cookie
                                            /\ i.cookie <= lastCookie'
    BY <2>1, <2>2, <2>3
  <2> SUFFICES ASSUME NEW i \in pending' \union requested', NEW j \in pending' \union requested'
               PROVE  /\ i.cookie <= lastCookie'
                      /\ i.cookie = j.cookie => i.who = j.who
    BY DEF CookieInv
  <2> QED BY <2>1, <2>3, <2>4 DEF CookieInv
<1>2. ASSUME NEW cookies, Release(cookies) PROVE CookieInv'
  BY <1>2 DEF CookieInv, Release
<1>3. ASSUME NEW i \in pending, Enforce(i) PROVE CookieInv'
  <2>1. pending' \union requested' = pending \union requested /\ lastCookie' = lastCookie
    BY <1>3 DEF Enforce
  <2> QED BY <2>1 DEF CookieInv
<1>4. CASE Serve
  <2>1. CASE UNCHANGED <<lastCookie, pending, requested>>
    BY <2>1 DEF CookieInv
  <2> QED BY <1>1, <1>2, <1>4, <2>1, ServeParts DEF agent
<1>5. CASE DaemonEnds
  BY <1>5 DEF DaemonEnds, CookieInv
<1>6. CASE UNCHANGED agent
  BY <1>6 DEF agent, CookieInv
<1>7. DaemonStarts \/ Export \/ Plasmashell \/ Toggle \/ ScreenSaver
        \/ (\E allowed \in BOOLEAN : setInhibitionAllowed(allowed)) => UNCHANGED agent
  BY DEF DaemonStarts, Export, Plasmashell, Toggle, ScreenSaver, setInhibitionAllowed,
         onServiceRegistered, onServiceUnregistered, onPolicyAgentPropertiesChanged,
         onHasInhibitionChanged, updatedInhibitions, SleepAnswered, others
<1>8. CASE Application \/ ForceUnInhibitAll
  BY <1>1, <1>2, <1>8 DEF Application, ForceUnInhibitAll
<1>9. CASE UNCHANGED vars
  BY <1>6, <1>9 DEF vars
<1> QED BY <1>3, <1>4, <1>5, <1>6, <1>7, <1>8, <1>9 DEF Next, Daemon, World

\* What is scheduled and released, and for whom.
LEMMA HeldSteps ==
    ASSUME ManualTypeOK, CookieInv
    PROVE  /\ Schedule("application") => Held' = Held
           /\ Schedule("plasmashell") => Held' = Held \union {lastCookie + 1}
           /\ \A c : Release({c}) => Held' = Held \ {c}
           /\ Release(Cookies("application")) => Held' = Held
           /\ Release(Cookies("application") \union Cookies("plasmashell")) => Held' = {}
           /\ \A i \in pending : Enforce(i) => Held' = Held
           /\ UNCHANGED <<pending, requested>> => Held' = Held
<1>1. ASSUME Schedule("application") PROVE Held' = Held
  BY <1>1 DEF Schedule, Held, Cookies, Inhibition
<1>2. ASSUME Schedule("plasmashell") PROVE Held' = Held \union {lastCookie + 1}
  <2> DEFINE new == Inhibition(lastCookie + 1, "plasmashell")
  <2>1. /\ pending' \union requested' = (pending \union requested) \union {new}
        /\ new.who = "plasmashell" /\ new.cookie = lastCookie + 1
    BY <1>2 DEF Schedule, Inhibition
  <2> HIDE DEF new
  <2> QED BY <2>1 DEF Held, Cookies
<1>3. ASSUME NEW c, Release({c}) PROVE Held' = Held \ {c}
  BY <1>3 DEF Release, Held, Cookies
<1>4. ASSUME Release(Cookies("application")) PROVE Held' = Held
  <2>1. \A i \in pending \union requested :
           i.who = "plasmashell" => i.cookie \notin Cookies("application")
    BY DEF Cookies, CookieInv
  <2> QED BY <1>4, <2>1 DEF Release, Held, Cookies
<1>5. ASSUME Release(Cookies("application") \union Cookies("plasmashell")) PROVE Held' = {}
  BY <1>5 DEF Release, Held, Cookies
<1>6. ASSUME NEW i \in pending, Enforce(i) PROVE Held' = Held
  <2>1. pending' \union requested' = pending \union requested
    BY <1>6 DEF Enforce
  <2> QED BY <2>1 DEF Held, Cookies
<1>7. ASSUME UNCHANGED <<pending, requested>> PROVE Held' = Held
  BY <1>7 DEF Held, Cookies
<1> QED BY <1>1, <1>2, <1>3, <1>4, <1>5, <1>6, <1>7

LEMMA SwitchSignals ==
    ASSUME ManualTypeOK, NameInv, CookieInv, SwitchInv,
           (\E inhibition \in pending : Enforce(inhibition)) \/ Application
    PROVE  SwitchInv'
<1>1. /\ messages' = messages \o Sent(Signals) /\ Sent(Signals) \in Seq(MessageType)
      /\ Without(Sent(Signals), Names) /\ Without(Sent(Signals), Answers)
      /\ UNCHANGED bystanders
  BY AgentParts
<1>2. /\ UNCHANGED <<running, calls, sleepInhibitionCookie, lockInhibitionCookie, locks, lockCalls,
                     isManuallyInhibited, registered>>
      /\ messages \in Seq(MessageType)
  BY <1>1 DEF bystanders, saver, monitor, control, ManualTypeOK
<1>3. doubtful' = doubtful
  BY DEF Enforce, Application
<1>4. Held' = Held
  BY HeldSteps DEF Application
<1>5. AsBefore(calls, calls', Asks)
  BY <1>2, AsBeforeSame
<1>6. AsBefore(messages, messages', Answers)
  BY <1>1, <1>2, AsBeforeConcat
<1>7. Informed => Informed'
  BY <1>1, <1>2, WithoutConcat DEF Informed
<1> QED BY <1>2, <1>3, <1>4, <1>5, <1>6, <1>7, SwitchInvKept

LEMMA QuietIsSettled ==
    ASSUME Quiet
    PROVE  /\ SleepOn => SleepSettled /\ sleepInhibitionCookie # NoCookie
           /\ SleepOff => SleepSettled /\ sleepInhibitionCookie = NoCookie
           /\ LockOn => LockSettled /\ lockInhibitionCookie # NoCookie
           /\ LockOff => LockSettled /\ lockInhibitionCookie = NoCookie
<1>1. \A kinds, m : ~Once(<<>>, kinds, m)
  BY DEF Once
<1>2. ~SleepAsked /\ ~SleepGiven /\ ~SleepEnding /\ ~SleepEnded
  BY <1>1 DEF Quiet, SleepAsked, SleepGiven, SleepEnding, SleepEnded
<1>3. ~LockAsked /\ ~LockEnding
  BY DEF Quiet, LockAsked, LockEnding
<1> QED BY <1>2, <1>3 DEF SleepOn, SleepOff, LockOn, LockOff

LEMMA SwitchForced ==
    ASSUME ManualTypeOK, NameInv, CookieInv, SwitchInv, ForceUnInhibitAll
    PROVE  SwitchInv'
<1> SUFFICES ASSUME ~doubtful'
             PROVE  Balanced' /\ SwitchShown' /\ (Off' \/ (Informed' /\ registered'))
  BY DEF SwitchInv
<1>1. ~doubtful /\ Quiet /\ ~isManuallyInhibited
  BY DEF ForceUnInhibitAll
<1>2. /\ messages' = messages \o Sent(Signals) /\ Sent(Signals) \in Seq(MessageType)
      /\ Without(Sent(Signals), Names) /\ Without(Sent(Signals), Answers)
      /\ UNCHANGED bystanders
  BY AgentParts
<1>3. UNCHANGED <<running, calls, sleepInhibitionCookie, lockInhibitionCookie, locks, lockCalls,
                  isManuallyInhibited, registered>>
  BY <1>2 DEF bystanders, saver, monitor, control
<1>4. messages = <<>> /\ calls = <<>> /\ messages' = Sent(Signals)
  BY <1>1, <1>2 DEF Quiet
<1>5. Balanced /\ SwitchShown /\ (Off \/ (Informed /\ registered))
  BY <1>1 DEF SwitchInv
<1>6. sleepInhibitionCookie = NoCookie
  BY <1>1, <1>5 DEF SwitchShown, Off
<1>7. LockSettled /\ lockInhibitionCookie = NoCookie
  BY <1>1, <1>5, <1>6, QuietIsSettled DEF Balanced
<1>8. Held' = {}
  BY HeldSteps DEF ForceUnInhibitAll
<1>9. Without(calls', Asks)
  BY <1>3, <1>4 DEF Without
<1>10. SleepSettled'
  BY <1>2, <1>3, <1>4, <1>6, <1>8, <1>9 DEF SleepSettled
<1>11. LockSettled'
  BY <1>3, <1>7 DEF LockSettled
<1>12. Off'
  BY <1>3, <1>6, <1>7, <1>10, <1>11 DEF Off
<1>13. Balanced'
  BY <1>3, <1>6, <1>7, <1>10, <1>11 DEF Balanced, SleepOff, LockOff
<1>14. SwitchShown'
  BY <1>3, <1>5 DEF SwitchShown
<1> QED BY <1>12, <1>13, <1>14

LEMMA SwitchDaemonEnds ==
    ASSUME ManualTypeOK, SwitchInv, DaemonEnds PROVE SwitchInv'
<1> SUFFICES ASSUME ~doubtful'
             PROVE  Balanced' /\ SwitchShown' /\ (Off' \/ (Informed' /\ registered'))
  BY DEF SwitchInv
<1>1. /\ ~doubtful /\ Quiet
      /\ sleepInhibitionCookie = NoCookie /\ lockInhibitionCookie = NoCookie
  BY DEF DaemonEnds
<1>2. /\ calls' = <<>> /\ pending' = {} /\ requested' = {}
      /\ UNCHANGED <<lockCalls, locks, sleepInhibitionCookie, lockInhibitionCookie,
                     isManuallyInhibited, registered>>
  BY DEF DaemonEnds, saver, monitor, control
<1> DEFINE gone == <<[what |-> "Unregistered"]>>
<1>3. /\ messages' = (messages \o gone) \o Errors(Len(calls)) /\ messages \in Seq(MessageType)
      /\ gone \in Seq(MessageType) /\ Len(calls) \in Nat /\ messages = <<>>
      /\ Without(gone, Answers)
  BY <1>1, Members DEF DaemonEnds, Errors, ManualTypeOK, Quiet, Without, Answers
<1> HIDE DEF gone
<1>4. Errors(Len(calls)) \in Seq(MessageType) /\ Without(Errors(Len(calls)), Answers)
  BY <1>3, ErrorsOnly DEF Answers
<1>5. messages \o gone \in Seq(MessageType) /\ Without(messages \o gone, Answers)
  BY <1>3
<1>6. Without(messages', Answers)
  BY <1>3, <1>4, <1>5, WithoutConcat
<1>7. Without(calls', Asks) /\ Held' = {}
  BY <1>2 DEF Without, Held, Cookies
<1>8. SleepSettled'
  BY <1>1, <1>2, <1>6, <1>7 DEF SleepSettled
<1>9. Balanced /\ SwitchShown
  BY <1>1 DEF SwitchInv
<1>10. LockSettled
  BY <1>1, <1>9, QuietIsSettled DEF Balanced
<1>11. LockSettled'
  BY <1>2, <1>10 DEF LockSettled
<1>12. Off'
  BY <1>1, <1>2, <1>8, <1>11 DEF Off
<1>13. Balanced'
  BY <1>1, <1>2, <1>8, <1>11 DEF Balanced, SleepOff, LockOff
<1>14. SwitchShown'
  BY <1>2, <1>9 DEF SwitchShown
<1> QED BY <1>12, <1>13, <1>14

\* Other calls than the switch's.
LEMMA SwitchServeOther ==
    ASSUME ManualTypeOK, NameInv, CookieInv, SwitchInv, Serve, calls[1].what \notin Asks
    PROVE  SwitchInv'
<1> DEFINE added == Sent(Signals) \o Answer(calls[1])
<1>1. /\ added \in Seq(MessageType) /\ messages' = messages \o added /\ Without(added, Names)
      /\ Sent(Signals) \in Seq(MessageType) /\ Answer(calls[1]) \in Seq(MessageType)
  BY ServeAdds
<1>2. /\ calls # <<>> /\ calls' = Tail(calls) /\ calls \in Seq(CallType)
      /\ calls[1] \in CallType /\ lastCookie' \in Nat /\ Active' \in SUBSET Entry
      /\ UNCHANGED <<running, sleepInhibitionCookie, lockInhibitionCookie, locks, lockCalls,
                     isManuallyInhibited, registered, doubtful>>
      /\ messages \in Seq(MessageType)
  BY ServeParts, ActiveTyped DEF saver, monitor, control, ManualTypeOK
<1>3. UNCHANGED <<pending, requested>>
  BY ServeParts DEF Asks, agent
<1>4. Held' = Held
  BY <1>3, HeldSteps
<1>5. AsBefore(calls, calls', Asks)
  BY <1>2, AsBeforeTail
<1>6. Without(Answer(calls[1]), Answers)
  BY <1>2, AnswerParts
<1>7. Without(Sent(Signals), Answers)
  BY <1>2, SignalsTell
<1>8. Without(added, Answers)
  BY <1>1, <1>6, <1>7, WithoutConcat
<1> HIDE DEF added
<1>9. AsBefore(messages, messages', Answers)
  BY <1>1, <1>2, <1>8, AsBeforeConcat
<1>10. Informed => Informed'
  BY <1>1, <1>2, WithoutConcat DEF Informed
<1> QED BY <1>2, <1>4, <1>5, <1>9, <1>10, SwitchInvKept

\* What serving one of the switch's calls leaves of the rest.
LEMMA SwitchServed ==
    ASSUME ManualTypeOK, NameInv, SwitchInv, ~doubtful, Serve, calls[1].what \in Asks
    PROVE  /\ Balanced /\ SwitchShown /\ ~Off /\ Informed /\ registered
           /\ Informed' /\ registered' /\ SwitchShown'
           /\ (LockOn => LockOn') /\ (LockOff => LockOff')
           /\ calls # <<>> /\ calls' = Tail(calls) /\ calls \in Seq(CallType)
           /\ calls[1] \in CallType
           /\ sleepInhibitionCookie' = sleepInhibitionCookie
           /\ \A m : Without(messages, Answers) /\ Once(Answer(calls[1]), Answers, m)
                       => Once(messages', Answers, m)
<1> DEFINE added == Sent(Signals) \o Answer(calls[1])
<1>1. /\ added \in Seq(MessageType) /\ messages' = messages \o added /\ Without(added, Names)
      /\ Sent(Signals) \in Seq(MessageType) /\ Answer(calls[1]) \in Seq(MessageType)
  BY ServeAdds
<1>2. /\ calls # <<>> /\ calls' = Tail(calls) /\ calls \in Seq(CallType)
      /\ calls[1] \in CallType /\ Active' \in SUBSET Entry
      /\ UNCHANGED <<running, sleepInhibitionCookie, lockInhibitionCookie, locks, lockCalls,
                     isManuallyInhibited, registered>>
      /\ messages \in Seq(MessageType)
  BY ServeParts, ActiveTyped DEF saver, monitor, control, ManualTypeOK
<1>3. Balanced /\ SwitchShown /\ (Off \/ (Informed /\ registered))
  BY DEF SwitchInv
<1>4. ~Off
  BY <1>2, WithoutTail DEF Off, SleepSettled
<1>5. Without(Sent(Signals), Answers)
  BY <1>2, SignalsTell
<1>6. ASSUME NEW m, Without(messages, Answers), Once(Answer(calls[1]), Answers, m)
      PROVE  Once(messages', Answers, m)
  <2>1. Once(added, Answers, m)
    BY <1>1, <1>5, <1>6, OnceConcat
  <2> HIDE DEF added
  <2> QED BY <1>1, <1>2, <1>6, <2>1, OnceConcat
<1> HIDE DEF added
<1>7. Informed'
  BY <1>1, <1>2, <1>3, <1>4, WithoutConcat DEF Informed
<1>8. SwitchShown'
  BY <1>2, <1>3 DEF SwitchShown
<1>9. (LockOn => LockOn') /\ (LockOff => LockOff')
  BY <1>2 DEF LockOn, LockOff, LockSettled, LockAsked, LockEnding
<1> QED BY <1>2, <1>3, <1>4, <1>6, <1>7, <1>8, <1>9

LEMMA SwitchServe ==
    ASSUME ManualTypeOK, NameInv, CookieInv, SwitchInv, Serve, calls[1].what \in Asks
    PROVE  SwitchInv'
<1>0. doubtful' = doubtful /\ lastCookie' \in Nat
  BY ServeParts
<1> SUFFICES ASSUME ~doubtful
             PROVE  Balanced' /\ SwitchShown' /\ (Off' \/ (Informed' /\ registered'))
  BY <1>0 DEF SwitchInv
<1>1. /\ Balanced /\ SwitchShown /\ ~Off /\ Informed /\ registered
      /\ Informed' /\ registered' /\ SwitchShown'
      /\ (LockOn => LockOn') /\ (LockOff => LockOff')
      /\ calls # <<>> /\ calls' = Tail(calls) /\ calls \in Seq(CallType)
      /\ calls[1] \in CallType
      /\ sleepInhibitionCookie' = sleepInhibitionCookie
      /\ \A m : Without(messages, Answers) /\ Once(Answer(calls[1]), Answers, m)
                  => Once(messages', Answers, m)
  BY SwitchServed
<1>2. ~Without(calls, Asks)
  BY <1>1, WithoutTail
<1>3. (SleepOn => SleepAsked) /\ (SleepOff => SleepEnding)
  BY <1>2 DEF SleepOn, SleepOff, SleepSettled, SleepGiven, SleepEnded
<1>4. [what |-> "Inhibit"].what \in Asks
      /\ [what |-> "UnInhibit", cookie |-> sleepInhibitionCookie].what \in Asks
  BY DEF Asks
<1>5. CASE SleepOn /\ LockOn
  <2>1. SleepAsked
    BY <1>3, <1>5
  <2>2. calls[1] = [what |-> "Inhibit"] /\ Without(calls', Asks)
    BY <1>1, <1>4, <2>1, OnceTail DEF SleepAsked
  <2>3. calls[1].what = "Inhibit"
    BY <2>2
  <2>4. Schedule("plasmashell")
    BY <2>3, ServeParts
  <2>5. lastCookie' = lastCookie + 1 /\ lastCookie \in Nat
    BY <2>4 DEF Schedule, ManualTypeOK
  <2>6. Held' = {lastCookie'}
    BY <2>1, <2>4, <2>5, HeldSteps DEF SleepAsked
  <2>7. Once(Answer(calls[1]), Answers, [what |-> "Cookie", cookie |-> lastCookie'])
    BY <1>0, <1>1, <2>3, AnswerParts
  <2>8. Once(messages', Answers, [what |-> "Cookie", cookie |-> lastCookie'])
    BY <1>1, <2>1, <2>7 DEF SleepAsked
  <2>9. lastCookie' \in Nat \ {NoCookie}
    BY <2>5 DEF NoCookie
  <2>10. SleepGiven'
    BY <1>1, <2>1, <2>2, <2>6, <2>8, <2>9 DEF SleepGiven, SleepAsked
  <2> QED BY <1>1, <1>5, <2>10 DEF Balanced, SleepOn
<1>6. CASE SleepOff /\ LockOff
  <2>1. SleepEnding
    BY <1>3, <1>6
  <2>2. calls[1] = [what |-> "UnInhibit", cookie |-> sleepInhibitionCookie]
        /\ Without(calls', Asks)
    BY <1>1, <1>4, <2>1, OnceTail DEF SleepEnding
  <2>3. calls[1].what = "UnInhibit" /\ calls[1].cookie = sleepInhibitionCookie
    BY <2>2
  <2>4. Release({sleepInhibitionCookie})
    BY <2>3, ServeParts
  <2>5. Held' = {}
    BY <2>1, <2>4, HeldSteps DEF SleepEnding
  <2>6. Once(Answer(calls[1]), Answers, [what |-> "Released"])
    BY <1>0, <1>1, <2>3, AnswerParts
  <2>7. Once(messages', Answers, [what |-> "Released"])
    BY <1>1, <2>1, <2>6 DEF SleepEnding
  <2>8. SleepEnded'
    BY <1>1, <2>1, <2>2, <2>5, <2>7 DEF SleepEnded, SleepEnding
  <2> QED BY <1>1, <1>6, <2>8 DEF Balanced, SleepOff
<1> QED BY <1>1, <1>5, <1>6 DEF Balanced

LEMMA SwitchToggle ==
    ASSUME ManualTypeOK, NameInv, SwitchInv, Toggle PROVE SwitchInv'
<1> SUFFICES ASSUME ~doubtful'
             PROVE  Balanced' /\ SwitchShown' /\ (Off' \/ (Informed' /\ registered'))
  BY DEF SwitchInv
<1>1. ~doubtful /\ Quiet /\ registered
  BY DEF Toggle
<1>2. /\ UNCHANGED <<running, pending, requested, locks, sleepInhibitionCookie,
                     lockInhibitionCookie, registered>>
      /\ calls = <<>> /\ messages = <<>> /\ lockCalls = <<>>
  BY <1>1 DEF Toggle, agent, saver, monitor, Quiet
<1>3. Balanced /\ SwitchShown
  BY <1>1 DEF SwitchInv
<1>4. running
  <2>1. Without(messages, Names)
    BY <1>2 DEF Without
  <2> QED BY <1>1, <2>1, EndsIsThere DEF NameInv
<1>5. Held' = Held
  BY <1>2 DEF Held, Cookies
<1>6. Without(<<>>, Answers) /\ Without(<<>>, Asks) /\ Without(<<>>, Names)
  BY DEF Without
<1>7. CASE isManuallyInhibited
  <2>1. sleepInhibitionCookie # NoCookie
    BY <1>1, <1>3, <1>7 DEF SwitchShown
  <2>2. SleepSettled /\ LockSettled /\ lockInhibitionCookie # NoCookie
    BY <1>1, <1>3, <2>1, QuietIsSettled DEF Balanced
  <2> DEFINE m == [what |-> "UnInhibit", cookie |-> sleepInhibitionCookie]
             l == [what |-> "UnInhibit", cookie |-> lockInhibitionCookie]
  <2>3. /\ stopSuppressingSleep /\ stopSuppressingScreenPowerManagement
    BY <1>7 DEF Toggle
  <2>4. Call(<<m>>) /\ isManuallyInhibited' = isManuallyInhibited
    BY <2>1, <2>3 DEF stopSuppressingSleep
  <2>5. lockCalls' = Append(lockCalls, l)
    BY <2>2, <2>3 DEF stopSuppressingScreenPowerManagement
  <2>6. m.what \in Asks
    BY DEF Asks
  <2>7. m \in CallType
    BY Members DEF ManualTypeOK
  <2> HIDE DEF m
  <2>8. calls' = <<m>> /\ messages' = <<>>
    <3>1. calls' = <<>> \o <<m>> /\ messages' = <<>>
      BY <1>2, <1>4, <2>4 DEF Call
    <3> QED BY <3>1
  <2>9. Once(calls', Asks, m)
    BY <2>8 DEF Once
  <2>10. SleepEnding'
    BY <1>2, <1>5, <1>6, <2>1, <2>2, <2>8, <2>9 DEF SleepEnding, SleepSettled, m
  <2> HIDE DEF l
  <2>11. lockCalls' = <<l>>
    BY <1>2, <2>5
  <2>12. LockEnding'
    BY <1>2, <2>2, <2>11 DEF LockEnding, LockSettled, l
  <2>13. Balanced'
    BY <2>10, <2>12 DEF Balanced, SleepOff, LockOff
  <2>14. SwitchShown'
    BY <1>2, <1>7, <2>1, <2>4 DEF SwitchShown
  <2> QED BY <1>1, <1>2, <1>4, <1>6, <2>8, <2>13, <2>14 DEF Informed
<1>8. CASE ~isManuallyInhibited
  <2>1. sleepInhibitionCookie = NoCookie
    BY <1>1, <1>3, <1>8 DEF SwitchShown
  <2>2. SleepSettled /\ LockSettled /\ lockInhibitionCookie = NoCookie
    BY <1>1, <1>3, <2>1, QuietIsSettled DEF Balanced
  <2> DEFINE m == [what |-> "Inhibit"]
  <2>3. beginSuppressingSleep /\ beginSuppressingScreenPowerManagement
    BY <1>8 DEF Toggle
  <2>4. Call(<<m>>) /\ isManuallyInhibited' = isManuallyInhibited
    BY <2>1, <2>3 DEF beginSuppressingSleep
  <2>5. lockCalls' = Append(lockCalls, m)
    BY <2>2, <2>3 DEF beginSuppressingScreenPowerManagement
  <2>6. m.what \in Asks
    BY DEF Asks
  <2> HIDE DEF m
  <2>7. calls' = <<m>> /\ messages' = <<>>
    <3>1. calls' = <<>> \o <<m>> /\ messages' = <<>>
      BY <1>2, <1>4, <2>4 DEF Call
    <3> QED BY <3>1
  <2>8. Once(calls', Asks, m)
    BY <2>7 DEF Once
  <2>9. SleepAsked'
    BY <1>2, <1>5, <1>6, <2>1, <2>2, <2>7, <2>8 DEF SleepAsked, SleepSettled, m
  <2>10. lockCalls' = <<m>>
    BY <1>2, <2>5
  <2>11. LockAsked'
    BY <1>2, <2>2, <2>10 DEF LockAsked, LockSettled, m
  <2>12. Balanced'
    BY <2>9, <2>11 DEF Balanced, SleepOn, LockOn
  <2>13. SwitchShown'
    BY <1>2, <1>8, <2>1, <2>4 DEF SwitchShown
  <2> QED BY <1>1, <1>2, <1>4, <1>6, <2>7, <2>12, <2>13 DEF Informed
<1> QED BY <1>7, <1>8

LEMMA SwitchScreenSaver ==
    ASSUME ManualTypeOK, SwitchInv, ScreenSaver PROVE SwitchInv'
<1>1. /\ UNCHANGED <<running, pending, requested, calls, messages, sleepInhibitionCookie,
                     isManuallyInhibited, registered, doubtful>>
      /\ lockCalls # <<>> /\ lockCalls' = Tail(lockCalls)
  BY DEF ScreenSaver, agent, control
<1> SUFFICES ASSUME ~doubtful
             PROVE  Balanced' /\ SwitchShown' /\ (Off' \/ (Informed' /\ registered'))
  BY <1>1 DEF SwitchInv
<1>2. Balanced /\ SwitchShown /\ (Off \/ (Informed /\ registered))
  BY DEF SwitchInv
<1>3. ~Off /\ ~LockSettled
  BY <1>1 DEF Off, LockSettled
<1>4. Informed' /\ registered' /\ SwitchShown'
  BY <1>1, <1>2, <1>3 DEF Informed, SwitchShown
<1>5. Held' = Held
  BY <1>1 DEF Held, Cookies
<1>6. (SleepOn => SleepOn') /\ (SleepOff => SleepOff')
  BY <1>1, <1>5 DEF SleepOn, SleepOff, SleepSettled, SleepAsked, SleepGiven, SleepEnding, SleepEnded
<1>7. LockOn => LockOn'
  <2> SUFFICES ASSUME LockAsked PROVE LockSettled' /\ lockInhibitionCookie' # NoCookie
    BY <1>3 DEF LockOn
  <2>1. lockCalls[1].what = "Inhibit" /\ lockCalls' = <<>>
    BY <1>1 DEF LockAsked
  <2>2. lockInhibitionCookie' = lastLock + 1 /\ locks' = locks \union {lastLock + 1}
    BY <2>1 DEF ScreenSaver
  <2>3. lastLock + 1 # NoCookie
    BY DEF ManualTypeOK, NoCookie
  <2>4. locks = {}
    BY DEF LockAsked
  <2> QED BY <2>1, <2>2, <2>3, <2>4 DEF LockSettled
<1>8. LockOff => LockOff'
  <2> SUFFICES ASSUME LockEnding PROVE LockSettled' /\ lockInhibitionCookie' = NoCookie
    BY <1>3 DEF LockOff
  <2>1. /\ lockCalls[1].what = "UnInhibit" /\ lockCalls[1].cookie = lockInhibitionCookie
        /\ lockCalls' = <<>>
    BY <1>1 DEF LockEnding
  <2>2. lockInhibitionCookie' = NoCookie /\ locks' = locks \ {lockInhibitionCookie}
    BY <2>1 DEF ScreenSaver
  <2>3. locks = {lockInhibitionCookie}
    BY DEF LockEnding
  <2> QED BY <2>1, <2>2, <2>3 DEF LockSettled
<1> QED BY <1>2, <1>4, <1>6, <1>7, <1>8 DEF Balanced

LEMMA SwitchOthers ==
    ASSUME ManualTypeOK, NameInv, CookieInv, SwitchInv,
           Export \/ DaemonStarts \/ \E allowed \in BOOLEAN : setInhibitionAllowed(allowed)
    PROVE  SwitchInv'
<1>1. /\ UNCHANGED <<pending, requested, doubtful, sleepInhibitionCookie, lockInhibitionCookie,
                     locks, lockCalls, isManuallyInhibited, registered>>
      /\ messages \in Seq(MessageType) /\ calls \in Seq(CallType)
  BY DEF Export, DaemonStarts, setInhibitionAllowed, agent, saver, monitor, control, ManualTypeOK
<1>2. Held' = Held
  BY <1>1, HeldSteps
<1>3. CASE Export
  <2>1. UNCHANGED <<calls, messages, running>>
    BY <1>3 DEF Export
  <2> QED BY <1>1, <1>2, <2>1, AsBeforeSame, SwitchInvKept DEF Informed
<1>4. CASE DaemonStarts
  <2>1. messages' = messages \o <<[what |-> "Registered"]>> /\ calls' = calls /\ ~running
        /\ <<[what |-> "Registered"]>> \in Seq(MessageType)
    BY <1>1, <1>4, Members, AppendIsConcat, AppendTyped DEF DaemonStarts
  <2>2. Without(<<[what |-> "Registered"]>>, Answers)
    BY DEF Without, Answers
  <2>3. AsBefore(messages, messages', Answers)
    BY <1>1, <2>1, <2>2, AsBeforeConcat
  <2>4. AsBefore(calls, calls', Asks) /\ ~Informed
    BY <2>1, AsBeforeSame DEF Informed
  <2> QED BY <1>1, <1>2, <2>3, <2>4, SwitchInvKept
<1>5. ASSUME NEW allowed \in BOOLEAN, setInhibitionAllowed(allowed) PROVE SwitchInv'
  <2> DEFINE asked == <<[what |-> "SetInhibitionAllowed", allowed |-> allowed]>>
  <2>1. asked \in Seq(CallType)
    BY Members, AppendTyped
  <2>2. Call(asked) /\ running' = running
    BY <1>5 DEF setInhibitionAllowed
  <2>3. Without(asked, Asks) /\ Len(asked) \in Nat
    BY DEF Without, Asks
  <2> HIDE DEF asked
  <2>4. /\ running => calls' = calls \o asked /\ messages' = messages
        /\ ~running => calls' = calls /\ messages' = messages \o Errors(Len(asked))
    BY <2>1, <2>2, CallTyped
  <2>5. Errors(Len(asked)) \in Seq(MessageType) /\ Without(Errors(Len(asked)), Answers)
    BY <2>3, ErrorsOnly DEF Answers
  <2>6. AsBefore(calls, calls', Asks)
    BY <1>1, <2>1, <2>3, <2>4, AsBeforeSame, AsBeforeConcat
  <2>7. AsBefore(messages, messages', Answers)
    BY <1>1, <2>4, <2>5, AsBeforeSame, AsBeforeConcat
  <2>8. Informed => Informed'
    BY <2>2, <2>4 DEF Informed
  <2> QED BY <1>1, <1>2, <2>6, <2>7, <2>8, SwitchInvKept
<1> QED BY <1>3, <1>4, <1>5

\* The names are read: while they are under way the switch is off.
LEMMA SwitchNames ==
    ASSUME ManualTypeOK, SwitchInv, onServiceRegistered \/ onServiceUnregistered
    PROVE  SwitchInv'
<1>1. /\ messages # <<>> /\ messages[1].what \in Names
      /\ UNCHANGED <<pending, requested, doubtful, sleepInhibitionCookie, lockInhibitionCookie,
                     locks, lockCalls>>
      /\ messages \in Seq(MessageType) /\ calls \in Seq(CallType)
      /\ Tail(messages) \in Seq(MessageType)
  BY HeadTyped DEF onServiceRegistered, onServiceUnregistered, others, read, Names, agent, saver,
                   ManualTypeOK
<1> SUFFICES ASSUME ~doubtful
             PROVE  Balanced' /\ SwitchShown' /\ (Off' \/ (Informed' /\ registered'))
  BY <1>1 DEF SwitchInv
<1>2. ~Informed
  BY <1>1, WithoutTail DEF Informed
<1>3. Off
  BY <1>2 DEF SwitchInv
<1>4. Held' = Held
  BY <1>1 DEF Held, Cookies
<1>5. Without(Tail(messages), Answers) /\ Without(calls, Asks)
  BY <1>1, <1>3, WithoutTail DEF Off, SleepSettled
<1>6. Without(calls', Asks) /\ Without(messages', Answers) /\ SwitchShown'
  <2>1. CASE onServiceRegistered
    <3>1. isManuallyInhibited' = FALSE
      BY <1>3, <2>1 DEF onServiceRegistered, Off
    <3>2. Asked \in Seq(CallType) /\ Without(Asked, Asks) /\ Len(Asked) \in Nat
      BY <2>1, RegisteredAsks DEF Asked, Without, Asks
    <3>3. Errors(Len(Asked)) \in Seq(MessageType) /\ Without(Errors(Len(Asked)), Answers)
      BY <3>2, ErrorsOnly DEF Answers
    <3>4. Without(calls \o Asked, Asks) /\ Without(Tail(messages) \o Errors(Len(Asked)), Answers)
      BY <1>1, <1>5, <3>2, <3>3, WithoutConcat
    <3>5. Without(calls', Asks) /\ Without(messages', Answers)
      BY <1>5, <2>1, <3>4, RegisteredAsks
    <3> QED BY <1>1, <1>3, <3>1, <3>5 DEF SwitchShown, Off
  <2>2. CASE onServiceUnregistered
    BY <1>5, <2>2 DEF onServiceUnregistered, read, SwitchShown
  <2> QED BY <2>1, <2>2
<1>7. SleepSettled'
  BY <1>1, <1>3, <1>4, <1>6 DEF Off, SleepSettled
<1>8. LockSettled'
  BY <1>1, <1>3 DEF Off, LockSettled
<1>9. Off'
  BY <1>1, <1>3, <1>7, <1>8 DEF Off
<1>10. Balanced'
  BY <1>1, <1>3, <1>7, <1>8 DEF Balanced, SleepOff, LockOff, Off
<1> QED BY <1>6, <1>9, <1>10

\* Messages that are neither names nor answers to the switch.
LEMMA SwitchReads ==
    ASSUME ManualTypeOK, NameInv, CookieInv, SwitchInv, messages[1].what \notin Answers,
           \/ onPolicyAgentPropertiesChanged \/ onHasInhibitionChanged \/ updatedInhibitions
           \/ SleepAnswered
    PROVE  SwitchInv'
<1>1. /\ messages # <<>> /\ messages[1].what \notin Names
      /\ UNCHANGED <<running, pending, requested, locks, lockCalls, lockInhibitionCookie, doubtful,
                     registered>>
      /\ messages \in Seq(MessageType) /\ calls \in Seq(CallType)
      /\ Tail(messages) \in Seq(MessageType)
  BY ReadParts, HeadTyped DEF agent, saver, ManualTypeOK
<1>2. UNCHANGED <<sleepInhibitionCookie, isManuallyInhibited>>
  BY DEF onPolicyAgentPropertiesChanged, onHasInhibitionChanged, updatedInhibitions, SleepAnswered,
         control, Answers
<1>3. AsBefore(calls, calls', Asks)
  <2>1. calls' = calls \/ calls' = calls \o <<[what |-> "Get"]>>
    <3>1. CASE onPolicyAgentPropertiesChanged
      BY <3>1, PropertiesAsk
    <3>2. CASE onHasInhibitionChanged \/ updatedInhibitions \/ SleepAnswered
      BY <3>2 DEF onHasInhibitionChanged, updatedInhibitions, SleepAnswered
    <3> QED BY <3>1, <3>2
  <2>2. <<[what |-> "Get"]>> \in Seq(CallType) /\ Without(<<[what |-> "Get"]>>, Asks)
    BY Members, AppendTyped DEF Without, Asks
  <2>3. AsBefore(calls, calls \o <<[what |-> "Get"]>>, Asks)
    BY <1>1, <2>2, AsBeforeConcat
  <2> QED BY <2>1, <2>3, AsBeforeSame
<1> PICK added \in Seq(MessageType) :
        /\ messages' = Tail(messages) \o added
        /\ \A kinds : "Error" \notin kinds => Without(added, kinds)
  BY ReadParts
<1>4. Without(added, Answers) /\ Without(added, Names)
  BY DEF Answers, Names
<1>5. AsBefore(messages, Tail(messages), Answers)
  BY <1>1, AsBeforeTail
<1>6. AsBefore(Tail(messages), messages', Answers)
  BY <1>1, <1>4, AsBeforeConcat
<1>7. AsBefore(messages, messages', Answers)
  BY <1>5, <1>6, AsBeforeTwice
<1>8. Informed => Informed'
  <2>1. Without(messages, Names) => Without(Tail(messages), Names)
    BY <1>1, WithoutTail
  <2>2. Without(Tail(messages), Names) => Without(messages', Names)
    BY <1>1, <1>4, WithoutConcat
  <2> QED BY <1>1, <2>1, <2>2 DEF Informed
<1>9. Held' = Held
  BY <1>1, HeldSteps
<1> QED BY <1>1, <1>2, <1>3, <1>7, <1>8, <1>9, SwitchInvKept

\* The answers to the switch.
LEMMA SwitchAnswered ==
    ASSUME ManualTypeOK, NameInv, SwitchInv, messages[1].what \in Answers, SleepAnswered
    PROVE  SwitchInv'
<1>1. /\ messages # <<>> /\ messages' = Tail(messages) /\ messages[1].what \notin Names
      /\ messages[1].what \in Answers /\ messages[1] \in MessageType
      /\ UNCHANGED <<running, pending, requested, locks, lockCalls, lockInhibitionCookie, doubtful,
                     registered, calls>>
      /\ messages \in Seq(MessageType)
  BY HeadTyped DEF SleepAnswered, read, others, agent, saver, ManualTypeOK, Answers, Names
<1> SUFFICES ASSUME ~doubtful
             PROVE  Balanced' /\ SwitchShown' /\ (Off' \/ (Informed' /\ registered'))
  BY <1>1 DEF SwitchInv
<1>2. Balanced /\ SwitchShown /\ (Off \/ (Informed /\ registered))
  BY DEF SwitchInv
<1>3. ~Without(messages, Answers)
  BY <1>1, WithoutTail
<1>4. (SleepOn => SleepGiven) /\ (SleepOff => SleepEnded) /\ ~Off
  BY <1>3 DEF SleepOn, SleepOff, SleepSettled, SleepAsked, SleepEnding, Off
<1>5. Informed' /\ registered'
  BY <1>1, <1>2, <1>4, WithoutTail DEF Informed
<1>6. Held' = Held
  BY <1>1 DEF Held, Cookies
<1>7. (LockOn => LockOn') /\ (LockOff => LockOff')
  BY <1>1 DEF LockOn, LockOff, LockSettled, LockAsked, LockEnding
<1>8. CASE SleepOn /\ LockOn
  <2> PICK c \in Nat \ {NoCookie} :
          Held = {c} /\ Once(messages, Answers, [what |-> "Cookie", cookie |-> c])
    BY <1>4, <1>8 DEF SleepGiven
  <2>1. [what |-> "Cookie", cookie |-> c].what \in Answers
    BY DEF Answers
  <2>2. messages[1] = [what |-> "Cookie", cookie |-> c] /\ Without(messages', Answers)
    BY <1>1, <2>1, OnceTail
  <2>3. messages[1].what = "Cookie" /\ messages[1].cookie = c
    BY <2>2
  <2>4. sleepInhibitionCookie' = c /\ isManuallyInhibited' = TRUE
    BY <1>5, <1>1, <2>3 DEF SleepAnswered, Switched
  <2>5. Without(calls', Asks)
    BY <1>1, <1>4, <1>8 DEF SleepGiven
  <2>6. SleepSettled' /\ sleepInhibitionCookie' # NoCookie
    BY <1>6, <2>2, <2>4, <2>5 DEF SleepSettled
  <2> QED BY <1>5, <1>7, <1>8, <2>4, <2>6 DEF Balanced, SleepOn, SwitchShown
<1>9. CASE SleepOff /\ LockOff
  <2>1. SleepEnded /\ [what |-> "Released"].what \in Answers
    BY <1>4, <1>9 DEF Answers
  <2>2. messages[1] = [what |-> "Released"] /\ Without(messages', Answers)
    BY <1>1, <2>1, OnceTail DEF SleepEnded
  <2>3. messages[1].what = "Released"
    BY <2>2
  <2>4. sleepInhibitionCookie' = NoCookie /\ isManuallyInhibited' = FALSE
    BY <1>5, <1>1, <2>3 DEF SleepAnswered, Switched
  <2>5. Without(calls', Asks) /\ Held' = {}
    BY <1>1, <1>6, <2>1 DEF SleepEnded
  <2>6. SleepSettled' /\ sleepInhibitionCookie' = NoCookie
    BY <2>2, <2>4, <2>5 DEF SleepSettled
  <2> QED BY <1>5, <1>7, <1>9, <2>4, <2>6 DEF Balanced, SleepOff, SwitchShown
<1> QED BY <1>2, <1>8, <1>9 DEF Balanced

-----------------------------------------------------------------------------
(* The inductive invariant, and what follows                               *)

\* What is shown, with what is under way to it, is what is held.
ManualInv == ManualTypeOK /\ NameInv /\ HasInv /\ ListInv /\ CookieInv /\ SwitchInv

LEMMA InitManual == Init => ManualInv
<1> SUFFICES ASSUME Init PROVE ManualInv
  OBVIOUS
<1>1. ManualTypeOK
  BY InitTyped
<1> DEFINE came == <<[what |-> "Registered"]>>
<1>2. /\ messages = came /\ calls = <<>> /\ lockCalls = <<>> /\ pending = {} /\ requested = {}
      /\ locks = {} /\ running = TRUE /\ registered = FALSE
      /\ sleepInhibitionCookie = NoCookie /\ lockInhibitionCookie = NoCookie
  BY DEF Init
<1>3. Ends(came, Names, [what : {"Registered"}]) /\ ~Without(came, Names)
      /\ Without(came, Answers)
  BY DEF Ends, Without, Names, Answers
<1> HIDE DEF came
<1>4. NameInv
  BY <1>2, <1>3 DEF NameInv
<1>5. ~Informed
  BY <1>2, <1>3 DEF Informed
<1>6. CookieInv
  BY <1>2 DEF CookieInv
<1>7. Off
  <2>1. Without(calls, Asks) /\ Without(messages, Answers)
    BY <1>2, <1>3 DEF Without
  <2>2. Held = {}
    BY <1>2 DEF Held, Cookies
  <2>3. SleepSettled
    BY <1>2, <2>1, <2>2 DEF SleepSettled
  <2>4. LockSettled
    BY <1>2 DEF LockSettled
  <2> QED BY <1>2, <2>3, <2>4 DEF Off
<1>8. SwitchInv
  BY <1>2, <1>7, OffIsBalanced DEF SwitchInv, SwitchShown
<1> QED BY <1>1, <1>4, <1>5, <1>6, <1>8 DEF ManualInv, HasInv, ListInv

LEMMA NextManual == ManualInv /\ [Next]_vars => ManualInv'
<1> SUFFICES ASSUME ManualInv, [Next]_vars PROVE ManualInv'
  OBVIOUS
<1> USE DEF ManualInv
<1>1. ManualTypeOK' /\ CookieInv'
  BY StepTyped, CookieInvStep
<1>2. CASE Serve
  <2>1. NameInv' /\ HasInv' /\ ListInv'
    BY <1>2, NameInvServe, HasInvServe, ListInvServe
  <2>2. SwitchInv'
    BY <1>2, SwitchServe, SwitchServeOther
  <2> QED BY <1>1, <2>1, <2>2
<1>3. CASE (\E inhibition \in pending : Enforce(inhibition)) \/ Application
  BY <1>1, <1>3, NameInvSignals, HasInvSignals, ListInvSignals, SwitchSignals
<1>4. CASE ForceUnInhibitAll
  BY <1>1, <1>4, NameInvSignals, HasInvSignals, ListInvSignals, SwitchForced
<1>5. CASE DaemonEnds
  <2>1. HasInv' /\ ListInv'
    BY <1>5, NotInformed DEF HasInv, ListInv
  <2> QED BY <1>1, <1>5, <2>1, NameInvDaemonEnds, SwitchDaemonEnds
<1>6. CASE DaemonStarts
  <2>1. HasInv' /\ ListInv'
    BY <1>6, NotInformed DEF HasInv, ListInv
  <2> QED BY <1>1, <1>6, <2>1, NameInvDaemonStarts, SwitchOthers
<1>7. CASE Toggle \/ ScreenSaver \/ Export
             \/ \E allowed \in BOOLEAN : setInhibitionAllowed(allowed)
  <2>1. NameInv' /\ HasInv' /\ ListInv'
    BY <1>7, NameInvWorld, HasInvWorld, ListInvWorld
  <2>2. SwitchInv'
    BY <1>7, SwitchToggle, SwitchScreenSaver, SwitchOthers
  <2> QED BY <1>1, <2>1, <2>2
<1>8. CASE onServiceRegistered
  BY <1>1, <1>8, NameInvRegistered, HasInvRegistered, ListInvAsks, SwitchNames
<1>9. CASE onServiceUnregistered
  <2>1. NameInv' /\ SwitchInv'
    BY <1>9, NameInvUnregistered, SwitchNames
  <2>2. HasInv' /\ ListInv'
    BY <1>9, <2>1, NotInformed DEF HasInv, ListInv
  <2> QED BY <1>1, <2>1, <2>2
<1>10. CASE onPolicyAgentPropertiesChanged
  <2>1. messages[1].what \notin Answers
    BY <1>10 DEF onPolicyAgentPropertiesChanged, Answers
  <2> QED BY <1>1, <1>10, <2>1, NameInvRead, HasInvOther, ListInvAsks, SwitchReads
<1>11. CASE onHasInhibitionChanged
  <2>1. messages[1].what \notin Answers
    BY <1>11 DEF onHasInhibitionChanged, Answers
  <2> QED BY <1>1, <1>11, <2>1, NameInvRead, HasInvRead, ListInvOther, SwitchReads
<1>12. CASE updatedInhibitions
  <2>1. messages[1].what \notin Answers
    BY <1>12 DEF updatedInhibitions, Answers
  <2> QED BY <1>1, <1>12, <2>1, NameInvRead, HasInvOther, ListInvRead, SwitchReads
<1>13. CASE SleepAnswered
  <2>1. NameInv' /\ HasInv' /\ ListInv'
    BY <1>13, NameInvRead, HasInvOther, ListInvOther
  <2>2. SwitchInv'
    BY <1>13, SwitchReads, SwitchAnswered
  <2> QED BY <1>1, <2>1, <2>2
<1>14. CASE UNCHANGED vars
  <2>1. /\ UNCHANGED <<running, exported, agent, saver, calls, messages, lockCalls, missed, doubtful,
                       sleepInhibitionCookie, lockInhibitionCookie,
                       registered, requestedInhibitions, hasInhibition, isManuallyInhibited>>
        /\ UNCHANGED <<pending, requested, locks>>
    BY <1>14 DEF vars, monitor, control, agent, saver
  <2>2. NameInv'
    BY <2>1, NameInvSame
  <2>3. HasInv' /\ ListInv'
    BY <2>1, HasInvSame, ListInvSame
  <2>4. SwitchInv'
    <3>1. AsBefore(calls, calls', Asks) /\ AsBefore(messages, messages', Answers)
      BY <2>1, AsBeforeSame
    <3>2. Held' = Held /\ (Informed => Informed')
      BY <2>1 DEF Held, Cookies, Informed
    <3> QED BY <2>1, <3>1, <3>2, SwitchInvKept
  <2> QED BY <1>1, <2>2, <2>3, <2>4
<1> QED BY <1>2, <1>3, <1>4, <1>5, <1>6, <1>7, <1>8, <1>9, <1>10, <1>11, <1>12, <1>13, <1>14
        DEF Next, Daemon, Plasmashell, World

\* Everything the proofs of the three properties below rest on is invariant.
THEOREM ManualCorrect == Spec => []ManualInv
BY InitManual, NextManual, PTL DEF Spec

\* With everything read, plasmashell knows whether the daemon is there.
LEMMA QuietInformed ==
    ASSUME NameInv, Quiet, registered
    PROVE  Informed /\ (\A kinds : Without(calls, kinds) /\ Without(messages, kinds))
<1>1. \A kinds : Without(calls, kinds) /\ Without(messages, kinds)
  BY DEF Quiet, Without
<1>2. running
  BY <1>1, EndsIsThere DEF NameInv
<1> QED BY <1>1, <1>2 DEF Informed

\* However the signals of changes, the answers of checkInhibitions and the ends
\* and starts of the daemon cross, the list of the applet is right once everything
\* has been read (InhibitionControl::checkInhibitions), for any number of
\* inhibitions, changes and restarts.
THEOREM AlwaysListIsShown == Spec => []ListIsShown
<1>1. ManualInv => ListIsShown
  BY QuietInformed, EndsIsThere DEF ManualInv, ListIsShown, ListInv
<1> QED BY <1>1, ManualCorrect, PTL

\* The same for whether sleep is inhibited, which FdoConnector signals and
\* onServiceRegistered asks for.
THEOREM AlwaysHasInhibitShown == Spec => []HasInhibitShown
<1>1. ASSUME ManualInv, Quiet, registered PROVE hasInhibition = (Active # {})
  <2>1. hasInhibition <=> Active # {}
    BY <1>1, QuietInformed, EndsIsThere DEF ManualInv, HasInv
  <2>2. hasInhibition \in BOOLEAN
    BY <1>1 DEF ManualInv, ManualTypeOK
  <2> QED BY <2>1, <2>2
<1>2. ManualInv => HasInhibitShown
  BY <1>1 DEF HasInhibitShown
<1> QED BY <1>2, ManualCorrect, PTL

\* A switch used with nothing under way says what the agent and the screen saver
\* hold for it: the two calls of InhibitMonitor::inhibit and uninhibit, answered
\* in any order, and a daemon that ends and starts again, leave them alike.
THEOREM AlwaysSwitchIsTrue == Spec => []SwitchIsTrue
<1>1. ASSUME ManualInv, Quiet, registered, ~doubtful
      PROVE  /\ isManuallyInhibited <=> Cookies("plasmashell") # {}
             /\ isManuallyInhibited <=> locks # {}
  <2>1. Balanced /\ (isManuallyInhibited <=> sleepInhibitionCookie # NoCookie)
    BY <1>1 DEF ManualInv, SwitchInv, SwitchShown
  <2>2. CASE SleepOn /\ LockOn
    <3>1. SleepSettled /\ sleepInhibitionCookie # NoCookie /\ LockSettled
          /\ lockInhibitionCookie # NoCookie
      BY <1>1, <2>2, QuietIsSettled
    <3>2. Held = {sleepInhibitionCookie} /\ locks = {lockInhibitionCookie}
      BY <3>1 DEF SleepSettled, LockSettled
    <3> QED BY <2>1, <3>1, <3>2 DEF Held
  <2>3. CASE SleepOff /\ LockOff
    <3>1. SleepSettled /\ sleepInhibitionCookie = NoCookie /\ LockSettled
          /\ lockInhibitionCookie = NoCookie
      BY <1>1, <2>3, QuietIsSettled
    <3>2. Held = {} /\ locks = {}
      BY <3>1 DEF SleepSettled, LockSettled
    <3> QED BY <2>1, <3>1, <3>2 DEF Held
  <2> QED BY <2>1, <2>2, <2>3 DEF Balanced
<1>2. ManualInv => SwitchIsTrue
  BY <1>1 DEF SwitchIsTrue
<1> QED BY <1>2, ManualCorrect, PTL
=============================================================================
