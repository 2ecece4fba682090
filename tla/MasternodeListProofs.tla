----------------------- MODULE MasternodeListProofs -----------------------
(***************************************************************************)
(* A node that refuses pings as too recent has seen the masternode lately  *)
(* enough, for every network, every choice of the times and every drift of *)
(* the clock that signs pings.  An entry that is not enabled may be pinged *)
(* without being seen, so SeenSincePing is not inductive: IInv says of     *)
(* every entry what must hold when a check enables it again (SoundEntry).  *)
(***************************************************************************)
EXTENDS MasternodeList, TLAPS

\* The last time an entry was seen is at most Drift older than its last ping, unless
\* the collateral is spent, which an entry never forgets, the entry was never pinged,
\* it was stopped, or it is so old that only being seen enables it again.
SeenAfterPing(e) ==
  \/ e.state = "spent"
  \/ e.dseep = Unpinged
  \/ e.age = Disabled
  \/ e.state # "enabled" /\ e.age >= Expiration
  \/ e.age <= e.dseep + Drift

\* In the minute of a check that found the entry too old it is so still, or was just seen.
CheckedThisMinute(e) ==
  e.checked /\ e.state \in {"expired", "remove"} => e.age = 0 \/ e.age >= Expiration

SoundEntry(e) == e \in Entries /\ SeenAfterPing(e) /\ CheckedThisMinute(e)

SoundList ==
  /\ vecMasternodes \in [Nodes -> Entries \cup {None}]
  /\ \A n \in Nodes : vecMasternodes[n] = None \/ SoundEntry(vecMasternodes[n])

IInv == MasternodeTypeOK /\ SoundList

USE MasternodeAssumption

-----------------------------------------------------------------------------
(* What happens to an entry.                                               *)

\* The fields of an entry.
LEMMA EntryFields ==
  ASSUME NEW e \in Entries
  PROVE  /\ e.age \in 0 .. Disabled /\ e.dseep \in -Drift .. Unpinged
         /\ e.now \in 1 .. MaxRegister /\ e.checked \in BOOLEAN
         /\ e.state \in {"enabled", "expired", "remove", "spent"}
BY DEF Entries

LEMMA EntryOf ==
  ASSUME NEW a \in 0 .. Disabled, NEW d \in -Drift .. Unpinged, NEW r \in 1 .. MaxRegister,
         NEW s \in {"enabled", "expired", "remove", "spent"}, NEW c \in BOOLEAN
  PROVE  [age |-> a, dseep |-> d, now |-> r, state |-> s, checked |-> c] \in Entries
BY DEF Entries

LEMMA Bounds ==
  /\ Disabled \in Nat /\ Unpinged \in Nat /\ 0 \in 0 .. Disabled /\ Disabled \in 0 .. Disabled
  /\ Unpinged \in -Drift .. Unpinged /\ Expiration < Removal /\ Disabled = Removal + 1
  /\ Unpinged < Expiration
  /\ \A skew \in Skews : skew \in Nat /\ -skew \in -Drift .. Unpinged /\ 0 <= -skew + Drift
BY DEF Disabled, Unpinged

\* An entry that is made is sound.
LEMMA NewEntrySound ==
  ASSUME NEW r \in 1 .. MaxRegister, NEW a \in 0 .. Disabled
  PROVE  SoundEntry(NewEntry(r, a))
<1> DEFINE e == NewEntry(r, a)
<1>1. (IF a = Disabled THEN 0 ELSE a) \in 0 .. Disabled
  BY Bounds
<1>2. e \in Entries
  BY <1>1, Bounds, EntryOf DEF NewEntry
<1>3. e.dseep = Unpinged /\ e.checked = FALSE
  BY DEF NewEntry
<1> QED BY <1>2, <1>3 DEF SoundEntry, SeenAfterPing, CheckedThisMinute

\* An entry that is seen is sound, whatever was pinged.
LEMMA SeenSound ==
  ASSUME NEW x \in Entries, x.age = 0
  PROVE  SoundEntry(x)
<1>1. 0 <= x.dseep + Drift
  BY EntryFields, Bounds
<1> QED BY <1>1 DEF SoundEntry, SeenAfterPing, CheckedThisMinute

\* A check of a sound entry leaves it sound.
LEMMA CheckedSound ==
  ASSUME NEW e, SoundEntry(e), NEW st \in CheckStates(e)
  PROVE  /\ SoundEntry(Checked(e, st))
         /\ st \in {"enabled", "expired", "remove", "spent"}
         /\ st \in {"expired", "remove"} => e.age = 0 \/ e.age >= Expiration
<1> DEFINE x == Checked(e, st)
<1>1. e \in Entries
  BY DEF SoundEntry
<1>2. /\ e.age \in 0 .. Disabled /\ e.dseep \in -Drift .. Unpinged
      /\ e.now \in 1 .. MaxRegister /\ e.checked \in BOOLEAN
      /\ e.state \in {"enabled", "expired", "remove", "spent"}
  BY <1>1, EntryFields
<1>3. \/ st = StateNow(e)
      \/ e.checked /\ st = e.state
  BY DEF CheckStates
<1>4. st \in {"enabled", "expired", "remove", "spent"}
  BY <1>2, <1>3 DEF StateNow
<1>5. st \in {"expired", "remove"} => e.age = 0 \/ e.age >= Expiration
  <2>1. CASE st = StateNow(e)
    BY <1>2, <2>1, Bounds DEF StateNow
  <2>2. CASE e.checked /\ st = e.state
    BY <2>2 DEF SoundEntry, CheckedThisMinute
  <2> QED BY <1>3, <2>1, <2>2
<1>6. x \in Entries /\ x.age = e.age /\ x.dseep = e.dseep /\ x.state = st /\ x.checked = TRUE
  BY <1>1, <1>4 DEF Checked, Entries
<1>7. SeenAfterPing(x)
  <2>1. CASE st = e.state
    BY <1>6, <2>1 DEF SoundEntry, SeenAfterPing
  <2>2. CASE st # e.state /\ st = StateNow(e)
    <3>1. \/ st = "spent"
          \/ st # "enabled" /\ e.age >= Expiration
          \/ st = "enabled" /\ e.age < Expiration
      <4>1. CASE e.age >= Expiration
        BY <2>2, <4>1 DEF StateNow
      <4>2. CASE e.age < Expiration
        <5>1. ~(e.age >= Expiration) /\ ~(e.age >= Removal)
          BY <1>2, <4>2, Bounds
        <5> QED BY <2>2, <4>2, <5>1 DEF StateNow
      <4> QED BY <1>2, <4>1, <4>2
    <3>2. e.state = "spent" => st = "spent"
      BY <2>2 DEF StateNow
    <3>3. SeenAfterPing(e)
      BY DEF SoundEntry
    <3> HIDE DEF x
    <3> QED BY <1>2, <1>6, <3>1, <3>2, <3>3, Bounds DEF SeenAfterPing
  <2> QED BY <1>3, <2>1, <2>2
<1>8. CheckedThisMinute(x)
  BY <1>5, <1>6 DEF CheckedThisMinute
<1> QED BY <1>4, <1>5, <1>6, <1>7, <1>8 DEF SoundEntry

\* A ping of a sound entry leaves it sound, taken or not.
LEMMA PingSound ==
  ASSUME NEW e, SoundEntry(e), NEW st \in CheckStates(e), NEW skew \in Skews,
         NEW x, x = Checked([e EXCEPT !.dseep = -skew], st)
  PROVE  /\ st # "enabled" => SoundEntry(x)
         /\ SoundEntry(SeenByPing(x))
         /\ SoundEntry([x EXCEPT !.age = Disabled]) \/ st # "enabled"
<1>1. e \in Entries
  BY DEF SoundEntry
<1>2. /\ e.age \in 0 .. Disabled /\ e.dseep \in -Drift .. Unpinged
      /\ e.now \in 1 .. MaxRegister /\ e.checked \in BOOLEAN
      /\ e.state \in {"enabled", "expired", "remove", "spent"}
  BY <1>1, EntryFields
<1>3. /\ st \in {"enabled", "expired", "remove", "spent"}
      /\ st \in {"expired", "remove"} => e.age = 0 \/ e.age >= Expiration
  BY CheckedSound
<1>4. /\ x \in Entries /\ x.age = e.age /\ x.dseep = -skew /\ x.state = st /\ x.checked = TRUE
  BY <1>1, <1>3, Bounds DEF Checked, Entries
<1>5. SeenByPing(x) \in Entries /\ SeenByPing(x).age = 0
  BY <1>4, Bounds DEF SeenByPing, Entries
<1>6. ASSUME st = "enabled" PROVE SoundEntry([x EXCEPT !.age = Disabled])
  <2> DEFINE y == [x EXCEPT !.age = Disabled]
  <2>1. y \in Entries /\ y.age = Disabled /\ y.state = "enabled"
    BY <1>4, <1>6, Bounds DEF Entries
  <2> QED BY <2>1 DEF SoundEntry, SeenAfterPing, CheckedThisMinute
<1>7. ASSUME st # "enabled" PROVE SoundEntry(x)
  <2>1. 0 <= -skew + Drift
    BY Bounds
  <2>2. st = "spent" \/ e.age = 0 \/ e.age >= Expiration
    BY <1>3, <1>7
  <2>3. SeenAfterPing(x)
    BY <1>4, <1>7, <2>1, <2>2 DEF SeenAfterPing
  <2>4. CheckedThisMinute(x)
    BY <1>3, <1>4 DEF CheckedThisMinute
  <2> QED BY <1>4, <2>3, <2>4 DEF SoundEntry
<1> QED BY <1>5, <1>6, <1>7, SeenSound

\* A minute later a sound entry is sound.
LEMMA OlderSound ==
  ASSUME NEW e, SoundEntry(e)
  PROVE  SoundEntry(Older(e))
<1> DEFINE x == Older(e)
<1>1. e \in Entries
  BY DEF SoundEntry
<1>2. /\ e.age \in 0 .. Disabled /\ e.dseep \in -Drift .. Unpinged
      /\ e.now \in 1 .. MaxRegister /\ e.checked \in BOOLEAN
      /\ e.state \in {"enabled", "expired", "remove", "spent"}
  BY <1>1, EntryFields
<1>3. /\ x.age = IF e.age < Removal THEN e.age + 1 ELSE e.age
      /\ x.dseep = IF e.dseep < Unpinged THEN e.dseep + 1 ELSE e.dseep
      /\ x.checked = FALSE /\ x.state = e.state
  BY <1>1 DEF Older, Entries
<1>4. x.age \in 0 .. Disabled /\ x.dseep \in -Drift .. Unpinged
  BY <1>2, <1>3, Bounds
<1>5. x \in Entries
  BY <1>1, <1>2, <1>3, <1>4 DEF Older, Entries
<1> HIDE DEF x
<1>6. SeenAfterPing(x)
  <2>1. SeenAfterPing(e)
    BY DEF SoundEntry
  <2> QED BY <1>2, <1>3, <2>1, Bounds DEF SeenAfterPing
<1> QED BY <1>3, <1>5, <1>6 DEF SoundEntry, CheckedThisMinute, x

-----------------------------------------------------------------------------
(* The inductive invariant.                                                *)

\* The list stays sound when an entry is put or dropped.
LEMMA PutSound ==
  ASSUME IInv, NEW n \in Nodes, NEW e, SoundEntry(e) \/ e = None, Put(n, e)
  PROVE  SoundList'
<1>1. vecMasternodes \in [Nodes -> Entries \cup {None}]
  BY DEF IInv, MasternodeTypeOK
<1>2. /\ vecMasternodes' = [vecMasternodes EXCEPT ![n] = e]
      /\ e \in Entries \cup {None}
  BY DEF Put, SoundEntry
<1> QED BY <1>1, <1>2 DEF IInv, SoundList

\* What is sent is well formed.
Envelopes == [from : Nodes, to : Nodes, msg : Messages]

LEMMA PeersAreNodes == ASSUME NEW n PROVE Peers(n) \subseteq Nodes
BY DEF Peers

LEMMA MailIsEnvelope ==
  ASSUME NEW n \in Nodes, NEW p \in Nodes, NEW m \in Messages
  PROVE  Mail(n, p, m) \in Envelopes
BY DEF Mail, Envelopes

LEMMA ToPeersAreEnvelopes ==
  ASSUME NEW n \in Nodes, NEW m \in Messages
  PROVE  ToPeers(n, m) \subseteq Envelopes
BY PeersAreNodes, MailIsEnvelope DEF ToPeers

LEMMA MessageKinds ==
  /\ \A new \in BOOLEAN, now \in 1 .. MaxRegister, age \in 0 .. Disabled :
       Dsee(new, now, age) \in Messages
  /\ \A skew \in Skews, stop \in BOOLEAN : DseepMsg(skew, stop) \in Messages
  /\ \A all \in BOOLEAN : Dseg(all) \in Messages
BY DEF Dsee, DseepMsg, Dseg, Messages

LEMMA MessageFields ==
  ASSUME NEW m \in Messages
  PROVE  /\ m.type = "dsee" => m.new \in BOOLEAN /\ m.now \in 1 .. MaxRegister
                               /\ m.age \in 0 .. Disabled
         /\ m.type = "dseep" => m.skew \in Skews /\ m.stop \in BOOLEAN
         /\ m.type = "dseg" => m.all \in BOOLEAN
BY DEF Messages

LEMMA AnswerLeaves ==
  ASSUME IInv, NEW x, NEW sent, sent \subseteq Envelopes, Answer(x, sent)
  PROVE  net' \subseteq Envelopes
BY DEF IInv, MasternodeTypeOK, Answer, Envelopes

LEMMA InitInv == Init => IInv
<1> SUFFICES ASSUME Init PROVE IInv
  OBVIOUS
<1>1. MasternodeTypeOK
  <2>1. 0 \in 0 .. MaxRegister /\ 0 \in 0 .. DsegAgain /\ 0 \in 0 .. MaxFaults
    OBVIOUS
  <2>2. asked \in [Nodes -> 0 .. DsegAgain] /\ vecMasternodes \in [Nodes -> Entries \cup {None}]
    BY <2>1 DEF Init
  <2> QED BY <2>1, <2>2 DEF Init, MasternodeTypeOK
<1>2. SoundList
  BY DEF Init, SoundList
<1> QED BY <1>1, <1>2 DEF IInv

\* A sound list and the types of the rest make the invariant.
LEMMA InvFrom ==
  ASSUME SoundList',
         status' \in {"new", "capable", "stopped", "down"},
         spent' \in BOOLEAN /\ pinged' \in BOOLEAN,
         regs' \in 0 .. MaxRegister,
         asked' \in [Nodes -> 0 .. DsegAgain],
         net' \subseteq Envelopes,
         swept' \subseteq Nodes /\ synced' \subseteq Nodes,
         faults' \in 0 .. MaxFaults
  PROVE  IInv'
BY DEF IInv, SoundList, MasternodeTypeOK, Envelopes

\* The invariant in the form in which the steps use it.
LEMMA InvGives ==
  ASSUME IInv
  PROVE  /\ vecMasternodes \in [Nodes -> Entries \cup {None}]
         /\ \A n \in Nodes : vecMasternodes[n] = None \/ SoundEntry(vecMasternodes[n])
         /\ status \in {"new", "capable", "stopped", "down"}
         /\ spent \in BOOLEAN /\ pinged \in BOOLEAN
         /\ regs \in 0 .. MaxRegister
         /\ asked \in [Nodes -> 0 .. DsegAgain]
         /\ net \subseteq Envelopes
         /\ swept \subseteq Nodes /\ synced \subseteq Nodes
         /\ faults \in 0 .. MaxFaults
BY DEF IInv, SoundList, MasternodeTypeOK, Envelopes

LEMMA RegisterInv == IInv /\ Register => IInv'
<1> SUFFICES ASSUME IInv, Register PROVE IInv'
  OBVIOUS
<1>1. regs + 1 \in 1 .. MaxRegister /\ regs + 1 \in 0 .. MaxRegister
  BY InvGives DEF Register
<1>2. PICK e : /\ Put(Owner, e)
               /\ e = IF vecMasternodes[Owner] = None THEN NewEntry(regs + 1, 0)
                      ELSE vecMasternodes[Owner]
  BY DEF Register
<1>3. SoundEntry(e)
  BY <1>1, <1>2, InvGives, NewEntrySound, Bounds
<1>4. net' \subseteq Envelopes
  <2>1. Dsee(TRUE, regs + 1, 0) \in Messages
    BY <1>1, MessageKinds, Bounds
  <2> QED BY <2>1, InvGives, ToPeersAreEnvelopes DEF Register
<1>5. /\ status' = "capable" /\ regs' = regs + 1 /\ pinged' = TRUE
      /\ UNCHANGED <<spent, asked, swept, synced, faults>>
  BY DEF Register
<1> QED BY <1>1, <1>2, <1>3, <1>4, <1>5, PutSound, InvGives, InvFrom

LEMMA SendPingSound ==
  ASSUME IInv, NEW skew \in Skews, NEW stop \in BOOLEAN,
         NEW running \in {"capable", "stopped"}, SendPing(skew, stop, running)
  PROVE  /\ SoundList'
         /\ status' \in {"new", "capable", "stopped", "down"}
         /\ net' \subseteq Envelopes
<1>1. CASE vecMasternodes[Owner] = None
  <2>1. status' = "new" /\ vecMasternodes' = vecMasternodes /\ net' = net
    BY <1>1 DEF SendPing
  <2> QED BY <2>1, InvGives DEF SoundList
<1>2. CASE vecMasternodes[Owner] # None
  <2> DEFINE e == [vecMasternodes[Owner] EXCEPT !.age = 0]
  <2>1. /\ status' = running
        /\ Put(Owner, e)
        /\ net' = net \cup ToPeers(Owner, DseepMsg(skew, stop))
    BY <1>2 DEF SendPing
  <2>2. vecMasternodes[Owner] \in Entries
    BY <1>2, InvGives
  <2>3. e \in Entries /\ e.age = 0
    BY <2>2, Bounds DEF Entries
  <2>4. SoundEntry(e)
    BY <2>3, SeenSound
  <2> HIDE DEF e
  <2> QED BY <2>1, <2>4, PutSound, InvGives, MessageKinds, ToPeersAreEnvelopes
<1> QED BY <1>1, <1>2

LEMMA PingInv ==
  ASSUME IInv, NEW skew \in Skews, Dseep(skew) \/ StopMasterNode(skew)
  PROVE  IInv'
<1>1. CASE Dseep(skew)
  <2>1. SendPing(skew, FALSE, "capable") /\ pinged' = TRUE
        /\ UNCHANGED <<spent, regs, asked, swept, synced, faults>>
    BY <1>1 DEF Dseep
  <2>2. /\ SoundList'
        /\ status' \in {"new", "capable", "stopped", "down"}
        /\ net' \subseteq Envelopes
    BY <2>1, SendPingSound
  <2> QED BY <2>1, <2>2, InvGives, InvFrom
<1>2. CASE StopMasterNode(skew)
  <2>1. SendPing(skew, TRUE, "stopped") /\ faults < MaxFaults /\ faults' = faults + 1
        /\ UNCHANGED <<spent, regs, asked, pinged, swept, synced>>
    BY <1>2 DEF StopMasterNode
  <2>2. /\ SoundList'
        /\ status' \in {"new", "capable", "stopped", "down"}
        /\ net' \subseteq Envelopes
    BY <2>1, SendPingSound
  <2>3. faults' \in 0 .. MaxFaults
    BY <2>1, InvGives
  <2> QED BY <2>1, <2>2, <2>3, InvGives, InvFrom
<1> QED BY <1>1, <1>2

LEMMA ReceiveDseeKnownInv ==
  ASSUME IInv, NEW x \in net, ReceiveDseeKnown(x)
  PROVE  IInv'
<1> DEFINE n == x.to
           m == x.msg
           e == vecMasternodes[n]
<1>1. n \in Nodes /\ m \in Messages
  BY InvGives DEF Envelopes
<1>2. /\ m.type = "dsee" /\ e # None
      /\ UNCHANGED <<status, spent, regs, asked, pinged, swept, synced, faults>>
  BY DEF ReceiveDseeKnown
<1>3. e \in Entries
  BY <1>1, <1>2, InvGives
<1>4. SoundList' /\ net' \subseteq Envelopes
  <2>1. CASE m.new /\ e.age >= MinDsee
    <3> DEFINE y == [e EXCEPT !.age = 0, !.now = IF @ < m.now THEN m.now ELSE @]
    <3>1. Put(n, y) /\ Answer(x, IF e.now < m.now THEN ToPeers(n, m) ELSE {})
      BY <2>1 DEF ReceiveDseeKnown
    <3>2. m.now \in 1 .. MaxRegister
      BY <1>1, <1>2, MessageFields
    <3>3. y \in Entries /\ y.age = 0
      BY <1>3, <3>2, Bounds DEF Entries
    <3>4. SoundEntry(y)
      BY <3>3, SeenSound
    <3> HIDE DEF y
    <3>5. (IF e.now < m.now THEN ToPeers(n, m) ELSE {}) \subseteq Envelopes
      BY <1>1, ToPeersAreEnvelopes
    <3> QED BY <1>1, <3>1, <3>4, <3>5, PutSound, AnswerLeaves
  <2>2. CASE ~(m.new /\ e.age >= MinDsee)
    <3>1. Answer(x, {}) /\ UNCHANGED vecMasternodes
      BY <2>2 DEF ReceiveDseeKnown
    <3> QED BY <3>1, AnswerLeaves DEF IInv, SoundList
  <2> QED BY <2>1, <2>2
<1> QED BY <1>2, <1>4, InvGives, InvFrom

LEMMA ReceiveDseeNewInv ==
  ASSUME IInv, NEW x \in net, ReceiveDseeNew(x)
  PROVE  IInv'
<1> DEFINE n == x.to
           m == x.msg
<1>1. n \in Nodes /\ m \in Messages
  BY InvGives DEF Envelopes
<1>2. /\ m.type = "dsee"
      /\ UNCHANGED <<spent, regs, asked, pinged, swept, synced, faults>>
  BY DEF ReceiveDseeNew
<1>3. CASE spent
  <2>1. Answer(x, {}) /\ UNCHANGED <<vecMasternodes, status>>
    BY <1>3 DEF ReceiveDseeNew
  <2>2. SoundList'
    BY <2>1 DEF IInv, SoundList
  <2> QED BY <1>2, <2>1, <2>2, AnswerLeaves, InvGives, InvFrom
<1>4. CASE ~spent
  <2>1. /\ Put(n, NewEntry(m.now, m.age))
        /\ status' = IF n = Owner THEN "capable" ELSE status
        /\ Answer(x, IF m.new THEN ToPeers(n, m) ELSE {})
    BY <1>4 DEF ReceiveDseeNew
  <2>2. m.now \in 1 .. MaxRegister /\ m.age \in 0 .. Disabled
    BY <1>1, <1>2, MessageFields
  <2>3. SoundList'
    BY <1>1, <2>1, <2>2, NewEntrySound, PutSound
  <2>4. (IF m.new THEN ToPeers(n, m) ELSE {}) \subseteq Envelopes
    BY <1>1, ToPeersAreEnvelopes
  <2>5. status' \in {"new", "capable", "stopped", "down"}
    BY <2>1, InvGives
  <2> QED BY <1>2, <2>1, <2>3, <2>4, <2>5, AnswerLeaves, InvGives, InvFrom
<1> QED BY <1>3, <1>4

LEMMA ReceiveDseepKnownInv ==
  ASSUME IInv, NEW x \in net, ReceiveDseepKnown(x)
  PROVE  IInv'
<1> DEFINE n == x.to
           m == x.msg
           e == vecMasternodes[n]
<1>1. n \in Nodes /\ m \in Messages
  BY InvGives DEF Envelopes
<1>2. /\ m.type = "dseep" /\ e # None
      /\ UNCHANGED <<status, spent, regs, asked, pinged, swept, synced, faults>>
  BY DEF ReceiveDseepKnown
<1>3. SoundEntry(e)
  BY <1>1, <1>2, InvGives
<1>4. SoundList' /\ net' \subseteq Envelopes
  <2>1. ASSUME NEW st \in CheckStates(e), TakePing(x, st)
        PROVE  SoundList' /\ net' \subseteq Envelopes
    <3> DEFINE y == Checked([e EXCEPT !.dseep = -m.skew], st)
    <3>1. m.skew \in Skews
      BY <1>1, <1>2, MessageFields
    <3>2. /\ st # "enabled" => SoundEntry(y)
          /\ SoundEntry(SeenByPing(y))
          /\ SoundEntry([y EXCEPT !.age = Disabled]) \/ st # "enabled"
      BY <1>3, <3>1, PingSound
    <3>3. CASE st = "enabled"
      <4>1. /\ Put(n, IF m.stop THEN [y EXCEPT !.age = Disabled] ELSE SeenByPing(y))
            /\ Answer(x, ToPeers(n, m))
        BY <2>1, <3>3 DEF TakePing
      <4> HIDE DEF y
      <4>2. SoundEntry(IF m.stop THEN [y EXCEPT !.age = Disabled] ELSE SeenByPing(y))
        BY <3>2, <3>3
      <4> QED BY <1>1, <4>1, <4>2, PutSound, ToPeersAreEnvelopes, AnswerLeaves
    <3>4. CASE st # "enabled"
      <4>1. Put(n, y) /\ Answer(x, {})
        BY <2>1, <3>4 DEF TakePing
      <4> HIDE DEF y
      <4> QED BY <1>1, <3>2, <3>4, <4>1, PutSound, AnswerLeaves
    <3> QED BY <3>3, <3>4
  <2>2. CASE Answer(x, {}) /\ UNCHANGED vecMasternodes
    BY <2>2, AnswerLeaves DEF IInv, SoundList
  <2> QED BY <2>1, <2>2 DEF ReceiveDseepKnown
<1> QED BY <1>2, <1>4, InvGives, InvFrom

LEMMA ReceiveDseepNewInv ==
  ASSUME IInv, NEW x \in net, ReceiveDseepNew(x)
  PROVE  IInv'
<1>1. x.from \in Nodes /\ x.to \in Nodes
  BY InvGives DEF Envelopes
<1>2. UNCHANGED <<vecMasternodes, status, spent, regs, pinged, swept, synced, faults>>
  BY DEF ReceiveDseepNew
<1>3. SoundList'
  BY <1>2 DEF IInv, SoundList
<1>4. asked' \in [Nodes -> 0 .. DsegAgain] /\ net' \subseteq Envelopes
  <2>1. CASE asked[x.to] > 0
    <3>1. Answer(x, {}) /\ asked' = asked
      BY <2>1 DEF ReceiveDseepNew, AskForMN
    <3> QED BY <3>1, AnswerLeaves, InvGives
  <2>2. CASE ~(asked[x.to] > 0)
    <3>1. /\ Answer(x, {Mail(x.to, x.from, Dseg(FALSE))})
          /\ asked' = [asked EXCEPT ![x.to] = DsegAgain]
      BY <2>2 DEF ReceiveDseepNew, AskForMN
    <3>2. Mail(x.to, x.from, Dseg(FALSE)) \in Envelopes
      BY <1>1, MessageKinds, MailIsEnvelope
    <3>3. DsegAgain \in 0 .. DsegAgain
      OBVIOUS
    <3> QED BY <3>1, <3>2, <3>3, AnswerLeaves, InvGives
  <2> QED BY <2>1, <2>2
<1> QED BY <1>2, <1>3, <1>4, InvGives, InvFrom

LEMMA ReceiveDsegInv ==
  ASSUME IInv, NEW x \in net, ReceiveDseg(x)
  PROVE  IInv'
<1> DEFINE e == vecMasternodes[x.to]
           reply == {Mail(x.to, x.from, Dsee(FALSE, e.now, e.age))}
<1>1. x.from \in Nodes /\ x.to \in Nodes
  BY InvGives DEF Envelopes
<1>2. UNCHANGED <<vecMasternodes, status, spent, regs, asked, pinged, swept, synced, faults>>
  BY DEF ReceiveDseg
<1>3. e = None \/ reply \subseteq Envelopes
  <2>1. SUFFICES ASSUME e # None PROVE reply \subseteq Envelopes
    OBVIOUS
  <2>2. e.now \in 1 .. MaxRegister /\ e.age \in 0 .. Disabled
    BY <1>1, <2>1, InvGives, EntryFields
  <2> QED BY <1>1, <2>2, MessageKinds, MailIsEnvelope
<1> HIDE DEF reply
<1>4. \/ Answer(x, {})
      \/ e # None /\ Answer(x, reply)
  BY DEF ReceiveDseg, reply
<1>5. net' \subseteq Envelopes
  BY <1>3, <1>4, AnswerLeaves
<1>6. SoundList'
  BY <1>2 DEF IInv, SoundList
<1> QED BY <1>2, <1>5, <1>6, InvGives, InvFrom

LEMMA CheckAndRemoveInv ==
  ASSUME IInv, NEW n \in Nodes, CheckAndRemove(n)
  PROVE  IInv'
<1> DEFINE e == vecMasternodes[n]
<1>1. /\ swept' = swept \cup {n}
      /\ UNCHANGED <<status, spent, regs, asked, net, pinged, synced, faults>>
  BY DEF CheckAndRemove
<1>2. SoundList'
  <2>1. CASE e = None
    <3>1. UNCHANGED vecMasternodes
      BY <2>1 DEF CheckAndRemove
    <3> QED BY <3>1 DEF IInv, SoundList
  <2>2. CASE e # None
    <3>1. PICK st \in CheckStates(e) :
            Put(n, IF st \in {"remove", "spent"} THEN None ELSE Checked(e, st))
      BY <2>2 DEF CheckAndRemove
    <3>2. SoundEntry(Checked(e, st))
      BY <2>2, InvGives, CheckedSound
    <3> QED BY <3>1, <3>2, PutSound
  <2> QED BY <2>1, <2>2
<1>3. swept' \subseteq Nodes
  BY <1>1, InvGives
<1> QED BY <1>1, <1>2, <1>3, InvGives, InvFrom

LEMMA RestartInv ==
  ASSUME IInv, NEW n \in Nodes, NEW back \in BOOLEAN, Restart(n, back)
  PROVE  IInv'
<1>1. /\ faults < MaxFaults /\ faults' = faults + 1
      /\ Put(n, None)
      /\ asked' = [asked EXCEPT ![n] = 0]
      /\ status' = IF n # Owner THEN status ELSE IF back THEN "new" ELSE "down"
      /\ net' = {x \in net : n \notin {x.from, x.to}}
      /\ UNCHANGED <<spent, regs, pinged, swept, synced>>
  BY DEF Restart
<1>2. SoundList'
  BY <1>1, PutSound
<1>3. faults' \in 0 .. MaxFaults
  BY <1>1, InvGives
<1>4. asked' \in [Nodes -> 0 .. DsegAgain]
  <2>1. 0 \in 0 .. DsegAgain
    OBVIOUS
  <2> QED BY <1>1, <2>1, InvGives
<1>5. status' \in {"new", "capable", "stopped", "down"}
  BY <1>1, InvGives
<1> QED BY <1>1, <1>2, <1>3, <1>4, <1>5, InvGives, InvFrom

LEMMA TickInv == IInv /\ Tick => IInv'
<1> SUFFICES ASSUME IInv, Tick PROVE IInv'
  OBVIOUS
<1>1. /\ vecMasternodes' = [n \in Nodes |-> IF vecMasternodes[n] = None THEN None
                                            ELSE Older(vecMasternodes[n])]
      /\ asked' = [n \in Nodes |-> IF asked[n] > 0 THEN asked[n] - 1 ELSE 0]
      /\ pinged' = FALSE /\ swept' = {} /\ synced' = {}
      /\ UNCHANGED <<status, spent, regs, net, faults>>
  BY DEF Tick
<1>2. ASSUME NEW n \in Nodes
      PROVE  vecMasternodes'[n] = None \/ SoundEntry(vecMasternodes'[n])
  <2>1. CASE vecMasternodes[n] = None BY <1>1, <2>1
  <2>2. CASE vecMasternodes[n] # None
    <3>1. SoundEntry(Older(vecMasternodes[n]))
      BY <2>2, InvGives, OlderSound
    <3> QED BY <1>1, <2>2, <3>1
  <2> QED BY <2>1, <2>2
<1>3. SoundList'
  <2>1. \A n \in Nodes : vecMasternodes'[n] \in Entries \cup {None}
    BY <1>2 DEF SoundEntry
  <2> QED BY <1>1, <1>2, <2>1 DEF SoundList
<1>4. asked' \in [Nodes -> 0 .. DsegAgain]
  <2>1. ASSUME NEW n \in Nodes PROVE (IF asked[n] > 0 THEN asked[n] - 1 ELSE 0) \in 0 .. DsegAgain
    <3>1. asked[n] \in 0 .. DsegAgain
      BY InvGives
    <3> QED BY <3>1
  <2> QED BY <1>1, <2>1
<1> QED BY <1>1, <1>3, <1>4, InvGives, InvFrom

\* The steps that leave the list alone.
LEMMA OtherInv ==
  ASSUME IInv,
         \/ \E x \in net : Lose(x)
         \/ \E n, p \in Nodes : SyncList(n, p)
         \/ Spend
         \/ UNCHANGED vars
  PROVE  IInv'
<1>1. CASE \E x \in net : Lose(x)
  <2>1. /\ UNCHANGED <<vecMasternodes, status, spent, regs, asked, pinged, swept, synced>>
        /\ faults < MaxFaults /\ faults' = faults + 1 /\ net' \subseteq net
    BY <1>1 DEF Lose
  <2>2. SoundList'
    BY <2>1 DEF IInv, SoundList
  <2>3. faults' \in 0 .. MaxFaults
    BY <2>1, InvGives
  <2> QED BY <2>1, <2>2, <2>3, InvGives, InvFrom
<1>2. CASE \E n, p \in Nodes : SyncList(n, p)
  <2>1. PICK n \in Nodes, p \in Nodes : SyncList(n, p)
    BY <1>2
  <2>2. /\ net' = net \cup {Mail(n, p, Dseg(TRUE))} /\ synced' = synced \cup {n}
        /\ UNCHANGED <<vecMasternodes, status, spent, regs, asked, pinged, swept, faults>>
    BY <2>1 DEF SyncList
  <2>3. SoundList'
    BY <2>2 DEF IInv, SoundList
  <2>4. net' \subseteq Envelopes /\ synced' \subseteq Nodes
    BY <2>2, InvGives, MessageKinds, MailIsEnvelope
  <2> QED BY <2>2, <2>3, <2>4, InvGives, InvFrom
<1>3. CASE Spend
  <2>1. /\ UNCHANGED <<vecMasternodes, status, regs, asked, net, pinged, swept, synced>>
        /\ spent' = TRUE /\ faults < MaxFaults /\ faults' = faults + 1
    BY <1>3 DEF Spend
  <2>2. SoundList'
    BY <2>1 DEF IInv, SoundList
  <2>3. faults' \in 0 .. MaxFaults
    BY <2>1, InvGives
  <2> QED BY <2>1, <2>2, <2>3, InvGives, InvFrom
<1>4. CASE UNCHANGED vars
  BY <1>4 DEF vars, IInv, SoundList, MasternodeTypeOK
<1> QED BY <1>1, <1>2, <1>3, <1>4

LEMMA Invariant == Spec => []IInv
<1>1. Init => IInv
  BY InitInv
<1>2. IInv /\ [Next]_vars => IInv'
  <2> SUFFICES ASSUME IInv, [Next]_vars PROVE IInv'
    OBVIOUS
  <2>1. ASSUME NEW x \in net, Receive(x) PROVE IInv'
    BY <2>1, ReceiveDseeKnownInv, ReceiveDseeNewInv, ReceiveDseepKnownInv,
       ReceiveDseepNewInv, ReceiveDsegInv DEF Receive
  <2> QED BY <2>1, RegisterInv, PingInv, CheckAndRemoveInv, RestartInv, TickInv, OtherInv DEF Next
<1> QED BY <1>1, <1>2, PTL DEF Spec

-----------------------------------------------------------------------------
(* The results.                                                            *)

\* Entries, messages and counters keep their ranges through every handler of
\* masternode.cpp, every restart and every loss.
THEOREM MasternodeTypeCorrect == Spec => []MasternodeTypeOK
<1>1. IInv => MasternodeTypeOK
  BY DEF IInv
<1> QED BY <1>1, Invariant, PTL

\* A ping that the handler of dseep refuses because the last one is not old enough comes from a
\* masternode that was seen lately enough, for every network and every drift of the clock.
THEOREM SeenSincePingHolds == Spec => []SeenSincePing
<1>1. IInv => SeenSincePing
  <2> SUFFICES ASSUME IInv, NEW n \in Nodes, vecMasternodes[n] # None,
                      vecMasternodes[n].state = "enabled",
                      vecMasternodes[n].age # Disabled,
                      vecMasternodes[n].dseep < Unpinged
               PROVE  vecMasternodes[n].age <= vecMasternodes[n].dseep + Drift
    BY DEF SeenSincePing
  <2>1. SoundEntry(vecMasternodes[n])
    BY InvGives
  <2>2. vecMasternodes[n].dseep # Unpinged
    BY Bounds
  <2> QED BY <2>1, <2>2 DEF SoundEntry, SeenAfterPing
<1> QED BY <1>1, Invariant, PTL
=============================================================================
