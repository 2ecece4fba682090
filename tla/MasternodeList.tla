-------------------------- MODULE MasternodeList --------------------------
(***************************************************************************)
(* The list of masternodes (masternode.cpp) that every node keeps of its   *)
(* own, and the masternode that keeps itself on it (activemasternode.cpp). *)
(* One masternode is modelled; entries do not affect each other.  It       *)
(* registers with a dsee message and pings with dseep; a node that is      *)
(* pinged by a masternode it does not list asks the sender for the entry   *)
(* (dseg), and asks its peers for their whole lists now and then.          *)
(*                                                                         *)
(* Times are ages, counted in the minutes of ThreadCheckDarkSendPool: in   *)
(* each a masternode pings once and every node sweeps its list once.       *)
(* Messages arrive within the minute or are lost.  lastTimeSeen = 0, which *)
(* Disable sets, is the age Disabled, beyond every other.  CMasternode::   *)
(* Check does nothing within five seconds of the last check: within the    *)
(* minute of a check, checked, it may be skipped.  The clock that signs    *)
(* pings may be off by Skews.  Hot and cold start by another node, several *)
(* addresses or keys for one collateral, and bad signatures are left out.  *)
(***************************************************************************)
EXTENDS Integers

CONSTANTS Nodes,
          Links,        \* the connections, both ways
          Owner,        \* the node that is the masternode
          MinDsee, MinDseep, Expiration, Removal, DsegAgain,
          Drift,        \* how far the clock that signs pings wanders
          Skews,        \* how far ahead that clock is, at each ping
          MaxRegister,  \* bound: registrations
          MaxFaults,    \* bound: losses, restarts, stops and spends
          None

ASSUME MasternodeAssumption ==
  /\ Links \subseteq Nodes \X Nodes /\ \A l \in Links : <<l[2], l[1]>> \in Links
  /\ Owner \in Nodes
  /\ MinDsee \in Nat /\ MinDseep \in Nat /\ Expiration \in Nat /\ Removal \in Nat
  /\ DsegAgain \in Nat /\ Drift \in Nat /\ MaxRegister \in Nat /\ MaxFaults \in Nat
  /\ 0 < MinDsee /\ MinDsee < MinDseep + Drift
  /\ MinDseep + Drift + 1 < Expiration /\ Expiration < Removal
  /\ Skews \subseteq 0 .. Drift

Disabled == Removal + 1             \* lastTimeSeen = 0
Unpinged == MinDseep + 1            \* lastDseep so old that any ping is newer

Entries == [age : 0 .. Disabled, dseep : -Drift .. Unpinged, now : 1 .. MaxRegister,
            state : {"enabled", "expired", "remove", "spent"}, checked : BOOLEAN]

ASSUME NoEntryAssumption == None \notin Entries

VARIABLES vecMasternodes,  \* the entry of each node, or None
          status,          \* of the masternode: "new", "capable", "stopped" or "down"
          spent,           \* the collateral is spent
          regs,            \* registrations made
          asked,           \* minutes until a node may ask for the entry again
          net,             \* messages under way
          pinged, swept, synced,  \* what was done in this minute
          faults

vars == <<vecMasternodes, status, spent, regs, asked, net, pinged, swept, synced, faults>>

Init ==
  /\ vecMasternodes = [n \in Nodes |-> None]
  /\ status = "new" /\ spent = FALSE /\ regs = 0
  /\ asked = [n \in Nodes |-> 0]
  /\ net = {}
  /\ pinged = FALSE /\ swept = {} /\ synced = {}
  /\ faults = 0

-----------------------------------------------------------------------------
(* An entry.                                                               *)

\* UpdateLastSeen(override): 0 stands for the present.
NewEntry(now, age) ==
  [age |-> IF age = Disabled THEN 0 ELSE age, dseep |-> Unpinged, now |-> now,
   state |-> "enabled", checked |-> FALSE]

\* Fault: an entry is taken for expired where it should be removed.
StateNowKept(e) ==
  IF e.state = "spent" THEN "spent"
  ELSE IF e.age >= Expiration THEN "expired"
  ELSE IF spent THEN "spent"
  ELSE "enabled"

\* CMasternode::Check, when it is not skipped.
StateNow(e) ==
  IF e.state = "spent" THEN "spent"
  ELSE IF e.age >= Removal THEN "remove"
  ELSE IF e.age >= Expiration THEN "expired"
  ELSE IF spent THEN "spent"
  ELSE "enabled"

CheckStates(e) == {StateNow(e)} \cup (IF e.checked THEN {e.state} ELSE {})

Checked(e, st) == [e EXCEPT !.state = st, !.checked = TRUE]

Put(n, e) == vecMasternodes' = [vecMasternodes EXCEPT ![n] = e]

-----------------------------------------------------------------------------
(* Messages.                                                               *)

Peers(n) == {l[2] : l \in {k \in Links : k[1] = n /\ (k[2] = Owner => status # "down")}}

Dsee(new, now, age) == [type |-> "dsee", new |-> new, now |-> now, age |-> age]
DseepMsg(skew, stop) == [type |-> "dseep", skew |-> skew, stop |-> stop]
Dseg(all)           == [type |-> "dseg", all |-> all]

Mail(n, p, m)   == [from |-> n, to |-> p, msg |-> m]
ToPeers(n, m)   == {Mail(n, p, m) : p \in Peers(n)}
Answer(x, sent) == net' = (net \ {x}) \cup sent

\* CActiveMasternode::ManageStatus in the minute of a node that is not registered.
Register ==
  /\ status = "new" /\ ~spent /\ regs < MaxRegister /\ ~pinged
  /\ status' = "capable"
  /\ regs' = regs + 1
  /\ pinged' = TRUE
  /\ Put(Owner, IF vecMasternodes[Owner] = None THEN NewEntry(regs + 1, 0)
                ELSE vecMasternodes[Owner])
  /\ net' = net \cup ToPeers(Owner, Dsee(TRUE, regs + 1, 0))
  /\ UNCHANGED <<spent, asked, swept, synced, faults>>

\* CActiveMasternode::Dseep: without an entry of its own the masternode gives up.
SendPing(skew, stop, running) ==
  IF vecMasternodes[Owner] = None
  THEN status' = "new" /\ UNCHANGED <<vecMasternodes, net>>
  ELSE /\ status' = running
       /\ Put(Owner, [vecMasternodes[Owner] EXCEPT !.age = 0])
       /\ net' = net \cup ToPeers(Owner, DseepMsg(skew, stop))

Dseep(skew) ==
  /\ status = "capable" /\ ~pinged
  /\ SendPing(skew, FALSE, "capable")
  /\ pinged' = TRUE
  /\ UNCHANGED <<spent, regs, asked, swept, synced, faults>>

StopMasterNode(skew) ==
  /\ status = "capable" /\ faults < MaxFaults
  /\ SendPing(skew, TRUE, "stopped")
  /\ faults' = faults + 1
  /\ UNCHANGED <<spent, regs, asked, pinged, swept, synced>>

\* dsee for an entry that is listed: a broadcast only, and not too often.
ReceiveDseeKnown(x) ==
  LET n == x.to
      m == x.msg
      e == vecMasternodes[n]
  IN  /\ m.type = "dsee" /\ e # None
      /\ IF m.new /\ e.age >= MinDsee
         THEN /\ Put(n, [e EXCEPT !.age = 0, !.now = IF @ < m.now THEN m.now ELSE @])
              /\ Answer(x, IF e.now < m.now THEN ToPeers(n, m) ELSE {})
         ELSE Answer(x, {}) /\ UNCHANGED vecMasternodes
      /\ UNCHANGED <<status, spent, regs, asked, pinged, swept, synced, faults>>

\* dsee for an entry that is new.  A masternode that is told of itself takes it
\* for an activation (EnableHotColdMasterNode).
ReceiveDseeNew(x) ==
  LET n == x.to
      m == x.msg
  IN  /\ m.type = "dsee" /\ vecMasternodes[n] = None
      /\ IF spent
         THEN Answer(x, {}) /\ UNCHANGED <<vecMasternodes, status>>
         ELSE /\ Put(n, NewEntry(m.now, m.age))
              /\ status' = IF n = Owner THEN "capable" ELSE status
              /\ Answer(x, IF m.new THEN ToPeers(n, m) ELSE {})
      /\ UNCHANGED <<spent, regs, asked, pinged, swept, synced, faults>>

\* Fault: the entry is marked as pinged, but not as seen.
SeenByPingNot(e) == e

SeenByPing(e) == [e EXCEPT !.age = 0]

\* dseep for an entry that is listed, and newer by MinDseep than the last.
TakePing(x, st) ==
  LET n == x.to
      m == x.msg
      e == Checked([vecMasternodes[n] EXCEPT !.dseep = -m.skew], st)
  IN  IF st = "enabled"
      THEN /\ Put(n, IF m.stop THEN [e EXCEPT !.age = Disabled] ELSE SeenByPing(e))
           /\ Answer(x, ToPeers(n, m))
      ELSE Put(n, e) /\ Answer(x, {})

IsNewerPing(e, skew) == e.dseep + skew > MinDseep

ReceiveDseepKnown(x) ==
  LET e == vecMasternodes[x.to] IN
    /\ x.msg.type = "dseep" /\ e # None
    /\ IF IsNewerPing(e, x.msg.skew)
       THEN \E st \in CheckStates(e) : TakePing(x, st)
       ELSE Answer(x, {}) /\ UNCHANGED vecMasternodes
    /\ UNCHANGED <<status, spent, regs, asked, pinged, swept, synced, faults>>

\* Fault: the sender of a ping is not asked for what is missing.
AskForMNNot(x) == Answer(x, {}) /\ asked' = asked

\* Fault: every ping asks, and puts the next request off.
AskForMNAgain(x) ==
  /\ Answer(x, {Mail(x.to, x.from, Dseg(FALSE))})
  /\ asked' = [asked EXCEPT ![x.to] = @ + DsegAgain]

\* CMasternodeMan::AskForMN.
AskForMN(x) ==
  IF asked[x.to] > 0
  THEN Answer(x, {}) /\ asked' = asked
  ELSE /\ Answer(x, {Mail(x.to, x.from, Dseg(FALSE))})
       /\ asked' = [asked EXCEPT ![x.to] = DsegAgain]

\* dseep for an entry that is not listed.
ReceiveDseepNew(x) ==
  /\ x.msg.type = "dseep" /\ vecMasternodes[x.to] = None
  /\ AskForMN(x)
  /\ UNCHANGED <<vecMasternodes, status, spent, regs, pinged, swept, synced, faults>>

\* dseg: the whole list, its entries checked, or the one entry as it is.
ReceiveDseg(x) ==
  LET e == vecMasternodes[x.to]
      reply == {Mail(x.to, x.from, Dsee(FALSE, e.now, e.age))}
  IN  /\ x.msg.type = "dseg"
      /\ IF e = None THEN Answer(x, {})
         ELSE IF x.msg.all
         THEN \E st \in CheckStates(e) : Answer(x, IF st = "enabled" THEN reply ELSE {})
         ELSE Answer(x, reply)
      /\ UNCHANGED <<vecMasternodes, status, spent, regs, asked, pinged, swept, synced, faults>>

\* ThreadCheckDarkSendPool asks a peer, drawn by lot, for its list.  Bound: once a minute.
SyncList(n, p) ==
  /\ n \notin synced /\ p \in Peers(n) /\ (n = Owner => status # "down")
  /\ net' = net \cup {Mail(n, p, Dseg(TRUE))}
  /\ synced' = synced \cup {n}
  /\ UNCHANGED <<vecMasternodes, status, spent, regs, asked, pinged, swept, faults>>

\* ThreadCheckDarkSendPool sweeps the list.
CheckAndRemove(n) ==
  LET e == vecMasternodes[n] IN
    /\ n \notin swept
    /\ swept' = swept \cup {n}
    /\ IF e = None THEN UNCHANGED vecMasternodes
       ELSE \E st \in CheckStates(e) :
              Put(n, IF st \in {"remove", "spent"} THEN None ELSE Checked(e, st))
    /\ UNCHANGED <<status, spent, regs, asked, net, pinged, synced, faults>>

-----------------------------------------------------------------------------
(* Faults, and time.                                                       *)

Lose(x) ==
  /\ faults < MaxFaults /\ faults' = faults + 1
  /\ net' = net \ {x}
  /\ UNCHANGED <<vecMasternodes, status, spent, regs, asked, pinged, swept, synced>>

Spend ==
  /\ ~spent /\ faults < MaxFaults
  /\ spent' = TRUE /\ faults' = faults + 1
  /\ UNCHANGED <<vecMasternodes, status, regs, asked, net, pinged, swept, synced>>

\* A node restarts, or the masternode is gone for good: its list is not kept.
Restart(n, back) ==
  /\ faults < MaxFaults /\ faults' = faults + 1
  /\ n = Owner \/ back
  /\ n = Owner => status # "down"
  /\ Put(n, None)
  /\ asked' = [asked EXCEPT ![n] = 0]
  /\ status' = IF n # Owner THEN status ELSE IF back THEN "new" ELSE "down"
  /\ net' = {x \in net : n \notin {x.from, x.to}}
  /\ UNCHANGED <<spent, regs, pinged, swept, synced>>

Older(e) == [e EXCEPT !.age = IF @ < Removal THEN @ + 1 ELSE @,
                      !.dseep = IF @ < Unpinged THEN @ + 1 ELSE @,
                      !.checked = FALSE]

\* A minute ends.
Tick ==
  /\ net = {} /\ swept = Nodes /\ (status = "capable" => pinged)
  /\ vecMasternodes' = [n \in Nodes |-> IF vecMasternodes[n] = None THEN None
                                        ELSE Older(vecMasternodes[n])]
  /\ asked' = [n \in Nodes |-> IF asked[n] > 0 THEN asked[n] - 1 ELSE 0]
  /\ pinged' = FALSE /\ swept' = {} /\ synced' = {}
  /\ UNCHANGED <<status, spent, regs, net, faults>>

Receive(x) ==
  \/ ReceiveDseeKnown(x)
  \/ ReceiveDseeNew(x)
  \/ ReceiveDseepKnown(x)
  \/ ReceiveDseepNew(x)
  \/ ReceiveDseg(x)

Next ==
  \/ Register
  \/ \E skew \in Skews : Dseep(skew) \/ StopMasterNode(skew)
  \/ \E x \in net : Receive(x) \/ Lose(x)
  \/ \E n, p \in Nodes : SyncList(n, p)
  \/ \E n \in Nodes : CheckAndRemove(n)
  \/ \E n \in Nodes, back \in BOOLEAN : Restart(n, back)
  \/ Spend
  \/ Tick

Spec == Init /\ [][Next]_vars

(***************************************************************************)
(* Messages arrive, the thread of every node makes its rounds and time     *)
(* passes; whether a node asks its peers for their lists is left open.     *)
(***************************************************************************)
FairSpec ==
  /\ Spec
  /\ WF_vars(Register) /\ WF_vars(\E skew \in Skews : Dseep(skew))
  /\ WF_vars(\E x \in net : Receive(x))
  /\ \A n \in Nodes : WF_vars(CheckAndRemove(n))
  /\ WF_vars(Tick)

-----------------------------------------------------------------------------
Messages == [type : {"dsee"}, new : BOOLEAN, now : 1 .. MaxRegister, age : 0 .. Disabled]
              \cup [type : {"dseep"}, skew : Skews, stop : BOOLEAN]
              \cup [type : {"dseg"}, all : BOOLEAN]

\* Type invariant.
MasternodeTypeOK ==
  /\ vecMasternodes \in [Nodes -> Entries \cup {None}]
  /\ status \in {"new", "capable", "stopped", "down"}
  /\ spent \in BOOLEAN /\ pinged \in BOOLEAN
  /\ regs \in 0 .. MaxRegister
  /\ asked \in [Nodes -> 0 .. DsegAgain]
  /\ net \subseteq [from : Nodes, to : Nodes, msg : Messages]
  /\ swept \subseteq Nodes /\ synced \subseteq Nodes
  /\ faults \in 0 .. MaxFaults

\* A node that takes no ping from an enabled masternode, because the last one is
\* not old enough, has seen it lately enough: refusing pings never lets the entry
\* expire, also when the clock that signs them jumps.
SeenSincePing ==
  \A n \in Nodes : LET e == vecMasternodes[n] IN
    e # None /\ e.state = "enabled" /\ e.age # Disabled /\ e.dseep < Unpinged
      => e.age <= e.dseep + Drift

Listed(n) == /\ vecMasternodes[n] # None
             /\ vecMasternodes[n].state = "enabled"
             /\ StateNow(vecMasternodes[n]) = "enabled"

\* A masternode that keeps running is in the end on the list of every node and
\* stays there, whatever was lost and whoever restarted or dropped it before.
RunningIsListed ==
  <>[](status = "capable" /\ ~spent) => <>[](\A n \in Nodes : Listed(n))

\* A masternode that is gone, or whose collateral is spent, is in the end on no
\* list, though nodes copy their lists from each other.
GoneIsDropped ==
  <>[](status # "capable" \/ spent) => <>[](\A n \in Nodes : vecMasternodes[n] = None)
=============================================================================
