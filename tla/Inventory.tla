----------------------------- MODULE Inventory -----------------------------
(***************************************************************************)
(* How a node learns of transactions and passes them on (CNode::AskFor in  *)
(* net.cpp, the inv and tx messages and SendMessages in main.cpp).  A peer *)
(* that announces what the node does not have is put in the queue to be    *)
(* asked; a first answer ends the matter, and the transaction is announced *)
(* to every peer that is not known to have it.                             *)
(*                                                                         *)
(* Times are relative to the present: a request is due at 0, and the time  *)
(* of the last request for an item falls to -Retry, from where it has no   *)
(* effect, which is also where an item without an entry stands.  Two       *)
(* entries of mapAskFor for one item, peer and time are one.  Every item   *)
(* is a transaction that the memory pool accepts when it is offered first. *)
(***************************************************************************)
EXTENDS Integers, FiniteSets

CONSTANTS Peers,
          Reliable,  \* the peers that stay connected and answer
          Items,
          Trickled,  \* the items that wait for the peer's turn (3 in 4, and our own)
          Retry,     \* two minutes
          MaxInv     \* bound: announcements received of one item

ASSUME InventoryAssumption ==
  /\ Reliable \subseteq Peers
  /\ Trickled \subseteq Items
  /\ Retry \in Nat \ {0} /\ MaxInv \in Nat

VARIABLES have,                \* what AlreadyHave knows
          mapAlreadyAskedFor,  \* time of the last request for an item
          mapAskFor,           \* requests to be sent to each peer, <<time, item>>
          requested,           \* requests each peer has got
          setInventoryKnown,   \* what each peer is known to have, as far as remembered
          vInventoryToSend,    \* what is to be announced to it
          everKnown,           \* history: all setInventoryKnown held since p connected
          vNodes,              \* the peers connected
          invs                 \* announcements received of each item

asking    == <<mapAlreadyAskedFor, mapAskFor, requested>>
announcing == <<setInventoryKnown, vInventoryToSend, everKnown>>
vars      == <<have, asking, announcing, vNodes, invs>>

Later(s, t) == IF s < t THEN t ELSE s

Init ==
  /\ have = {}
  /\ mapAlreadyAskedFor = [i \in Items |-> -Retry]
  /\ mapAskFor = [p \in Peers |-> {}]
  /\ requested = [p \in Peers |-> {}]
  /\ setInventoryKnown = [p \in Peers |-> {}]
  /\ vInventoryToSend = [p \in Peers |-> {}]
  /\ everKnown = [p \in Peers |-> {}]
  /\ vNodes = Peers
  /\ invs = [i \in Items |-> 0]

-----------------------------------------------------------------------------

\* Fault: an item that was asked for lately is not asked for again.
AskForOnce(p, i) ==
  IF mapAlreadyAskedFor[i] > -Retry THEN UNCHANGED <<mapAlreadyAskedFor, mapAskFor>>
  ELSE /\ mapAlreadyAskedFor' = [mapAlreadyAskedFor EXCEPT ![i] = 0]
       /\ mapAskFor' = [mapAskFor EXCEPT ![p] = @ \cup {<<0, i>>}]

AskFor(p, i) ==
  LET nRequestTime == Later(mapAlreadyAskedFor[i] + Retry, 0) IN
    /\ mapAlreadyAskedFor' = [mapAlreadyAskedFor EXCEPT ![i] = nRequestTime]
    /\ mapAskFor' = [mapAskFor EXCEPT ![p] = @ \cup {<<nRequestTime, i>>}]

\* AddInventoryKnown for each item of new.
Insert(p, new) ==
  /\ setInventoryKnown' = [setInventoryKnown EXCEPT ![p] = @ \cup new]
  /\ everKnown' = [everKnown EXCEPT ![p] = @ \cup new]

\* setInventoryKnown keeps the last 1000 items inserted: items that are not modelled
\* push i out.
Forget(p, i) ==
  /\ i \in setInventoryKnown[p]
  /\ setInventoryKnown' = [setInventoryKnown EXCEPT ![p] = @ \ {i}]
  /\ UNCHANGED <<have, asking, vInventoryToSend, everKnown, vNodes, invs>>

\* The inv message.
ReceiveInv(p, i) ==
  /\ p \in vNodes
  /\ invs[i] < MaxInv
  /\ invs' = [invs EXCEPT ![i] = @ + 1]
  /\ Insert(p, {i})
  /\ IF i \in have THEN UNCHANGED <<mapAlreadyAskedFor, mapAskFor>> ELSE AskFor(p, i)
  /\ UNCHANGED <<have, requested, vInventoryToSend, vNodes>>

\* vInvWait: what is held back until p is the peer that gets everything.
InvWait(p, trickle) ==
  IF trickle THEN {} ELSE (vInventoryToSend[p] \ setInventoryKnown[p]) \cap Trickled

\* Fault: what waits for its turn is forgotten.
KeepWaitingNot(p, trickle) == {}

\* vInventoryToSend = vInvWait.
KeepWaiting(p, trickle) == InvWait(p, trickle)

\* Fault: every request puts the next one off, as AskFor does.
AskedAtLater(wanted) ==
  [i \in Items |-> IF i \in wanted THEN Later(mapAlreadyAskedFor[i] + Retry, 0)
                   ELSE mapAlreadyAskedFor[i]]

\* The items asked for are marked with the present.
AskedAt(wanted) ==
  [i \in Items |-> IF i \in wanted THEN 0 ELSE mapAlreadyAskedFor[i]]

\* SendMessages: the inv and the getdata message for p.
SendMessages(p, trickle) ==
  LET vInv   == (vInventoryToSend[p] \ setInventoryKnown[p]) \ InvWait(p, trickle)
      due    == {e \in mapAskFor[p] : e[1] <= 0}
      wanted == {e[2] : e \in due} \ have
  IN  /\ p \in vNodes
      /\ Insert(p, vInv)
      /\ vInventoryToSend' = [vInventoryToSend EXCEPT ![p] = KeepWaiting(p, trickle)]
      /\ mapAskFor' = [mapAskFor EXCEPT ![p] = @ \ due]
      /\ requested' = [requested EXCEPT ![p] = @ \cup wanted]
      /\ mapAlreadyAskedFor' = AskedAt(wanted)
      /\ UNCHANGED <<have, vNodes, invs>>

\* The tx message: a transaction that is new is accepted and relayed, and its
\* entry in mapAlreadyAskedFor erased.
ReceiveTx(p, i) ==
  /\ p \in vNodes
  /\ i \in requested[p]
  /\ requested' = [requested EXCEPT ![p] = @ \ {i}]
  /\ Insert(p, {i})
  /\ IF i \in have
     THEN UNCHANGED <<have, vInventoryToSend, mapAlreadyAskedFor>>
     ELSE /\ have' = have \cup {i}
          /\ vInventoryToSend' = [q \in Peers |->
               IF q \in vNodes /\ i \notin setInventoryKnown'[q]
               THEN vInventoryToSend[q] \cup {i} ELSE vInventoryToSend[q]]
          /\ mapAlreadyAskedFor' = [mapAlreadyAskedFor EXCEPT ![i] = -Retry]
  /\ UNCHANGED <<mapAskFor, vNodes, invs>>

\* Fault: the queue of requests outlives the connection.
DisconnectKeepsQueue(p) ==
  /\ p \in vNodes \ Reliable
  /\ vNodes' = vNodes \ {p}
  /\ setInventoryKnown' = [setInventoryKnown EXCEPT ![p] = {}]
  /\ vInventoryToSend' = [vInventoryToSend EXCEPT ![p] = {}]
  /\ everKnown' = [everKnown EXCEPT ![p] = {}]
  /\ UNCHANGED <<have, asking, invs>>

\* A connection ends, and with it all that was kept for it.
Disconnect(p) ==
  /\ p \in vNodes \ Reliable
  /\ vNodes' = vNodes \ {p}
  /\ mapAskFor' = [mapAskFor EXCEPT ![p] = {}]
  /\ requested' = [requested EXCEPT ![p] = {}]
  /\ setInventoryKnown' = [setInventoryKnown EXCEPT ![p] = {}]
  /\ vInventoryToSend' = [vInventoryToSend EXCEPT ![p] = {}]
  /\ everKnown' = [everKnown EXCEPT ![p] = {}]
  /\ UNCHANGED <<have, mapAlreadyAskedFor, invs>>

Connect(p) ==
  /\ p \in Peers \ vNodes
  /\ vNodes' = vNodes \cup {p}
  /\ UNCHANGED <<have, asking, announcing, invs>>

\* A minute passes.
Tick ==
  /\ mapAlreadyAskedFor' = [i \in Items |-> Later(mapAlreadyAskedFor[i] - 1, -Retry)]
  /\ mapAskFor' = [p \in Peers |-> {<<Later(e[1] - 1, 0), e[2]>> : e \in mapAskFor[p]}]
  /\ UNCHANGED <<have, requested, announcing, vNodes, invs>>

Next ==
  \/ \E p \in Peers, i \in Items : ReceiveInv(p, i) \/ ReceiveTx(p, i) \/ Forget(p, i)
  \/ \E p \in Peers, trickle \in BOOLEAN : SendMessages(p, trickle)
  \/ \E p \in Peers : Disconnect(p) \/ Connect(p)
  \/ Tick

Spec == Init /\ [][Next]_vars

(***************************************************************************)
(* The message thread comes back to every peer, the peer that is sent      *)
(* everything is drawn by lot in every round, time passes, and a reliable  *)
(* peer answers.                                                           *)
(***************************************************************************)
FairSpec ==
  /\ Spec
  /\ WF_vars(Tick)
  /\ \A p \in Reliable : /\ WF_vars(SendMessages(p, TRUE))
                         /\ \A i \in Items : WF_vars(ReceiveTx(p, i))

-----------------------------------------------------------------------------
\* Type invariant; a peer is asked only for what it announced on this connection,
\* although setInventoryKnown may have forgotten it by then.
InventoryTypeOK ==
  /\ have \subseteq Items
  /\ mapAlreadyAskedFor \in [Items -> Int]
  /\ \A i \in Items : mapAlreadyAskedFor[i] >= -Retry
  /\ mapAskFor \in [Peers -> SUBSET (Int \X Items)]
  /\ requested \in [Peers -> SUBSET Items]
  /\ everKnown \in [Peers -> SUBSET Items]
  /\ \A p \in Peers : setInventoryKnown[p] \subseteq everKnown[p]
  /\ setInventoryKnown \in [Peers -> SUBSET Items]
  /\ vInventoryToSend \in [Peers -> SUBSET Items]
  /\ vNodes \subseteq Peers
  /\ invs \in [Items -> 0 .. MaxInv]
  /\ \A p \in Peers : requested[p] \cup {e[2] : e \in mapAskFor[p]} \subseteq everKnown[p]

\* However peers announce an item, leave and come back, AskFor puts a request off
\* by two minutes for each announcement before it and no more.
DelayBounded ==
  \A p \in Peers : \A e \in mapAskFor[p] : e[1] <= Retry * (invs[e[2]] - 1)

\* What a reliable peer announced arrives, though peers that do not answer were
\* asked first and the requests are put off for them.
ItemArrives == \A p \in Reliable, i \in Items : i \in everKnown[p] ~> i \in have

\* What the node has got is announced to every peer that stays and was not known to
\* have it, through the turns of the trickle and whatever setInventoryKnown forgets.
ItemSpreads == \A p \in Reliable, i \in Items : i \in have ~> i \in everKnown[p]

\* Each retry is two minutes after the last: no two requests for an item that
\* are not due yet are nearer.
\* The code does not keep this: README, section 7.
RetriesApart ==
  \A p, q \in vNodes : \A e \in mapAskFor[p], f \in mapAskFor[q] :
    p # q /\ e[2] = f[2] /\ e[1] > 0 /\ f[1] > 0 =>
      e[1] >= f[1] + Retry \/ f[1] >= e[1] + Retry
=============================================================================
