-------------------------- MODULE InventoryProofs --------------------------
(***************************************************************************)
(* AskFor puts a request off by Retry for each announcement before it and  *)
(* no more, for every set of peers and items.  DelayBounded speaks of the  *)
(* requests that wait; what bounds the next one is the time of the last    *)
(* request in mapAlreadyAskedFor, which SendMessages also sets, so Delays  *)
(* bounds it too.  Time is never below zero for a request that waits, so   *)
(* that every such item must have been announced.                          *)
(***************************************************************************)
EXTENDS Inventory, TLAPS

\* The latest time a request for i may have.
Latest(i) == Retry * (invs[i] - 1)

Delays ==
  /\ \A i \in Items : mapAlreadyAskedFor[i] <= Latest(i)
  /\ \A p \in Peers : \A e \in mapAskFor[p] : invs[e[2]] >= 1 /\ e[1] <= Latest(e[2])

IInv == InventoryTypeOK /\ Delays

USE InventoryAssumption

-----------------------------------------------------------------------------
(* Times.                                                                  *)

LEMMA LaterIs ==
  ASSUME NEW s \in Int, NEW t \in Int
  PROVE  Later(s, t) \in Int /\ Later(s, t) >= s /\ Later(s, t) >= t
         /\ (Later(s, t) = s \/ Later(s, t) = t)
BY DEF Later

\* Each announcement adds Retry to the latest time; before the first it is -Retry.
LEMMA LatestIs ==
  ASSUME NEW k \in Nat
  PROVE  /\ Retry * (k - 1) \in Int /\ Retry * ((k + 1) - 1) = Retry * (k - 1) + Retry
         /\ -Retry <= Retry * (k - 1)
         /\ k >= 1 => 0 <= Retry * (k - 1)
<1>1. Retry \in Nat /\ Retry * k \in Nat
  OBVIOUS
<1>2. Retry * (k - 1) = Retry * k - Retry /\ (k + 1) - 1 = k
  BY <1>1
<1>3. k >= 1 => Retry * (k - 1) \in Nat
  OBVIOUS
<1> QED BY <1>1, <1>2, <1>3

\* The invariant of a request that waits.
LEMMA WaitingRequest ==
  ASSUME IInv, NEW p \in Peers, NEW e \in mapAskFor[p]
  PROVE  /\ e[1] \in Int /\ e[2] \in Items /\ e = <<e[1], e[2]>>
         /\ e[2] \in everKnown[p]
         /\ invs[e[2]] \in Nat /\ invs[e[2]] >= 1 /\ e[1] <= Latest(e[2])
<1>1. /\ mapAskFor[p] \subseteq Int \X Items
      /\ requested[p] \cup {f[2] : f \in mapAskFor[p]} \subseteq everKnown[p]
      /\ invs \in [Items -> 0 .. MaxInv]
  BY DEF IInv, InventoryTypeOK
<1>2. e[1] \in Int /\ e[2] \in Items /\ e = <<e[1], e[2]>>
  BY <1>1
<1>3. invs[e[2]] \in Nat
  BY <1>1, <1>2
<1>4. invs[e[2]] >= 1 /\ e[1] <= Latest(e[2])
  BY DEF IInv, Delays
<1> QED BY <1>1, <1>2, <1>3, <1>4

-----------------------------------------------------------------------------
(* The inductive invariant.                                                *)

LEMMA InitInv == Init => IInv
<1> SUFFICES ASSUME Init PROVE IInv
  OBVIOUS
<1>1. InventoryTypeOK
  <2>1. /\ mapAlreadyAskedFor \in [Items -> Int]
        /\ \A i \in Items : mapAlreadyAskedFor[i] >= -Retry
    BY DEF Init
  <2>2. invs \in [Items -> 0 .. MaxInv]
    BY DEF Init
  <2>3. \A p \in Peers : mapAskFor[p] = {} /\ requested[p] = {} /\ setInventoryKnown[p] = {}
    BY DEF Init
  <2> QED BY <2>1, <2>2, <2>3 DEF Init, InventoryTypeOK
<1>2. Delays
  <2>1. ASSUME NEW i \in Items PROVE mapAlreadyAskedFor[i] <= Latest(i)
    <3>1. mapAlreadyAskedFor[i] = -Retry /\ invs[i] = 0
      BY DEF Init
    <3> QED BY <3>1, LatestIs DEF Latest
  <2>2. \A p \in Peers : mapAskFor[p] = {}
    BY DEF Init
  <2> QED BY <2>1, <2>2 DEF Delays
<1> QED BY <1>1, <1>2 DEF IInv

LEMMA InsertIs ==
  ASSUME IInv, NEW p \in Peers, NEW S \in SUBSET Items, Insert(p, S)
  PROVE  /\ setInventoryKnown' \in [Peers -> SUBSET Items]
         /\ everKnown' \in [Peers -> SUBSET Items]
         /\ S \subseteq everKnown'[p]
         /\ \A q \in Peers : /\ setInventoryKnown'[q] \subseteq everKnown'[q]
                            /\ everKnown[q] \subseteq everKnown'[q]
BY DEF Insert, IInv, InventoryTypeOK

LEMMA ReceiveInvInv ==
  ASSUME IInv, NEW p \in Peers, NEW i \in Items, ReceiveInv(p, i)
  PROVE  IInv'
<1>1. /\ invs[i] < MaxInv
      /\ invs' = [invs EXCEPT ![i] = @ + 1]
      /\ Insert(p, {i})
      /\ UNCHANGED <<have, requested, vInventoryToSend, vNodes>>
  BY DEF ReceiveInv
<1>2. /\ invs \in [Items -> 0 .. MaxInv] /\ mapAlreadyAskedFor \in [Items -> Int]
      /\ mapAskFor \in [Peers -> SUBSET (Int \X Items)]
      /\ \A j \in Items : mapAlreadyAskedFor[j] >= -Retry
  BY DEF IInv, InventoryTypeOK
<1>3. /\ invs[i] \in Nat /\ invs' \in [Items -> 0 .. MaxInv]
      /\ invs'[i] = invs[i] + 1
      /\ \A j \in Items \ {i} : invs'[j] = invs[j]
  BY <1>1, <1>2
<1>4. \A j \in Items : Latest(j) \in Int /\ Latest(j) <= Latest(j)' /\ invs[j] <= invs'[j]
  <2> SUFFICES ASSUME NEW j \in Items
               PROVE  Latest(j) \in Int /\ Latest(j) <= Latest(j)' /\ invs[j] <= invs'[j]
    OBVIOUS
  <2>1. CASE j = i
    BY <1>3, <2>1, LatestIs DEF Latest
  <2>2. CASE j # i
    <3>1. invs[j] \in Nat /\ invs'[j] = invs[j]
      BY <1>2, <1>3, <2>2
    <3> QED BY <3>1, LatestIs DEF Latest
  <2> QED BY <2>1, <2>2
<1>5. PICK t \in Int :
        /\ -Retry <= t /\ t <= Latest(i)'
        /\ mapAlreadyAskedFor' = [mapAlreadyAskedFor EXCEPT ![i] = t]
        /\ \/ mapAskFor' = mapAskFor
           \/ mapAskFor' = [mapAskFor EXCEPT ![p] = @ \cup {<<t, i>>}]
  <2>1. mapAlreadyAskedFor[i] \in Int /\ mapAlreadyAskedFor[i] <= Latest(i)
        /\ mapAlreadyAskedFor[i] >= -Retry
    BY <1>2 DEF IInv, Delays
  <2>2. CASE i \in have
    <3>1. mapAlreadyAskedFor' = mapAlreadyAskedFor /\ mapAskFor' = mapAskFor
      BY <2>2 DEF ReceiveInv
    <3>2. mapAlreadyAskedFor' = [mapAlreadyAskedFor EXCEPT ![i] = mapAlreadyAskedFor[i]]
      BY <1>2, <3>1
    <3>3. mapAlreadyAskedFor[i] <= Latest(i)'
      <4>1. Latest(i) \in Int /\ Latest(i)' \in Int
        BY <1>3, LatestIs DEF Latest
      <4> QED BY <1>4, <2>1, <4>1
    <3> QED BY <2>1, <3>1, <3>2, <3>3
  <2>3. CASE i \notin have
    <3> DEFINE t == Later(mapAlreadyAskedFor[i] + Retry, 0)
    <3>1. /\ mapAlreadyAskedFor' = [mapAlreadyAskedFor EXCEPT ![i] = t]
          /\ mapAskFor' = [mapAskFor EXCEPT ![p] = @ \cup {<<t, i>>}]
      BY <2>3 DEF ReceiveInv, AskFor
    <3>2. /\ t \in Int /\ 0 <= t
          /\ (t = mapAlreadyAskedFor[i] + Retry \/ t = 0)
      <4>1. mapAlreadyAskedFor[i] + Retry \in Int /\ 0 \in Int
        BY <2>1
      <4> QED BY <4>1, LaterIs
    <3>3. Latest(i)' = Latest(i) + Retry /\ 0 <= Latest(i)' /\ Latest(i) \in Int
      BY <1>3, LatestIs DEF Latest
    <3> HIDE DEF t
    <3>4. t <= Latest(i)' /\ -Retry <= t
      BY <2>1, <3>2, <3>3
    <3> QED BY <3>1, <3>2, <3>4
  <2> QED BY <2>2, <2>3
<1>6. ASSUME NEW q \in Peers, NEW e \in mapAskFor'[q]
      PROVE  e \in mapAskFor[q] \/ (q = p /\ e = <<t, i>>)
  BY <1>2, <1>5, <1>6
<1>7. InventoryTypeOK'
  <2>1. /\ mapAlreadyAskedFor' \in [Items -> Int]
        /\ \A j \in Items : mapAlreadyAskedFor'[j] >= -Retry
    BY <1>2, <1>5
  <2>2. mapAskFor' \in [Peers -> SUBSET (Int \X Items)]
    BY <1>2, <1>5
  <2>3. /\ setInventoryKnown' \in [Peers -> SUBSET Items]
        /\ everKnown' \in [Peers -> SUBSET Items]
        /\ i \in everKnown'[p]
        /\ \A q \in Peers : /\ setInventoryKnown'[q] \subseteq everKnown'[q]
                           /\ everKnown[q] \subseteq everKnown'[q]
    BY <1>1, InsertIs
  <2>4. ASSUME NEW q \in Peers
        PROVE  requested'[q] \cup {e[2] : e \in mapAskFor'[q]} \subseteq everKnown'[q]
    <3>1. requested'[q] \subseteq everKnown'[q]
      BY <1>1, <2>3 DEF IInv, InventoryTypeOK
    <3>2. ASSUME NEW e \in mapAskFor'[q] PROVE e[2] \in everKnown'[q]
      BY <1>6, <2>3, WaitingRequest
    <3> QED BY <3>1, <3>2
  <2> QED BY <1>1, <1>3, <2>1, <2>2, <2>3, <2>4 DEF IInv, InventoryTypeOK
<1>8. Delays'
  <2>1. ASSUME NEW j \in Items PROVE mapAlreadyAskedFor'[j] <= Latest(j)'
    <3>1. CASE j = i BY <1>2, <1>5, <3>1
    <3>2. CASE j # i
      <4>1. /\ mapAlreadyAskedFor'[j] = mapAlreadyAskedFor[j]
            /\ mapAlreadyAskedFor[j] \in Int /\ mapAlreadyAskedFor[j] <= Latest(j)
        BY <1>2, <1>5, <3>2 DEF IInv, Delays
      <4>2. Latest(j)' = Latest(j)
        BY <1>3, <3>2 DEF Latest
      <4> QED BY <4>1, <4>2
    <3> QED BY <3>1, <3>2
  <2>2. ASSUME NEW q \in Peers, NEW e \in mapAskFor'[q]
        PROVE  invs'[e[2]] >= 1 /\ e[1] <= Latest(e[2])'
    <3>1. CASE e \in mapAskFor[q]
      <4>1. /\ e[1] \in Int /\ e[2] \in Items
            /\ invs[e[2]] \in Nat /\ invs[e[2]] >= 1 /\ e[1] <= Latest(e[2])
        BY <3>1, WaitingRequest
      <4>2. invs'[e[2]] \in Nat /\ Latest(e[2])' \in Int
        BY <1>3, <4>1, LatestIs DEF Latest
      <4>3. Latest(e[2]) \in Int /\ Latest(e[2]) <= Latest(e[2])' /\ invs[e[2]] <= invs'[e[2]]
        BY <1>4, <4>1
      <4> QED BY <4>1, <4>2, <4>3
    <3>2. CASE e = <<t, i>>
      BY <1>3, <1>5, <3>2
    <3> QED BY <1>6, <3>1, <3>2
  <2> QED BY <2>1, <2>2 DEF Delays, Latest
<1> QED BY <1>7, <1>8 DEF IInv

\* A step after which no new request waits, no item that is not announced was asked for,
\* and each peer is known to have what it is or will be asked for.
LEMMA NoNewRequest ==
  ASSUME IInv,
         have' \subseteq Items /\ vNodes' \subseteq Peers /\ invs' = invs,
         mapAlreadyAskedFor' \in [Items -> Int],
         \A i \in Items : mapAlreadyAskedFor'[i] >= -Retry /\ mapAlreadyAskedFor'[i] <= Latest(i),
         mapAskFor' \in [Peers -> SUBSET (Int \X Items)],
         \A p \in Peers : mapAskFor'[p] \subseteq mapAskFor[p],
         requested' \in [Peers -> SUBSET Items],
         setInventoryKnown' \in [Peers -> SUBSET Items],
         everKnown' \in [Peers -> SUBSET Items],
         \A p \in Peers : setInventoryKnown'[p] \subseteq everKnown'[p],
         vInventoryToSend' \in [Peers -> SUBSET Items],
         \A p \in Peers :
           requested'[p] \cup {e[2] : e \in mapAskFor'[p]} \subseteq everKnown'[p]
  PROVE  IInv'
<1>1. InventoryTypeOK'
  BY DEF IInv, InventoryTypeOK
<1>2. Delays'
  BY DEF IInv, Delays, Latest
<1> QED BY <1>1, <1>2 DEF IInv

LEMMA TypeGives ==
  ASSUME IInv
  PROVE  /\ have \subseteq Items /\ vNodes \subseteq Peers
         /\ mapAlreadyAskedFor \in [Items -> Int]
         /\ \A i \in Items : mapAlreadyAskedFor[i] >= -Retry /\ mapAlreadyAskedFor[i] <= Latest(i)
         /\ mapAskFor \in [Peers -> SUBSET (Int \X Items)]
         /\ requested \in [Peers -> SUBSET Items]
         /\ setInventoryKnown \in [Peers -> SUBSET Items]
         /\ everKnown \in [Peers -> SUBSET Items]
         /\ \A p \in Peers : setInventoryKnown[p] \subseteq everKnown[p]
         /\ vInventoryToSend \in [Peers -> SUBSET Items]
         /\ invs \in [Items -> 0 .. MaxInv]
         /\ \A p \in Peers :
              requested[p] \cup {e[2] : e \in mapAskFor[p]} \subseteq everKnown[p]
BY DEF IInv, InventoryTypeOK, Delays

LEMMA SendMessagesInv ==
  ASSUME IInv, NEW p \in Peers, NEW trickle \in BOOLEAN, SendMessages(p, trickle)
  PROVE  IInv'
<1> DEFINE vInv   == (vInventoryToSend[p] \ setInventoryKnown[p]) \ InvWait(p, trickle)
           due    == {e \in mapAskFor[p] : e[1] <= 0}
           wanted == {e[2] : e \in due} \ have
<1>1. /\ Insert(p, vInv)
      /\ vInventoryToSend' = [vInventoryToSend EXCEPT ![p] = KeepWaiting(p, trickle)]
      /\ mapAskFor' = [mapAskFor EXCEPT ![p] = @ \ due]
      /\ requested' = [requested EXCEPT ![p] = @ \cup wanted]
      /\ mapAlreadyAskedFor' = [i \in Items |-> IF i \in wanted THEN 0 ELSE mapAlreadyAskedFor[i]]
      /\ UNCHANGED <<have, vNodes, invs>>
  BY DEF SendMessages, AskedAt
<1>2. ASSUME NEW i \in wanted
      PROVE  i \in Items /\ 0 <= Latest(i) /\ i \in everKnown[p]
  <2>1. PICK e \in mapAskFor[p] : i = e[2]
    OBVIOUS
  <2>2. i \in Items /\ invs[i] \in Nat /\ invs[i] >= 1 /\ i \in everKnown[p]
    BY <2>1, WaitingRequest
  <2> QED BY <2>2, LatestIs DEF Latest
<1>3. vInv \subseteq Items /\ KeepWaiting(p, trickle) \subseteq Items
  BY TypeGives DEF KeepWaiting, InvWait
<1> HIDE DEF vInv, due, wanted
<1>4. mapAlreadyAskedFor' \in [Items -> Int]
  BY <1>1, TypeGives
<1>5. ASSUME NEW i \in Items
      PROVE  mapAlreadyAskedFor'[i] >= -Retry /\ mapAlreadyAskedFor'[i] <= Latest(i)
  <2>1. CASE i \in wanted
    <3>1. mapAlreadyAskedFor'[i] = 0 /\ 0 <= Latest(i) /\ 0 >= -Retry
      BY <1>1, <1>2, <2>1
    <3> QED BY <3>1
  <2>2. CASE i \notin wanted
    BY <1>1, <2>2, TypeGives
  <2> QED BY <2>1, <2>2
<1>6. /\ mapAskFor' \in [Peers -> SUBSET (Int \X Items)]
      /\ \A q \in Peers : mapAskFor'[q] \subseteq mapAskFor[q]
  BY <1>1, TypeGives
<1>7. /\ requested' \in [Peers -> SUBSET Items]
      /\ vInventoryToSend' \in [Peers -> SUBSET Items]
  BY <1>1, <1>2, <1>3, TypeGives
<1>9. /\ setInventoryKnown' \in [Peers -> SUBSET Items]
      /\ everKnown' \in [Peers -> SUBSET Items]
      /\ \A q \in Peers : /\ setInventoryKnown'[q] \subseteq everKnown'[q]
                         /\ everKnown[q] \subseteq everKnown'[q]
  BY <1>1, <1>3, InsertIs
<1>8. ASSUME NEW q \in Peers
      PROVE  requested'[q] \cup {e[2] : e \in mapAskFor'[q]} \subseteq everKnown'[q]
  <2>1. requested'[q] \subseteq everKnown[q]
    BY <1>1, <1>2, TypeGives
  <2>2. {e[2] : e \in mapAskFor'[q]} \subseteq everKnown[q]
    BY <1>6, TypeGives
  <2> QED BY <1>9, <2>1, <2>2
<1> QED BY <1>1, <1>4, <1>5, <1>6, <1>7, <1>8, <1>9, TypeGives, NoNewRequest

LEMMA ReceiveTxInv ==
  ASSUME IInv, NEW p \in Peers, NEW i \in Items, ReceiveTx(p, i)
  PROVE  IInv'
<1>1. /\ requested' = [requested EXCEPT ![p] = @ \ {i}]
      /\ Insert(p, {i})
      /\ UNCHANGED <<mapAskFor, vNodes, invs>>
  BY DEF ReceiveTx
<1>2. /\ setInventoryKnown' \in [Peers -> SUBSET Items]
      /\ everKnown' \in [Peers -> SUBSET Items]
      /\ \A q \in Peers : /\ setInventoryKnown'[q] \subseteq everKnown'[q]
                         /\ everKnown[q] \subseteq everKnown'[q]
  BY <1>1, InsertIs
<1>6. /\ requested' \in [Peers -> SUBSET Items]
      /\ \A q \in Peers : requested'[q] \subseteq requested[q]
  BY <1>1, TypeGives
<1>3. /\ have' \subseteq Items
      /\ vInventoryToSend' \in [Peers -> SUBSET Items]
      /\ mapAlreadyAskedFor' \in [Items -> Int]
      /\ \A j \in Items : \/ mapAlreadyAskedFor'[j] = mapAlreadyAskedFor[j]
                          \/ mapAlreadyAskedFor'[j] = -Retry
  <2>1. CASE i \in have
    <3>1. UNCHANGED <<have, vInventoryToSend, mapAlreadyAskedFor>>
      BY <2>1 DEF ReceiveTx
    <3> QED BY <3>1, TypeGives
  <2>2. CASE i \notin have
    <3>1. /\ have' = have \cup {i}
          /\ vInventoryToSend' = [q \in Peers |->
               IF q \in vNodes /\ i \notin setInventoryKnown'[q]
               THEN vInventoryToSend[q] \cup {i} ELSE vInventoryToSend[q]]
          /\ mapAlreadyAskedFor' = [mapAlreadyAskedFor EXCEPT ![i] = -Retry]
      BY <2>2 DEF ReceiveTx
    <3>2. vInventoryToSend' \in [Peers -> SUBSET Items]
      BY <3>1, TypeGives
    <3>3. -Retry \in Int
      OBVIOUS
    <3> QED BY <3>1, <3>2, <3>3, TypeGives
  <2> QED BY <2>1, <2>2
<1>4. ASSUME NEW j \in Items
      PROVE  mapAlreadyAskedFor'[j] >= -Retry /\ mapAlreadyAskedFor'[j] <= Latest(j)
  <2>1. invs[j] \in Nat
    BY TypeGives
  <2>2. -Retry <= Latest(j) /\ -Retry >= -Retry
    BY <2>1, LatestIs DEF Latest
  <2> QED BY <1>3, <2>2, TypeGives
<1>5. \A q \in Peers :
        requested'[q] \cup {e[2] : e \in mapAskFor'[q]} \subseteq everKnown'[q]
  BY <1>1, <1>2, <1>6, TypeGives
<1> QED BY <1>1, <1>2, <1>3, <1>4, <1>5, <1>6, TypeGives, NoNewRequest

LEMMA ForgetInv ==
  ASSUME IInv, NEW p \in Peers, NEW i \in Items, Forget(p, i)
  PROVE  IInv'
<1>1. /\ setInventoryKnown' = [setInventoryKnown EXCEPT ![p] = @ \ {i}]
      /\ UNCHANGED <<have, mapAlreadyAskedFor, mapAskFor, requested, vInventoryToSend,
                     everKnown, vNodes, invs>>
  BY DEF Forget, asking
<1>2. /\ setInventoryKnown' \in [Peers -> SUBSET Items]
      /\ \A q \in Peers : setInventoryKnown'[q] \subseteq everKnown'[q]
  BY <1>1, TypeGives
<1> QED BY <1>1, <1>2, TypeGives, NoNewRequest

LEMMA DisconnectInv ==
  ASSUME IInv, NEW p \in Peers, Disconnect(p)
  PROVE  IInv'
<1>1. /\ vNodes' = vNodes \ {p}
      /\ mapAskFor' = [mapAskFor EXCEPT ![p] = {}]
      /\ requested' = [requested EXCEPT ![p] = {}]
      /\ setInventoryKnown' = [setInventoryKnown EXCEPT ![p] = {}]
      /\ vInventoryToSend' = [vInventoryToSend EXCEPT ![p] = {}]
      /\ everKnown' = [everKnown EXCEPT ![p] = {}]
      /\ UNCHANGED <<have, mapAlreadyAskedFor, invs>>
  BY DEF Disconnect
<1>2. /\ mapAskFor' \in [Peers -> SUBSET (Int \X Items)]
      /\ \A q \in Peers : mapAskFor'[q] \subseteq mapAskFor[q]
      /\ requested' \in [Peers -> SUBSET Items]
      /\ setInventoryKnown' \in [Peers -> SUBSET Items]
      /\ vInventoryToSend' \in [Peers -> SUBSET Items]
      /\ everKnown' \in [Peers -> SUBSET Items]
      /\ \A q \in Peers : setInventoryKnown'[q] \subseteq everKnown'[q]
  BY <1>1, TypeGives
<1>3. ASSUME NEW q \in Peers
      PROVE  requested'[q] \cup {e[2] : e \in mapAskFor'[q]} \subseteq everKnown'[q]
  <2>1. CASE q = p BY <1>1, <2>1, TypeGives
  <2>2. CASE q # p BY <1>1, <2>2, TypeGives
  <2> QED BY <2>1, <2>2
<1> QED BY <1>1, <1>2, <1>3, TypeGives, NoNewRequest

LEMMA ConnectInv ==
  ASSUME IInv, (\E p \in Peers : Connect(p)) \/ UNCHANGED vars
  PROVE  IInv'
<1>1. /\ vNodes' \subseteq Peers
      /\ UNCHANGED <<have, mapAlreadyAskedFor, mapAskFor, requested, setInventoryKnown,
                     vInventoryToSend, everKnown, invs>>
  BY TypeGives DEF Connect, vars, asking, announcing
<1> QED BY <1>1, TypeGives, NoNewRequest

LEMMA TickInv == IInv /\ Tick => IInv'
<1> SUFFICES ASSUME IInv, Tick PROVE IInv'
  OBVIOUS
<1>1. /\ mapAlreadyAskedFor' = [i \in Items |-> Later(mapAlreadyAskedFor[i] - 1, -Retry)]
      /\ mapAskFor' = [p \in Peers |-> {<<Later(e[1] - 1, 0), e[2]>> : e \in mapAskFor[p]}]
      /\ UNCHANGED <<have, requested, setInventoryKnown, vInventoryToSend, everKnown, vNodes, invs>>
  BY DEF Tick, announcing
<1>2. ASSUME NEW i \in Items
      PROVE  /\ mapAlreadyAskedFor'[i] \in Int /\ mapAlreadyAskedFor'[i] >= -Retry
             /\ mapAlreadyAskedFor'[i] <= Latest(i)'
  <2>1. /\ mapAlreadyAskedFor[i] \in Int /\ mapAlreadyAskedFor[i] <= Latest(i)
        /\ invs[i] \in Nat /\ Latest(i)' = Latest(i)
    BY <1>1, TypeGives DEF Latest
  <2>2. Latest(i) \in Int /\ -Retry <= Latest(i)
    BY <2>1, LatestIs DEF Latest
  <2>3. mapAlreadyAskedFor[i] - 1 \in Int /\ -Retry \in Int
    BY <2>1
  <2>4. mapAlreadyAskedFor'[i] = Later(mapAlreadyAskedFor[i] - 1, -Retry)
    BY <1>1
  <2>5. /\ mapAlreadyAskedFor'[i] \in Int /\ mapAlreadyAskedFor'[i] >= -Retry
        /\ (mapAlreadyAskedFor'[i] = mapAlreadyAskedFor[i] - 1 \/ mapAlreadyAskedFor'[i] = -Retry)
    BY <2>3, <2>4, LaterIs
  <2> QED BY <2>1, <2>2, <2>5
<1>3. ASSUME NEW p \in Peers, NEW f \in mapAskFor'[p]
      PROVE  /\ f \in Int \X Items /\ f[2] \in everKnown'[p]
             /\ invs'[f[2]] >= 1 /\ f[1] <= Latest(f[2])'
  <2>1. PICK e \in mapAskFor[p] : f = <<Later(e[1] - 1, 0), e[2]>>
    BY <1>1
  <2>2. /\ e[1] \in Int /\ e[2] \in Items /\ e[2] \in everKnown[p]
        /\ invs[e[2]] \in Nat /\ invs[e[2]] >= 1 /\ e[1] <= Latest(e[2])
    BY WaitingRequest
  <2>3. Latest(e[2]) \in Int /\ 0 <= Latest(e[2]) /\ Latest(e[2])' = Latest(e[2])
    BY <1>1, <2>2, LatestIs DEF Latest
  <2>4. e[1] - 1 \in Int /\ 0 \in Int
    BY <2>2
  <2>5. f[1] \in Int /\ (f[1] = e[1] - 1 \/ f[1] = 0) /\ f[2] = e[2]
    BY <2>1, <2>4, LaterIs
  <2>6. f[1] <= Latest(e[2])'
    BY <2>2, <2>3, <2>5
  <2>7. f \in Int \X Items
    BY <2>1, <2>2, <2>5
  <2> QED BY <1>1, <2>2, <2>5, <2>6, <2>7
<1>4. mapAlreadyAskedFor' \in [Items -> Int]
  BY <1>1, <1>2
<1>5. mapAskFor' \in [Peers -> SUBSET (Int \X Items)]
  <2>1. \A p \in Peers : mapAskFor'[p] \subseteq Int \X Items
    BY <1>3
  <2>2. mapAskFor' = [p \in Peers |-> mapAskFor'[p]]
    BY <1>1
  <2> QED BY <2>1, <2>2
<1>6. \A p \in Peers :
        requested'[p] \cup {e[2] : e \in mapAskFor'[p]} \subseteq everKnown'[p]
  <2>1. \A p \in Peers : requested'[p] \subseteq everKnown'[p]
    BY <1>1, TypeGives
  <2> QED BY <1>3, <2>1
<1>7. InventoryTypeOK'
  BY <1>1, <1>2, <1>4, <1>5, <1>6, TypeGives DEF InventoryTypeOK
<1>8. Delays'
  BY <1>2, <1>3 DEF Delays, Latest
<1> QED BY <1>7, <1>8 DEF IInv

LEMMA Invariant == Spec => []IInv
<1>1. Init => IInv
  BY InitInv
<1>2. IInv /\ [Next]_vars => IInv'
  BY ReceiveInvInv, ReceiveTxInv, ForgetInv, SendMessagesInv, DisconnectInv, ConnectInv, TickInv DEF Next
<1> QED BY <1>1, <1>2, PTL DEF Spec

-----------------------------------------------------------------------------
(* The results.                                                            *)

\* The maps of net.h keep their types, no time in mapAlreadyAskedFor falls out of its
\* range, and a peer is asked only for what it announced on the connection it has now,
\* whatever setInventoryKnown has forgotten of it.
THEOREM InventoryTypeCorrect == Spec => []InventoryTypeOK
<1>1. IInv => InventoryTypeOK
  BY DEF IInv
<1> QED BY <1>1, Invariant, PTL

\* CNode::AskFor delays no request by more than two minutes for each announcement that
\* came before, whatever SendMessages asks for, arrives or is lost in between.
THEOREM DelayBoundedHolds == Spec => []DelayBounded
<1>1. IInv => DelayBounded
  BY DEF IInv, Delays, Latest, DelayBounded
<1> QED BY <1>1, Invariant, PTL
=============================================================================
