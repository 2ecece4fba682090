---------------------------- MODULE SporkProofs ----------------------------
(***************************************************************************)
(* What holds of the relay of sporks in every network: the type invariant, *)
(* and that a node can serve whatever its peers were told of.  The second  *)
(* needs the first only: an announcement is made after the spork is kept,  *)
(* a hash leaves mapSporks only at a restart, and a restart takes with it  *)
(* every connection on which the hash was announced or asked for.          *)
(***************************************************************************)
EXTENDS Spork, TLAPS

USE SporkAssumption, NoneAssumption

\* The elements of a concatenation and of a tail come from their arguments.
LEMMA ConcatElements ==
  ASSUME NEW S, NEW s \in Seq(S), NEW t \in Seq(S), NEW i \in DOMAIN (s \o t)
  PROVE  \/ \E j \in DOMAIN s : (s \o t)[i] = s[j]
         \/ \E j \in DOMAIN t : (s \o t)[i] = t[j]
<1>1. CASE i \in 1 .. Len(s)
  BY <1>1
<1>2. CASE i \notin 1 .. Len(s)
  <2>1. i - Len(s) \in 1 .. Len(t) /\ (s \o t)[i] = t[i - Len(s)]
    BY <1>2
  <2> QED BY <2>1
<1> QED BY <1>1, <1>2

LEMMA TailElements ==
  ASSUME NEW S, NEW s \in Seq(S), s # <<>>
  PROVE  /\ Tail(s) \in Seq(S)
         /\ Head(s) \in S
         /\ \E j \in DOMAIN s : Head(s) = s[j]
         /\ \A i \in DOMAIN Tail(s) : \E j \in DOMAIN s : Tail(s)[i] = s[j]
<1>1. Tail(s) \in Seq(S) /\ Head(s) \in S
  OBVIOUS
<1>2. 1 \in DOMAIN s /\ Head(s) = s[1]
  OBVIOUS
<1>3. ASSUME NEW i \in DOMAIN Tail(s)
      PROVE  \E j \in DOMAIN s : Tail(s)[i] = s[j]
  <2>1. i + 1 \in DOMAIN s /\ Tail(s)[i] = s[i + 1]
    BY <1>1
  <2> QED BY <2>1
<1> QED BY <1>1, <1>2, <1>3

\* The messages have the fields their handlers read.
LEMMA MessageFields ==
  /\ \A m \in Messages : m.type \in {"inv", "getdata", "spork", "getsporks"}
  /\ \A m \in Messages : m.type \in {"inv", "getdata"} => m.hash \in Hashes
  /\ \A m \in Messages : m.type = "spork" => m.spork \in Sporks
  /\ \A h \in Hashes : /\ Inv(h) \in Messages /\ GetData(h) \in Messages
                       /\ SporkMsg(h[1]) \in Messages
                       /\ Inv(h).type = "inv" /\ Inv(h).hash = h
                       /\ GetData(h).type = "getdata" /\ GetData(h).hash = h
  /\ \A s \in Sporks : SporkMsg(s) \in Messages /\ SporkMsg(s).type = "spork"
  /\ GetSporks \in Messages /\ GetSporks.type = "getsporks"
BY DEF Messages, Inv, GetData, SporkMsg, GetSporks, Hashes

-----------------------------------------------------------------------------
(* What the sending operators leave on the connections.                    *)

LEMMA BackIsLink ==
  ASSUME NEW l \in Links
  PROVE  /\ Back(l) \in Links /\ Back(l)[1] = l[2] /\ Back(l)[2] = l[1]
         /\ l[1] \in Nodes /\ l[2] \in Nodes
BY DEF Back

LEMMA ReplyLeaves ==
  ASSUME SporkTypeOK, NEW l \in Links, net[l] # <<>>,
         NEW reply \in Seq(Messages), Reply(l, reply)
  PROVE  /\ net' \in [Links -> Seq(Messages)]
         /\ \A k \in Links : \A i \in DOMAIN net'[k] :
              \/ \E j \in DOMAIN net[k] : net'[k][i] = net[k][j]
              \/ k = Back(l) /\ \E j \in DOMAIN reply : net'[k][i] = reply[j]
<1>1. \A k \in Links : net[k] \in Seq(Messages)
  BY DEF SporkTypeOK
<1>2. Tail(net[l]) \in Seq(Messages)
  BY <1>1, TailElements
<1>3. \A k \in Links : net[k] \o reply \in Seq(Messages)
  BY <1>1
<1>4. net' \in [Links -> Seq(Messages)]
  BY <1>1, <1>2, <1>3 DEF Reply
<1>5. ASSUME NEW k \in Links, NEW i \in DOMAIN net'[k]
      PROVE  \/ \E j \in DOMAIN net[k] : net'[k][i] = net[k][j]
             \/ k = Back(l) /\ \E j \in DOMAIN reply : net'[k][i] = reply[j]
  <2>1. CASE k = l
    <3>1. net'[k] = Tail(net[l])
      BY <2>1 DEF Reply
    <3> QED BY <1>1, <2>1, <3>1, TailElements
  <2>2. CASE k # l /\ k = Back(l)
    <3>1. net'[k] = net[k] \o reply
      BY <2>2 DEF Reply
    <3>2. net[k] \in Seq(Messages) /\ i \in DOMAIN (net[k] \o reply)
      BY <1>1, <3>1
    <3> QED BY <2>2, <3>1, <3>2, ConcatElements, SMTT(30)
  <2>3. CASE k # l /\ k # Back(l)
    BY <2>3 DEF Reply
  <2> QED BY <2>1, <2>2, <2>3
<1> QED BY <1>4, <1>5

LEMMA RelayLeaves ==
  ASSUME NEW q \in [Links -> Seq(Messages)], NEW n \in Nodes, NEW h \in Hashes
  PROVE  /\ Relay(q, n, h) \in [Links -> Seq(Messages)]
         /\ \A k \in Links : \A i \in DOMAIN Relay(q, n, h)[k] :
              \/ \E j \in DOMAIN q[k] : Relay(q, n, h)[k][i] = q[k][j]
              \/ k[1] = n /\ Relay(q, n, h)[k][i] = Inv(h)
<1>1. Inv(h) \in Messages
  BY MessageFields
<1>2. \A k \in Links : q[k] \in Seq(Messages) /\ Append(q[k], Inv(h)) \in Seq(Messages)
  BY <1>1
<1>3. Relay(q, n, h) \in [Links -> Seq(Messages)]
  BY <1>2 DEF Relay
<1>4. ASSUME NEW k \in Links, NEW i \in DOMAIN Relay(q, n, h)[k]
      PROVE  \/ \E j \in DOMAIN q[k] : Relay(q, n, h)[k][i] = q[k][j]
             \/ k[1] = n /\ Relay(q, n, h)[k][i] = Inv(h)
  <2>1. CASE k[1] = n
    <3>1. Relay(q, n, h)[k] = Append(q[k], Inv(h))
      BY <2>1 DEF Relay
    <3>2. i \in 1 .. Len(q[k]) + 1
      BY <1>2, <3>1
    <3> QED BY <1>2, <2>1, <3>1, <3>2
  <2>2. CASE k[1] # n
    BY <2>2 DEF Relay
  <2> QED BY <2>1, <2>2
<1> QED BY <1>3, <1>4

LEMMA DropLeaves ==
  ASSUME SporkTypeOK, NEW lost \in SUBSET Links, Drop(lost)
  PROVE  /\ net' \in [Links -> Seq(Messages)]
         /\ mapAskFor' \in [Links -> SUBSET Hashes]
         /\ fulfilled' \subseteq Links
         /\ \A k \in Links : /\ net'[k] \in {net[k], <<>>} /\ mapAskFor'[k] \subseteq mapAskFor[k]
                             /\ k \in lost => net'[k] = <<>> /\ mapAskFor'[k] = {}
BY DEF Drop, SporkTypeOK

-----------------------------------------------------------------------------
(* The inductive invariant.                                                *)

SporkInv == SporkTypeOK /\ AnnouncedIsServed

\* A step that forgets no hash and puts only hashes the announcer has on the
\* connections keeps what was announced available.
LEMMA StaysServed ==
  ASSUME SporkInv, net' \in [Links -> Seq(Messages)],
         \A n \in Nodes : mapSporks[n] \subseteq mapSporks'[n],
         \A k \in Links : mapAskFor'[k] \subseteq mapAskFor[k] \cup mapSporks'[k[2]],
         \A k \in Links : \A i \in DOMAIN net'[k] :
           \/ \E j \in DOMAIN net[k] : net'[k][i] = net[k][j]
           \/ CanServe(mapSporks', k, net'[k][i])
  PROVE  AnnouncedIsServed'
<1>1. ASSUME NEW k \in Links
      PROVE  mapAskFor'[k] \subseteq mapSporks'[k[2]]
  BY <1>1, BackIsLink DEF SporkInv, AnnouncedIsServed
<1>2. ASSUME NEW k \in Links, NEW i \in DOMAIN net'[k]
      PROVE  CanServe(mapSporks', k, net'[k][i])
  <2>1. ASSUME NEW j \in DOMAIN net[k], net'[k][i] = net[k][j]
        PROVE  CanServe(mapSporks', k, net'[k][i])
    <3>1. CanServe(mapSporks, k, net[k][j])
      BY DEF SporkInv, AnnouncedIsServed
    <3> QED BY <2>1, <3>1, BackIsLink DEF CanServe
  <2> QED BY <2>1
<1> QED BY <1>1, <1>2 DEF AnnouncedIsServed

LEMMA StoreKeeps ==
  ASSUME SporkTypeOK, NEW n \in Nodes, NEW s \in Sporks, NEW h \in Hashes, Store(n, s, h)
  PROVE  /\ mapSporks' \in [Nodes -> SUBSET Hashes]
         /\ mapSporksActive' \in [Nodes -> Sporks \cup {None}]
         /\ \A m \in Nodes : mapSporks[m] \subseteq mapSporks'[m]
         /\ h \in mapSporks'[n]
BY DEF Store, SporkTypeOK

LEMMA HashOfCopy ==
  ASSUME NEW n \in Nodes, NEW s \in Sporks, NEW pad \in Padding[n]
  PROVE  <<s, pad>> \in Hashes
BY DEF Hashes

\* Announcing what is stored.
LEMMA RelayServes ==
  ASSUME NEW k \in Links, NEW n \in Nodes, NEW h \in Hashes,
         k[1] = n, h \in mapSporks'[n]
  PROVE  CanServe(mapSporks', k, Inv(h))
<1>1. Inv(h).type = "inv" /\ Inv(h).hash = h
  BY MessageFields
<1> QED BY <1>1 DEF CanServe

\* A spork that is stored and announced, on connections from which no more than
\* the message at hand is gone.
LEMMA StoreAndRelayInv ==
  ASSUME SporkInv, NEW n \in Nodes, NEW s \in Sporks, NEW h \in Hashes,
         NEW q \in [Links -> Seq(Messages)],
         \A k \in Links : \A i \in DOMAIN q[k] : \E j \in DOMAIN net[k] : q[k][i] = net[k][j],
         Store(n, s, h), net' = Relay(q, n, h), updates' \in 0 .. MaxUpdates,
         UNCHANGED <<mapAskFor, fulfilled, breaks>>
  PROVE  SporkInv'
<1>1. SporkTypeOK
  BY DEF SporkInv
<1>2. net' \in [Links -> Seq(Messages)]
  BY RelayLeaves
<1>3. SporkTypeOK'
  BY <1>1, <1>2, StoreKeeps DEF SporkTypeOK
<1>4. ASSUME NEW k \in Links, NEW i \in DOMAIN net'[k]
      PROVE  \/ \E j \in DOMAIN net[k] : net'[k][i] = net[k][j]
             \/ CanServe(mapSporks', k, net'[k][i])
  <2>1. \/ \E j \in DOMAIN q[k] : net'[k][i] = q[k][j]
        \/ k[1] = n /\ net'[k][i] = Inv(h)
    BY RelayLeaves
  <2>2. h \in mapSporks'[n]
    BY <1>1, StoreKeeps
  <2>3. k[1] = n => CanServe(mapSporks', k, Inv(h))
    BY <2>2, RelayServes
  <2> QED BY <2>1, <2>3
<1>5. \A m \in Nodes : mapSporks[m] \subseteq mapSporks'[m]
  BY <1>1, StoreKeeps
<1>6. AnnouncedIsServed'
  BY <1>2, <1>4, <1>5, StaysServed
<1> QED BY <1>3, <1>6 DEF SporkInv

LEMMA UpdateSporkInv ==
  ASSUME SporkInv, NEW n \in Nodes, NEW s \in Sporks, NEW pad \in Padding[n],
         UpdateSpork(n, s, pad)
  PROVE  SporkInv'
<1>1. <<s, pad>> \in Hashes
  BY HashOfCopy
<1>2. /\ Store(n, s, <<s, pad>>) /\ net' = Relay(net, n, <<s, pad>>)
      /\ UNCHANGED <<mapAskFor, fulfilled, breaks>>
  BY DEF UpdateSpork
<1>3. net \in [Links -> Seq(Messages)] /\ updates' \in 0 .. MaxUpdates
  BY DEF UpdateSpork, SporkInv, SporkTypeOK
<1> QED BY <1>1, <1>2, <1>3, StoreAndRelayInv

\* What a message handler finds at the head of its connection.
LEMMA HeadServed ==
  ASSUME SporkInv, NEW l \in Links, net[l] # <<>>
  PROVE  Head(net[l]) \in Messages /\ CanServe(mapSporks, l, Head(net[l])) /\ SporkTypeOK
<1>1. net[l] \in Seq(Messages) /\ SporkTypeOK
  BY DEF SporkInv, SporkTypeOK
<1>2. PICK j \in DOMAIN net[l] : Head(net[l]) = net[l][j]
  BY <1>1, TailElements
<1>3. CanServe(mapSporks, l, net[l][j])
  BY DEF SporkInv, AnnouncedIsServed
<1> QED BY <1>1, <1>2, <1>3, TailElements

\* A handler that answers with sporks, or not at all.
LEMMA ReplyServed ==
  ASSUME SporkInv, NEW l \in Links, net[l] # <<>>, NEW reply \in Seq(Messages),
         \A j \in DOMAIN reply : reply[j].type = "spork", Reply(l, reply),
         UNCHANGED <<mapSporks, mapSporksActive, fulfilled, updates, breaks>>,
         mapAskFor' \in [Links -> SUBSET Hashes],
         \A k \in Links : mapAskFor'[k] \subseteq mapAskFor[k] \cup mapSporks[k[2]]
  PROVE  SporkInv'
<1>1. SporkTypeOK'
  BY ReplyLeaves DEF SporkInv, SporkTypeOK
<1>2. ASSUME NEW k \in Links, NEW i \in DOMAIN net'[k]
      PROVE  \/ \E j \in DOMAIN net[k] : net'[k][i] = net[k][j]
             \/ CanServe(mapSporks', k, net'[k][i])
  <2>1. \/ \E j \in DOMAIN net[k] : net'[k][i] = net[k][j]
        \/ k = Back(l) /\ \E j \in DOMAIN reply : net'[k][i] = reply[j]
    BY <1>2, ReplyLeaves DEF SporkInv
  <2> QED BY <2>1 DEF CanServe
<1>3. net' \in [Links -> Seq(Messages)]
  BY <1>1 DEF SporkTypeOK
<1>4. AnnouncedIsServed'
  BY <1>2, <1>3, StaysServed
<1> QED BY <1>1, <1>4 DEF SporkInv

LEMMA ReceiveInvInv ==
  ASSUME SporkInv, NEW l \in Links, ReceiveInv(l)
  PROVE  SporkInv'
<1> DEFINE h == Head(net[l]).hash
<1>1. net[l] # <<>> /\ Head(net[l]).type = "inv" /\ Reply(l, <<>>)
      /\ UNCHANGED <<mapSporks, mapSporksActive, fulfilled, updates, breaks>>
      /\ mapAskFor' = IF h \in mapSporks[l[2]] THEN mapAskFor
                      ELSE [mapAskFor EXCEPT ![Back(l)] = @ \cup {h}]
  BY DEF ReceiveInv, IsHead
<1>2. h \in Hashes /\ h \in mapSporks[l[1]] /\ SporkTypeOK
  BY <1>1, HeadServed, MessageFields DEF CanServe
<1>3. Back(l) \in Links /\ Back(l)[2] = l[1]
  BY BackIsLink
<1> HIDE DEF h
<1>4. /\ mapAskFor' \in [Links -> SUBSET Hashes]
      /\ \A k \in Links : mapAskFor'[k] \subseteq mapAskFor[k] \cup mapSporks[k[2]]
  BY <1>1, <1>2, <1>3 DEF SporkTypeOK
<1>5. <<>> \in Seq(Messages) /\ DOMAIN <<>> = {}
  OBVIOUS
<1> QED BY <1>1, <1>4, <1>5, ReplyServed

LEMMA ReceiveGetDataInv ==
  ASSUME SporkInv, NEW l \in Links, ReceiveGetData(l)
  PROVE  SporkInv'
<1> DEFINE h == Head(net[l]).hash
           reply == IF h \in mapSporks[l[2]] THEN <<SporkMsg(h[1])>> ELSE <<>>
<1>1. net[l] # <<>> /\ Head(net[l]).type = "getdata" /\ Reply(l, reply)
      /\ UNCHANGED <<mapSporks, mapSporksActive, mapAskFor, fulfilled, updates, breaks>>
  BY DEF ReceiveGetData, IsHead
<1>2. h \in Hashes /\ SporkTypeOK
  BY <1>1, HeadServed, MessageFields
<1>3. SporkMsg(h[1]) \in Messages /\ SporkMsg(h[1]).type = "spork"
  BY <1>2, MessageFields DEF Hashes
<1>4. reply \in Seq(Messages) /\ \A j \in DOMAIN reply : reply[j].type = "spork"
  BY <1>3
<1> HIDE DEF reply
<1>5. mapAskFor' \in [Links -> SUBSET Hashes]
  BY <1>1, <1>2 DEF SporkTypeOK
<1> QED BY <1>1, <1>4, <1>5, ReplyServed

LEMMA ReceiveGetSporksInv ==
  ASSUME SporkInv, NEW l \in Links, ReceiveGetSporks(l)
  PROVE  SporkInv'
<1> DEFINE reply == ActiveSporks(l[2])
<1>1. net[l] # <<>> /\ Reply(l, reply)
      /\ UNCHANGED <<mapSporks, mapSporksActive, mapAskFor, fulfilled, updates, breaks>>
  BY DEF ReceiveGetSporks, IsHead
<1>2. SporkTypeOK /\ mapSporksActive[l[2]] \in Sporks \cup {None}
  BY BackIsLink DEF SporkInv, SporkTypeOK
<1>3. reply \in Seq(Messages) /\ \A j \in DOMAIN reply : reply[j].type = "spork"
  <2>1. CASE mapSporksActive[l[2]] = None
    BY <2>1 DEF ActiveSporks
  <2>2. CASE mapSporksActive[l[2]] # None
    <3>1. SporkMsg(mapSporksActive[l[2]]) \in Messages
          /\ SporkMsg(mapSporksActive[l[2]]).type = "spork"
      BY <1>2, <2>2, MessageFields
    <3> QED BY <2>2, <3>1 DEF ActiveSporks
  <2> QED BY <2>1, <2>2
<1> HIDE DEF reply
<1>4. mapAskFor' \in [Links -> SUBSET Hashes]
  BY <1>1, <1>2 DEF SporkTypeOK
<1> QED BY <1>1, <1>3, <1>4, ReplyServed

LEMMA ReceiveSporkInv ==
  ASSUME SporkInv, NEW l \in Links, NEW pad \in Padding[l[2]], ReceiveSpork(l, pad)
  PROVE  SporkInv'
<1> DEFINE n == l[2]
           s == Head(net[l]).spork
           h == <<s, pad>>
           q == [net EXCEPT ![l] = Tail(@)]
<1>1. net[l] # <<>> /\ Head(net[l]).type = "spork"
      /\ UNCHANGED <<mapAskFor, fulfilled, updates, breaks>>
  BY DEF ReceiveSpork, IsHead
<1>2. s \in Sporks /\ SporkTypeOK /\ n \in Nodes /\ net[l] \in Seq(Messages)
  BY <1>1, HeadServed, MessageFields, BackIsLink DEF SporkTypeOK
<1>3. CASE IsNewer(n, s)
  <2>1. Store(n, s, h) /\ net' = Relay(q, n, h)
    BY <1>3 DEF ReceiveSpork
  <2>2. h \in Hashes
    BY <1>2, HashOfCopy
  <2>3. /\ q \in [Links -> Seq(Messages)]
        /\ \A k \in Links : \A i \in DOMAIN q[k] : \E j \in DOMAIN net[k] : q[k][i] = net[k][j]
    BY <1>1, <1>2, TailElements DEF SporkTypeOK
  <2>4. updates' \in 0 .. MaxUpdates
    BY <1>1, <1>2 DEF SporkTypeOK
  <2> HIDE DEF q, h, s, n
  <2> QED BY <1>1, <1>2, <2>1, <2>2, <2>3, <2>4, StoreAndRelayInv
<1>4. CASE ~IsNewer(n, s)
  <2>1. Reply(l, <<>>) /\ UNCHANGED <<mapSporks, mapSporksActive>>
    BY <1>4 DEF ReceiveSpork
  <2>2. <<>> \in Seq(Messages) /\ DOMAIN <<>> = {} /\ mapAskFor' \in [Links -> SUBSET Hashes]
    BY <1>1, <1>2 DEF SporkTypeOK
  <2> QED BY <1>1, <2>1, <2>2, ReplyServed
<1> QED BY <1>3, <1>4

LEMMA SendGetDataInv ==
  ASSUME SporkInv, NEW l \in Links, NEW h \in Hashes, SendGetData(l, h)
  PROVE  SporkInv'
<1>1. /\ h \in mapAskFor[l] /\ UNCHANGED <<mapSporks, mapSporksActive, fulfilled, updates, breaks>>
      /\ mapAskFor' = [mapAskFor EXCEPT ![l] = @ \ {h}]
      /\ net' = IF h \in mapSporks[l[1]] THEN net
                ELSE [net EXCEPT ![l] = Append(@, GetData(h))]
  BY DEF SendGetData
<1>2. GetData(h) \in Messages /\ GetData(h).type = "getdata" /\ GetData(h).hash = h
  BY MessageFields
<1>3. SporkTypeOK /\ net[l] \in Seq(Messages)
  BY DEF SporkInv, SporkTypeOK
<1>4. SporkTypeOK'
  BY <1>1, <1>2, <1>3 DEF SporkTypeOK
<1>5. CanServe(mapSporks', l, GetData(h))
  BY <1>1, <1>2 DEF CanServe, SporkInv, AnnouncedIsServed
<1>6. ASSUME NEW k \in Links, NEW i \in DOMAIN net'[k]
      PROVE  \/ \E j \in DOMAIN net[k] : net'[k][i] = net[k][j]
             \/ CanServe(mapSporks', k, net'[k][i])
  <2>1. CASE net'[k] = net[k]
    BY <2>1
  <2>2. CASE net'[k] # net[k]
    <3>1. k = l /\ net'[k] = Append(net[l], GetData(h))
      BY <1>1, <1>3, <2>2 DEF SporkTypeOK
    <3>2. i \in 1 .. Len(net[l]) + 1
      BY <1>2, <1>3, <3>1
    <3> QED BY <1>3, <1>5, <3>1, <3>2
  <2> QED BY <2>1, <2>2
<1>7. net' \in [Links -> Seq(Messages)]
  BY <1>4 DEF SporkTypeOK
<1>8. /\ \A n \in Nodes : mapSporks[n] \subseteq mapSporks'[n]
      /\ \A k \in Links : mapAskFor'[k] \subseteq mapAskFor[k] \cup mapSporks'[k[2]]
  BY <1>1, <1>3 DEF SporkTypeOK
<1>9. AnnouncedIsServed'
  BY <1>6, <1>7, <1>8, StaysServed
<1> QED BY <1>4, <1>9 DEF SporkInv

LEMMA DistributionTickInv ==
  ASSUME SporkInv, NEW n \in Nodes, NEW l \in Links, DistributionTick(n, l)
  PROVE  SporkInv'
<1>1. PICK ask \in SUBSET Links :
        /\ net' = [k \in Links |-> IF k \in ask THEN Append(net[k], GetSporks) ELSE net[k]]
        /\ fulfilled' = (fulfilled \ {l}) \cup ask
        /\ UNCHANGED <<mapSporks, mapSporksActive, mapAskFor, updates, breaks>>
  BY DEF DistributionTick
<1>2. ask \subseteq Links
  OBVIOUS
<1>3. GetSporks \in Messages /\ GetSporks.type = "getsporks"
  BY MessageFields
<1>4. SporkTypeOK /\ \A k \in Links : net[k] \in Seq(Messages)
  BY DEF SporkInv, SporkTypeOK
<1>5. net' \in [Links -> Seq(Messages)]
  BY <1>1, <1>3, <1>4
<1>6. SporkTypeOK'
  BY <1>1, <1>2, <1>4, <1>5 DEF SporkTypeOK
<1>7. ASSUME NEW k \in Links, NEW i \in DOMAIN net'[k]
      PROVE  \/ \E j \in DOMAIN net[k] : net'[k][i] = net[k][j]
             \/ CanServe(mapSporks', k, net'[k][i])
  <2>1. CASE k \in ask
    <3>1. net'[k] = Append(net[k], GetSporks) /\ i \in 1 .. Len(net[k]) + 1
      BY <1>1, <1>3, <1>4, <2>1
    <3>2. net'[k][i] = GetSporks \/ \E j \in DOMAIN net[k] : net'[k][i] = net[k][j]
      BY <1>4, <3>1
    <3> QED BY <1>3, <3>2 DEF CanServe
  <2>2. CASE k \notin ask
    BY <1>1, <2>2
  <2> QED BY <2>1, <2>2
<1>8. AnnouncedIsServed'
  BY <1>1, <1>5, <1>7, StaysServed
<1> QED BY <1>6, <1>8 DEF SporkInv

LEMMA DisconnectInv ==
  ASSUME SporkInv, NEW l \in Links, Disconnect(l)
  PROVE  SporkInv'
<1> DEFINE lost == {l, Back(l)}
<1>1. /\ Drop(lost) /\ breaks' = breaks + 1 /\ breaks < MaxBreaks
      /\ UNCHANGED <<mapSporks, mapSporksActive, updates>>
  BY DEF Disconnect
<1>2. lost \in SUBSET Links /\ SporkTypeOK
  BY BackIsLink DEF SporkInv
<1> HIDE DEF lost
<1>3. /\ net' \in [Links -> Seq(Messages)]
      /\ mapAskFor' \in [Links -> SUBSET Hashes]
      /\ fulfilled' \subseteq Links
      /\ \A k \in Links : net'[k] \in {net[k], <<>>} /\ mapAskFor'[k] \subseteq mapAskFor[k]
  BY <1>1, <1>2, DropLeaves
<1>4. SporkTypeOK'
  BY <1>1, <1>2, <1>3 DEF SporkTypeOK
<1>5. \A k \in Links : \A i \in DOMAIN net'[k] : \E j \in DOMAIN net[k] : net'[k][i] = net[k][j]
  BY <1>3
<1>6. AnnouncedIsServed'
  BY <1>1, <1>3, <1>5, StaysServed
<1> QED BY <1>4, <1>6 DEF SporkInv

\* The one step that forgets hashes: no connection of n survives it.
LEMMA RestartInv ==
  ASSUME SporkInv, NEW n \in Nodes, Restart(n)
  PROVE  SporkInv'
<1> DEFINE lost == {l \in Links : n \in {l[1], l[2]}}
<1>1. /\ Drop(lost) /\ breaks' = breaks + 1 /\ breaks < MaxBreaks /\ updates' = updates
      /\ mapSporks' = [mapSporks EXCEPT ![n] = {}]
      /\ mapSporksActive' = [mapSporksActive EXCEPT ![n] = None]
  BY DEF Restart
<1>2. lost \in SUBSET Links /\ SporkTypeOK
  BY DEF SporkInv
<1>3. SporkTypeOK'
  BY <1>1, <1>2, DropLeaves DEF SporkTypeOK
<1>4. ASSUME NEW k \in Links, k \notin lost
      PROVE  /\ net'[k] \in {net[k], <<>>} /\ mapAskFor'[k] \subseteq mapAskFor[k]
             /\ mapSporks'[k[1]] = mapSporks[k[1]] /\ mapSporks'[k[2]] = mapSporks[k[2]]
  <2>1. net'[k] \in {net[k], <<>>} /\ mapAskFor'[k] \subseteq mapAskFor[k]
    BY <1>1, <1>2, DropLeaves
  <2> QED BY <1>1, <1>2, <1>4, <2>1, BackIsLink DEF SporkTypeOK
<1>5. ASSUME NEW k \in Links, k \in lost
      PROVE  net'[k] = <<>> /\ mapAskFor'[k] = {}
  BY <1>1, <1>2, <1>5, DropLeaves
<1> HIDE DEF lost
<1>6. ASSUME NEW k \in Links
      PROVE  mapAskFor'[k] \subseteq mapSporks'[k[2]]
  BY <1>4, <1>5 DEF SporkInv, AnnouncedIsServed
<1>7. ASSUME NEW k \in Links, NEW i \in DOMAIN net'[k]
      PROVE  CanServe(mapSporks', k, net'[k][i])
  <2>1. CASE k \in lost
    BY <1>5, <2>1
  <2>2. CASE k \notin lost
    <3>1. i \in DOMAIN net[k] /\ net'[k][i] = net[k][i]
      BY <1>4, <2>2
    <3>2. CanServe(mapSporks, k, net[k][i])
      BY <3>1 DEF SporkInv, AnnouncedIsServed
    <3> QED BY <1>4, <2>2, <3>1, <3>2 DEF CanServe
  <2> QED BY <2>1, <2>2
<1>8. AnnouncedIsServed'
  BY <1>6, <1>7 DEF AnnouncedIsServed
<1> QED BY <1>3, <1>8 DEF SporkInv

-----------------------------------------------------------------------------

LEMMA InitInv == Init => SporkInv
BY DEF Init, SporkInv, SporkTypeOK, AnnouncedIsServed

LEMMA StepInv == SporkInv /\ [Next]_vars => SporkInv'
<1> SUFFICES ASSUME SporkInv, [Next]_vars PROVE SporkInv'
  OBVIOUS
<1>1. ASSUME NEW n \in Nodes, NEW s \in Sporks, NEW pad \in Padding[n], UpdateSpork(n, s, pad)
      PROVE  SporkInv'
  BY <1>1, UpdateSporkInv
<1>2. ASSUME NEW l \in Links, Receive(l)
      PROVE  SporkInv'
  BY <1>2, ReceiveInvInv, ReceiveGetDataInv, ReceiveSporkInv, ReceiveGetSporksInv DEF Receive
<1>3. ASSUME NEW l \in Links, Send(l)
      PROVE  SporkInv'
  BY <1>3, SendGetDataInv DEF Send
<1>4. ASSUME NEW l \in Links, Disconnect(l)
      PROVE  SporkInv'
  BY <1>4, DisconnectInv
<1>5. ASSUME NEW n \in Nodes, NEW l \in Links, DistributionTick(n, l)
      PROVE  SporkInv'
  BY <1>5, DistributionTickInv
<1>6. ASSUME NEW n \in Nodes, Restart(n)
      PROVE  SporkInv'
  BY <1>6, RestartInv
<1>7. CASE UNCHANGED vars
  BY <1>7 DEF vars, SporkInv, SporkTypeOK, AnnouncedIsServed, CanServe
<1> QED BY <1>1, <1>2, <1>3, <1>4, <1>5, <1>6, <1>7 DEF Next

\* The state of every node and connection is well formed, in every network.
THEOREM SporkTypeCorrect == Spec => []SporkTypeOK
<1>1. SporkInv => SporkTypeOK
  BY DEF SporkInv
<1> QED BY InitInv, StepInv, <1>1, PTL DEF Spec

\* A node can serve every spork its peers were told of or ask it for, in every
\* network, for any clocks of the signers, any padding, and through restarts and
\* broken connections.
THEOREM AnnouncedIsServedHolds == Spec => []AnnouncedIsServed
<1>1. SporkInv => AnnouncedIsServed
  BY DEF SporkInv
<1> QED BY InitInv, StepInv, <1>1, PTL DEF Spec
=============================================================================
