------------------------------- MODULE Spork -------------------------------
(***************************************************************************)
(* Sporks (spork.cpp): values signed by the holders of a key and spread    *)
(* over the network.  A node takes a spork that was signed later than the  *)
(* one it has and announces it to its peers; a peer asks for what it does  *)
(* not have (the inv and getdata messages of main.cpp), and every node     *)
(* asks its peers for all they have now and then (darksend.cpp).  Nothing  *)
(* is stored on disk: a restart forgets every spork.                       *)
(*                                                                         *)
(* One spork number is modelled; the numbers do not affect each other.     *)
(* CSporkMessage::GetHash hashes the memory from nSporkID to nTimeSigned,  *)
(* the uninitialised bytes between two fields included, so the hash of a   *)
(* spork is the spork with the padding that a node's copy has by chance.   *)
(* A connection delivers in order; one that breaks loses what it carries   *)
(* and is made again.  An entry of mapAskFor is in time due, and a second  *)
(* entry for the same hash is the same as one.                             *)
(***************************************************************************)
EXTENDS Naturals, Sequences

CONSTANTS Nodes,
          Links,      \* the directed connections, both ways
          Signers,    \* the nodes started with -sporkkey
          Values,
          Times,      \* the times their clocks may show, which need not agree
          Padding,    \* Padding[n]: what the padding of a copy at n may hold
          MaxUpdates, \* bound: spork commands
          MaxBreaks,  \* bound: broken connections and restarts
          None

ASSUME SporkAssumption ==
  /\ Links \subseteq Nodes \X Nodes
  /\ \A l \in Links : <<l[2], l[1]>> \in Links
  /\ Signers \subseteq Nodes
  /\ Times \subseteq Nat \ {0}
  /\ MaxUpdates \in Nat /\ MaxBreaks \in Nat

Sporks == [nValue : Values, nTimeSigned : Times]
Hashes == Sporks \X UNION {Padding[n] : n \in Nodes}

ASSUME NoneAssumption == None \notin Sporks

VARIABLES mapSporks,       \* the hashes each node can serve
          mapSporksActive, \* the spork in force at each node, or None
          mapAskFor,       \* the hashes to ask each peer for
          fulfilled,       \* the connections on which getsporks was sent
          net,             \* the messages under way on each connection
          updates, breaks

vars == <<mapSporks, mapSporksActive, mapAskFor, fulfilled, net, updates, breaks>>

Messages == [type : {"inv", "getdata"}, hash : Hashes]
              \cup [type : {"spork"}, spork : Sporks]
              \cup {[type |-> "getsporks"]}

Inv(h)     == [type |-> "inv", hash |-> h]
GetData(h) == [type |-> "getdata", hash |-> h]
SporkMsg(s) == [type |-> "spork", spork |-> s]
GetSporks  == [type |-> "getsporks"]

\* nTimeSigned of the spork in force, 0 without one.
ActiveTime(n) == IF mapSporksActive[n] = None THEN 0
                 ELSE mapSporksActive[n].nTimeSigned

Init ==
  /\ mapSporks = [n \in Nodes |-> {}]
  /\ mapSporksActive = [n \in Nodes |-> None]
  /\ mapAskFor = [l \in Links |-> {}]
  /\ fulfilled = {}
  /\ net = [l \in Links |-> <<>>]
  /\ updates = 0 /\ breaks = 0

-----------------------------------------------------------------------------
(* Sending.  l[1] sends on l, l[2] answers on Back(l).                     *)

Back(l) == <<l[2], l[1]>>

\* The message at the head of l is taken, and l[2] sends reply on Back(l).
Reply(l, reply) ==
  net' = [k \in Links |-> IF k = l THEN Tail(net[l])
                          ELSE IF k = Back(l) THEN net[k] \o reply
                          ELSE net[k]]

\* CSporkMessage::Relay by n to all its peers, on the messages q under way.
Relay(q, n, h) == [k \in Links |-> IF k[1] = n THEN Append(q[k], Inv(h)) ELSE q[k]]

\* Fault: the spork is put in force and announced, but not kept by its hash.
StoreActiveOnly(n, s, h) ==
  /\ mapSporks' = mapSporks
  /\ mapSporksActive' = [mapSporksActive EXCEPT ![n] = s]

Store(n, s, h) ==
  /\ mapSporks' = [mapSporks EXCEPT ![n] = @ \cup {h}]
  /\ mapSporksActive' = [mapSporksActive EXCEPT ![n] = s]

\* The spork command of a key holder: the time is that of its own clock, and
\* is not compared with the spork in force.  It is announced before it is
\* stored, but under cs_main, which ProcessGetData takes.
UpdateSpork(n, s, pad) ==
  /\ n \in Signers
  /\ updates < MaxUpdates
  /\ Store(n, s, <<s, pad>>)
  /\ net' = Relay(net, n, <<s, pad>>)
  /\ updates' = updates + 1
  /\ UNCHANGED <<mapAskFor, fulfilled, breaks>>

-----------------------------------------------------------------------------
(* The messages.                                                           *)

OnLink(l, type) == \E i \in DOMAIN net[l] : net[l][i].type = type
IsHead(l, type) == net[l] # <<>> /\ Head(net[l]).type = type

\* inv: AskFor what AlreadyHave does not know.
ReceiveInv(l) ==
  /\ IsHead(l, "inv")
  /\ LET h == Head(net[l]).hash IN
       mapAskFor' = IF h \in mapSporks[l[2]] THEN mapAskFor
                    ELSE [mapAskFor EXCEPT ![Back(l)] = @ \cup {h}]
  /\ Reply(l, <<>>)
  /\ UNCHANGED <<mapSporks, mapSporksActive, fulfilled, updates, breaks>>

\* SendMessages: a due request is sent unless the spork has come meanwhile.
SendGetData(l, h) ==
  /\ h \in mapAskFor[l]
  /\ mapAskFor' = [mapAskFor EXCEPT ![l] = @ \ {h}]
  /\ net' = IF h \in mapSporks[l[1]] THEN net
            ELSE [net EXCEPT ![l] = Append(@, GetData(h))]
  /\ UNCHANGED <<mapSporks, mapSporksActive, fulfilled, updates, breaks>>

\* getdata: ProcessGetData.
ReceiveGetData(l) ==
  /\ IsHead(l, "getdata")
  /\ LET h == Head(net[l]).hash IN
       Reply(l, IF h \in mapSporks[l[2]] THEN <<SporkMsg(h[1])>> ELSE <<>>)
  /\ UNCHANGED <<mapSporks, mapSporksActive, mapAskFor, fulfilled, updates, breaks>>

\* Fault: a spork that was signed before the one in force is taken as well.
IsNewerNever(n, s) == mapSporksActive[n] # s

IsNewer(n, s) == ActiveTime(n) < s.nTimeSigned

\* spork: ProcessSpork.
ReceiveSpork(l, pad) ==
  /\ IsHead(l, "spork")
  /\ LET n == l[2]
         s == Head(net[l]).spork
     IN  IF IsNewer(n, s)
         THEN /\ Store(n, s, <<s, pad>>)
              /\ net' = Relay([net EXCEPT ![l] = Tail(@)], n, <<s, pad>>)
         ELSE /\ Reply(l, <<>>)
              /\ UNCHANGED <<mapSporks, mapSporksActive>>
  /\ UNCHANGED <<mapAskFor, fulfilled, updates, breaks>>

\* Fault: the sporks are looked up by number, which makes an entry for one
\* that is not there.
ActiveSporksByNumber(n) == <<SporkMsg(mapSporksActive[n])>>

ActiveSporks(n) ==
  IF mapSporksActive[n] = None THEN <<>> ELSE <<SporkMsg(mapSporksActive[n])>>

\* getsporks: ProcessSpork.
ReceiveGetSporks(l) ==
  /\ IsHead(l, "getsporks")
  /\ Reply(l, ActiveSporks(l[2]))
  /\ UNCHANGED <<mapSporks, mapSporksActive, mapAskFor, fulfilled, updates, breaks>>

\* ThreadCheckDarkSendPool: the flag of one peer, chosen by chance, is cleared, and the
\* peers without the flag are asked, until MAX_REQUESTS_PER_TICK_CYCLE ends the round.
\* Bound: a peer is not asked again before the last request is read and the sporks it
\* sent are taken.
DistributionTick(n, l) ==
  /\ l[1] = n
  /\ \E ask \in SUBSET {k \in Links : k[1] = n /\ (k = l \/ k \notin fulfilled)} :
       /\ ask # {}
       /\ \A k \in ask : ~OnLink(k, "getsporks") /\ ~OnLink(Back(k), "spork")
       /\ net' = [k \in Links |-> IF k \in ask THEN Append(net[k], GetSporks) ELSE net[k]]
       /\ fulfilled' = (fulfilled \ {l}) \cup ask
  /\ UNCHANGED <<mapSporks, mapSporksActive, mapAskFor, updates, breaks>>

-----------------------------------------------------------------------------
(* Failures: the state kept for a connection goes with it.                 *)

Drop(lost) ==
  /\ net' = [k \in Links |-> IF k \in lost THEN <<>> ELSE net[k]]
  /\ mapAskFor' = [k \in Links |-> IF k \in lost THEN {} ELSE mapAskFor[k]]
  /\ fulfilled' = fulfilled \ lost

Disconnect(l) ==
  /\ breaks < MaxBreaks
  /\ Drop({l, Back(l)})
  /\ breaks' = breaks + 1
  /\ UNCHANGED <<mapSporks, mapSporksActive, updates>>

Restart(n) ==
  /\ breaks < MaxBreaks
  /\ mapSporks' = [mapSporks EXCEPT ![n] = {}]
  /\ mapSporksActive' = [mapSporksActive EXCEPT ![n] = None]
  /\ Drop({l \in Links : n \in {l[1], l[2]}})
  /\ breaks' = breaks + 1
  /\ UNCHANGED updates

-----------------------------------------------------------------------------

Receive(l) ==
  \/ ReceiveInv(l)
  \/ ReceiveGetData(l)
  \/ \E pad \in Padding[l[2]] : ReceiveSpork(l, pad)
  \/ ReceiveGetSporks(l)

Send(l) == \E h \in Hashes : SendGetData(l, h)

Next ==
  \/ \E n \in Nodes, s \in Sporks : \E pad \in Padding[n] : UpdateSpork(n, s, pad)
  \/ \E l \in Links : Receive(l) \/ Send(l) \/ Disconnect(l)
  \/ \E n \in Nodes, l \in Links : DistributionTick(n, l)
  \/ \E n \in Nodes : Restart(n)

Spec == Init /\ [][Next]_vars

(***************************************************************************)
(* The message thread serves every peer in turn, requests come due, and a  *)
(* peer that is picked by chance again and again is picked.                *)
(***************************************************************************)
FairSpec ==
  /\ Spec
  /\ \A l \in Links : /\ WF_vars(Receive(l))
                      /\ WF_vars(Send(l))
                      /\ WF_vars(DistributionTick(l[1], l))

-----------------------------------------------------------------------------
\* Type invariant.
SporkTypeOK ==
  /\ mapSporks \in [Nodes -> SUBSET Hashes]
  /\ mapSporksActive \in [Nodes -> Sporks \cup {None}]
  /\ mapAskFor \in [Links -> SUBSET Hashes]
  /\ fulfilled \subseteq Links
  /\ net \in [Links -> Seq(Messages)]
  /\ updates \in 0 .. MaxUpdates
  /\ breaks \in 0 .. MaxBreaks

\* The hash in m, on its way on l, is one its announcer has among has.
CanServe(has, l, m) ==
  /\ m.type = "inv" => m.hash \in has[l[1]]
  /\ m.type = "getdata" => m.hash \in has[l[2]]

\* What a peer was told of can be served: a hash that is announced, waits in
\* mapAskFor or is asked for on a connection is in mapSporks of the node at
\* its other end, through restarts, broken connections and any padding.
AnnouncedIsServed ==
  \A l \in Links :
    /\ mapAskFor[l] \subseteq mapSporks[l[2]]
    /\ \A i \in DOMAIN net[l] : CanServe(mapSporks, l, net[l][i])

\* The nodes end with sporks of the same signing time, whatever clocks signed
\* them, in whatever order they arrived, and whoever restarted or lost its
\* connections on the way.  Two sporks signed in the same second are beyond it:
\* each node keeps the one it saw first.
SporksConverge == <>[](\A n, m \in Nodes : ActiveTime(n) = ActiveTime(m))
=============================================================================
