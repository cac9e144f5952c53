------------------------ MODULE NodeConnectionProofs ------------------------
(***************************************************************************)
(* Theorems about NodeConnection, for every set of nodes and connections   *)
(* and every limit.                                                        *)
(***************************************************************************)
EXTENDS NodeConnection, FiniteSetTheorems, TLAPS

USE DEF linkVars, serverVars, clientVars, counters

-----------------------------------------------------------------------------
(* Type correctness, one connection of each node, and the ConnLimiter.     *)

\* The connections whose handler runs; each has an owner.
Busy == {c \in Conns : serve[c] # "ended"}
Owned == \A c \in Busy : owner[c] \in Nodes
Inv == /\ TypeOK /\ OneServedConnection /\ Owned
       /\ connNum = Cardinality(Busy)

\* A label of a goroutine is replaced by another of its labels.
LEMMA ManagerUpdates ==
  ASSUME TypeOK, NEW c \in Conns, NEW e \in Ends, NEW l
  PROVE  /\ l \in RecvLabels =>
              [mgr EXCEPT ![c][e].recv = l] \in [Conns -> [Ends -> Manager_Type]]
         /\ l \in BeatLabels =>
              [mgr EXCEPT ![c][e].beat = l] \in [Conns -> [Ends -> Manager_Type]]
<1>1. mgr \in [Conns -> [Ends -> Manager_Type]] /\ mgr[c][e] \in Manager_Type
  BY DEF TypeOK
<1>2. l \in RecvLabels => [mgr[c][e] EXCEPT !.recv = l] \in Manager_Type
  BY <1>1 DEF Manager_Type
<1>3. l \in BeatLabels => [mgr[c][e] EXCEPT !.beat = l] \in Manager_Type
  BY <1>1 DEF Manager_Type
<1> QED
  BY <1>1, <1>2, <1>3

\* What stop() does to a manager leaves it one.
LEMMA CallerUpdates ==
  ASSUME TypeOK, NEW c \in Conns, NEW e \in Ends, NEW g \in Callers
  PROVE  /\ [mgr EXCEPT ![c][e][g] = Returned(g)] \in [Conns -> [Ends -> Manager_Type]]
         /\ [mgr EXCEPT ![c][e][g] = "wait", ![c][e].cancelled = TRUE]
              \in [Conns -> [Ends -> Manager_Type]]
         /\ [mgr EXCEPT ![c][e][g] = Returned(g), ![c][e].open = FALSE,
                        ![c][e].flag = FALSE] \in [Conns -> [Ends -> Manager_Type]]
<1>1. mgr \in [Conns -> [Ends -> Manager_Type]] /\ mgr[c][e] \in Manager_Type
  BY DEF TypeOK
<1>2. /\ [mgr[c][e] EXCEPT ![g] = Returned(g)] \in Manager_Type
      /\ [mgr[c][e] EXCEPT ![g] = "wait"] \in Manager_Type
  BY <1>1 DEF Manager_Type, Callers, Returned, RecvLabels, BeatLabels
<1>3. ASSUME NEW m \in Manager_Type
      PROVE  /\ [m EXCEPT !.cancelled = TRUE] \in Manager_Type
             /\ [m EXCEPT !.open = FALSE] \in Manager_Type
             /\ [m EXCEPT !.flag = FALSE] \in Manager_Type
  BY <1>3 DEF Manager_Type
<1>4. ASSUME NEW f \in [Conns -> [Ends -> Manager_Type]], NEW m \in Manager_Type
      PROVE  /\ [f EXCEPT ![c][e] = m] \in [Conns -> [Ends -> Manager_Type]]
             /\ [f EXCEPT ![c][e] = m][c][e] = m
  BY <1>4
<1>5. [mgr EXCEPT ![c][e][g] = Returned(g)] \in [Conns -> [Ends -> Manager_Type]]
  BY <1>1, <1>2, <1>4
<1>6. [mgr EXCEPT ![c][e][g] = "wait", ![c][e].cancelled = TRUE]
        \in [Conns -> [Ends -> Manager_Type]]
  <2> DEFINE f == [mgr EXCEPT ![c][e][g] = "wait"]
  <2>1. f \in [Conns -> [Ends -> Manager_Type]] /\ f[c][e] \in Manager_Type
    BY <1>1, <1>2, <1>4
  <2> HIDE DEF f
  <2>2. [f EXCEPT ![c][e].cancelled = TRUE] \in [Conns -> [Ends -> Manager_Type]]
    BY <1>3, <1>4, <2>1
  <2> QED
    BY <2>2 DEF f
<1>7. [mgr EXCEPT ![c][e][g] = Returned(g), ![c][e].open = FALSE,
                  ![c][e].flag = FALSE] \in [Conns -> [Ends -> Manager_Type]]
  <2> DEFINE f == [mgr EXCEPT ![c][e][g] = Returned(g)]
             h == [f EXCEPT ![c][e].open = FALSE]
  <2>1. f \in [Conns -> [Ends -> Manager_Type]] /\ f[c][e] \in Manager_Type
    BY <1>1, <1>2, <1>4
  <2> HIDE DEF f
  <2>m. [f[c][e] EXCEPT !.open = FALSE] \in Manager_Type
    BY <1>3, <2>1
  <2>2. h \in [Conns -> [Ends -> Manager_Type]] /\ h[c][e] \in Manager_Type
    BY <1>4, <2>1, <2>m
  <2> HIDE DEF h
  <2>3. [h EXCEPT ![c][e].flag = FALSE] \in [Conns -> [Ends -> Manager_Type]]
    BY <1>3, <1>4, <2>2
  <2> QED
    BY <2>3 DEF f, h
<1> QED
  BY <1>5, <1>6, <1>7

\* A step of a manager keeps the types and touches neither serveHTTP nor
\* the client's goroutines.
LEMMA ManagerTypes ==
  ASSUME TypeOK, NEW c \in Conns, NEW e \in Ends, Manager(c, e) \/ Message(c, e)
  PROVE  /\ mgr' \in [Conns -> [Ends -> Manager_Type]]
         /\ link' \in [Conns -> {"up", "down", "reset"}]
         /\ unread' \in [Conns -> SUBSET Ends]
         /\ registered' \in SUBSET Nodes
         /\ UNCHANGED <<owner, serverVars, clientVars, counters>>
<1>0. /\ \A l \in RecvLabels :
           [mgr EXCEPT ![c][e].recv = l] \in [Conns -> [Ends -> Manager_Type]]
      /\ \A l \in BeatLabels :
           [mgr EXCEPT ![c][e].beat = l] \in [Conns -> [Ends -> Manager_Type]]
  BY ManagerUpdates
<1>1. CASE Receive(c, e)
  BY <1>0, <1>1 DEF Receive, TypeOK, RecvLabels
<1>2. CASE Message(c, e)
  BY <1>0, <1>2 DEF Message, TypeOK, RecvLabels
<1>3. CASE PostProcess(c, e)
  BY <1>0, <1>3 DEF PostProcess, TypeOK, RecvLabels
<1>4. CASE Heartbeat(c, e)
  <2>1. Peer(e) \in Ends
    BY DEF Peer, Ends
  <2>2. mgr' \in [Conns -> [Ends -> Manager_Type]]
    BY <1>0, <1>4 DEF Heartbeat, BeatLabels
  <2>3. unread' \in [Conns -> SUBSET Ends]
    BY <1>4, <2>1 DEF Heartbeat, TypeOK
  <2> QED
    BY <1>4, <2>2, <2>3 DEF Heartbeat, TypeOK
<1>5. ASSUME NEW g \in Callers, Stop(c, e, g)
      PROVE  /\ mgr' \in [Conns -> [Ends -> Manager_Type]]
             /\ UNCHANGED <<owner, link, unread, registered, serverVars, clientVars, counters>>
  <2>1. /\ [mgr EXCEPT ![c][e][g] = Returned(g)] \in [Conns -> [Ends -> Manager_Type]]
        /\ [mgr EXCEPT ![c][e][g] = "wait", ![c][e].cancelled = TRUE]
             \in [Conns -> [Ends -> Manager_Type]]
    BY CallerUpdates
  <2> QED
    BY <1>5, <2>1 DEF Stop
<1>6. ASSUME NEW g \in Callers, WaitAndClose(c, e, g)
      PROVE  /\ mgr' \in [Conns -> [Ends -> Manager_Type]]
             /\ link' \in [Conns -> {"up", "down", "reset"}]
             /\ UNCHANGED <<owner, unread, registered, serverVars, clientVars, counters>>
  <2>1. mgr' \in [Conns -> [Ends -> Manager_Type]]
    BY <1>6, CallerUpdates DEF WaitAndClose
  <2> QED
    BY <1>6, <2>1 DEF WaitAndClose, TypeOK, Closed
<1> QED
  BY <1>1, <1>2, <1>3, <1>4, <1>5, <1>6 DEF Manager, TypeOK

\* The counter follows the handlers: one more or one less.
LEMMA BusyCounts ==
  ASSUME TypeOK, NEW c \in Conns, NEW v, serve' = [serve EXCEPT ![c] = v],
         connNum = Cardinality(Busy)
  PROVE  /\ IsFiniteSet(Busy)
         /\ serve[c] = "ended" /\ v # "ended" => Cardinality(Busy') = connNum + 1
         /\ serve[c] # "ended" /\ v = "ended" =>
              Cardinality(Busy') = connNum - 1 /\ connNum # 0
<1>1. IsFiniteSet(Busy)
  BY ConnAssumption, FS_Subset DEF Busy
<1>2. serve' \in [Conns -> {"upgraded", "stored", "serving", "deleted", "ended", v}]
  BY DEF TypeOK
<1>3. ASSUME serve[c] = "ended", v # "ended"  PROVE Cardinality(Busy') = connNum + 1
  <2>1. Busy' = Busy \cup {c} /\ c \notin Busy
    BY <1>3 DEF Busy, TypeOK
  <2> QED
    BY <1>1, <2>1, FS_AddElement
<1>4. ASSUME serve[c] # "ended", v = "ended"
      PROVE  Cardinality(Busy') = connNum - 1 /\ connNum # 0
  <2>1. Busy' = Busy \ {c} /\ c \in Busy
    BY <1>4 DEF Busy, TypeOK
  <2> QED
    BY <1>1, <2>1, FS_RemoveElement, FS_EmptySet
<1> QED
  BY <1>1, <1>3, <1>4

\* serveHTTP keeps the invariant: a name is stored only when it is free, and
\* freed only by the handler that stored it.
LEMMA ServeStep ==
  ASSUME Inv, NEW c \in Conns, Serve(c)
  PROVE  Inv'
<1> USE DEF Inv
<1>0. /\ mgr[c] \in [Ends -> Manager_Type] /\ mgr[c]["server"] \in Manager_Type
      /\ "server" \in Ends /\ "client" \in Ends
      /\ Limit \in Nat /\ connNum \in Nat
  BY BoundAssumption DEF TypeOK, Ends
<1>1. CASE ServeHTTP(c)
  <2>0. serve[c] = "upgraded" /\ owner[c] \in Nodes
    BY <1>1 DEF ServeHTTP, Owned, Busy
  <2>1. CASE clientMap[owner[c]] = NoConn
    <3>1. /\ clientMap' = [clientMap EXCEPT ![owner[c]] = c]
          /\ serve' = [serve EXCEPT ![c] = "stored"]
          /\ UNCHANGED <<linkVars, mgr, connNum, registered, clientVars, counters>>
      BY <1>1, <2>1 DEF ServeHTTP
    <3>2. TypeOK'
      BY <2>0, <3>1 DEF TypeOK
    <3>3. OneServedConnection'
      BY <2>0, <2>1, <3>1, ConnAssumption DEF OneServedConnection, Stored, TypeOK
    <3>4. Owned' /\ connNum' = Cardinality(Busy')
      <4>1. Owned'
        BY <2>0, <3>1 DEF Owned, Busy, TypeOK
      <4>2. Busy' = Busy
        BY <2>0, <3>1 DEF Busy, TypeOK
      <4> QED
        BY <3>1, <4>1, <4>2
    <3> QED
      BY <3>2, <3>3, <3>4
  <2>2. CASE clientMap[owner[c]] # NoConn
    <3>1. /\ link' = Closed(c)
          /\ mgr' = [mgr EXCEPT ![c]["server"].open = FALSE]
          /\ serve' = [serve EXCEPT ![c] = "deleted"]
          /\ UNCHANGED <<owner, unread, clientMap, connNum, registered, clientVars, counters>>
      BY <1>1, <2>2 DEF ServeHTTP
    <3>2. TypeOK'
      <4>1. mgr' \in [Conns -> [Ends -> Manager_Type]]
        <5>1. [mgr[c]["server"] EXCEPT !.open = FALSE] \in Manager_Type
          BY <1>0 DEF Manager_Type
        <5> QED
          BY <1>0, <3>1, <5>1 DEF TypeOK
      <4>2. link' \in [Conns -> {"up", "down", "reset"}]
        BY <3>1 DEF Closed, TypeOK
      <4> QED
        BY <3>1, <4>1, <4>2 DEF TypeOK
    <3>3. OneServedConnection'
      BY <2>0, <2>2, <3>1 DEF OneServedConnection, Stored, TypeOK
    <3>4. Owned' /\ connNum' = Cardinality(Busy')
      <4>1. Owned'
        BY <2>0, <3>1 DEF Owned, Busy, TypeOK
      <4>2. Busy' = Busy
        BY <2>0, <3>1 DEF Busy, TypeOK
      <4> QED
        BY <3>1, <4>1, <4>2
    <3> QED
      BY <3>2, <3>3, <3>4
  <2> QED
    BY <2>1, <2>2
<1>2. CASE StartServerConn(c)
  <2>0. serve[c] = "stored" /\ owner[c] \in Nodes
    BY <1>2 DEF StartServerConn, Owned, Busy
  <2>1. TypeOK'
    <3>1. Start(mgr[c]["server"]) \in Manager_Type
      BY <1>0 DEF Start, Manager_Type, RecvLabels, BeatLabels
    <3>2. mgr' \in [Conns -> [Ends -> Manager_Type]]
      BY <1>0, <1>2, <3>1 DEF StartServerConn, TypeOK
    <3> QED
      BY <1>2, <2>0, <3>2 DEF StartServerConn, TypeOK
  <2>2. OneServedConnection'
    BY <1>2, <2>0 DEF StartServerConn, OneServedConnection, Stored, TypeOK
  <2>3. Owned'
    BY <1>2, <2>0 DEF StartServerConn, Owned, Busy, TypeOK
  <2>4. connNum' = Cardinality(Busy')
    <3>1. Busy' = Busy
      BY <1>2, <2>0 DEF StartServerConn, Busy, TypeOK
    <3> QED
      BY <1>2, <3>1 DEF StartServerConn
  <2> QED
    BY <2>1, <2>2, <2>3, <2>4
<1>3. CASE Disconnected(c)
  <2>0. serve[c] = "serving" /\ owner[c] \in Nodes
    BY <1>3 DEF Disconnected, Owned, Busy
  <2>1. TypeOK'
    BY <1>3, <2>0 DEF Disconnected, TypeOK
  <2>2. OneServedConnection'
    BY <1>3, <2>0, ConnAssumption DEF Disconnected, OneServedConnection, Stored, TypeOK
  <2>3. Owned'
    BY <1>3, <2>0 DEF Disconnected, Owned, Busy, TypeOK
  <2>4. connNum' = Cardinality(Busy')
    <3>1. Busy' = Busy
      BY <1>3, <2>0 DEF Disconnected, Busy, TypeOK
    <3> QED
      BY <1>3, <3>1 DEF Disconnected
  <2> QED
    BY <2>1, <2>2, <2>3, <2>4
<1>4. CASE ConnDone(c)
  <2>0. serve[c] = "deleted" /\ owner[c] \in Nodes
    BY <1>4 DEF ConnDone, Owned, Busy
  <2>1. connNum' = Cardinality(Busy') /\ connNum # 0
    BY <1>4, <2>0, BusyCounts DEF ConnDone
  <2>2. TypeOK'
    <3>0. connNum \in 0..Limit
      BY DEF TypeOK
    <3>1. connNum' \in 0..Limit
      <4>1. connNum' = connNum - 1
        BY <1>4 DEF ConnDone
      <4> HIDE DEF Inv
      <4> QED
        BY <1>0, <2>1, <3>0, <4>1
    <3> QED
      BY <1>4, <3>1 DEF ConnDone, TypeOK
  <2>3. OneServedConnection'
    BY <1>4, <2>0 DEF ConnDone, OneServedConnection, Stored, TypeOK
  <2>4. Owned'
    BY <1>4, <2>0 DEF ConnDone, Owned, Busy, TypeOK
  <2> QED
    BY <2>1, <2>2, <2>3, <2>4
<1> QED
  BY <1>1, <1>2, <1>3, <1>4 DEF Serve

\* The client's goroutines keep it: only a dial concerns the center.
LEMMA ClientStep ==
  ASSUME Inv, NEW n \in Nodes, Client(n) \/ HubStops(n)
  PROVE  Inv'
<1> USE DEF Inv
<1>0. /\ "server" \in Ends /\ "client" \in Ends /\ "hub" \in Dialers
      /\ Loops \subseteq Dialers /\ Limit \in Nat
      /\ connNum \in 0..Limit
  BY BoundAssumption DEF TypeOK, Ends, Dialers, Loops
\* Steps that leave the center alone.
<1>a. ASSUME UNCHANGED <<owner, serverVars>>
      PROVE  OneServedConnection' /\ Owned' /\ connNum' = Cardinality(Busy')
  BY <1>a DEF OneServedConnection, Stored, Owned, Busy
<1>1. ASSUME NEW g \in Dialers, Dial(n, g)  PROVE Inv'
  <2>1. PICK c \in Conns :
          /\ Over(c)
          /\ owner' = [owner EXCEPT ![c] = n]
          /\ link' = [link EXCEPT ![c] = "up"]
          /\ unread' = [unread EXCEPT ![c] = {}]
          /\ mgr' = [mgr EXCEPT ![c] = [e \in Ends |-> NewMgr]]
          /\ serve' = [serve EXCEPT ![c] = "upgraded"]
          /\ dialed' = [dialed EXCEPT ![n][g] = c]
          /\ current' = [m \in Nodes |-> IF current[m] = c THEN NoConn ELSE current[m]]
    BY <1>1 DEF Dial
  <2>2. /\ connNum < Limit /\ connNum' = connNum + 1
        /\ pc' = [pc EXCEPT ![n][g] = "dialed"]
        /\ UNCHANGED <<clientMap, registered, proxyUp, counters>>
    BY <1>1 DEF Dial
  <2>3. serve[c] = "ended"
    BY <2>1 DEF Over
  <2>4. TypeOK'
    <3>1. NewMgr \in Manager_Type
      BY DEF NewMgr, Manager_Type, RecvLabels, BeatLabels
    <3>2. mgr' \in [Conns -> [Ends -> Manager_Type]]
      BY <2>1, <3>1 DEF TypeOK
    <3>3. connNum' \in 0..Limit
      <4> HIDE DEF Inv
      <4> QED
        BY <1>0, <2>2
    <3>4. /\ pc' \in [Nodes -> [Dialers -> {"none", "top", "sleep", "dial", "dialed",
                                            "up", "stopping"}]]
          /\ dialed' \in [Nodes -> [Dialers -> Conns \cup {NoConn}]]
          /\ current' \in [Nodes -> Conns \cup {NoConn}]
      BY <2>1, <2>2 DEF TypeOK
    <3> QED
      BY <2>1, <2>2, <3>2, <3>3, <3>4 DEF TypeOK
  <2>5. OneServedConnection'
    BY <2>1, <2>2, <2>3 DEF OneServedConnection, Stored, TypeOK
  <2>6. Owned'
    BY <2>1, <2>3 DEF Owned, Busy, TypeOK
  <2>7. connNum' = Cardinality(Busy')
    <3>1. /\ TypeOK /\ connNum = Cardinality(Busy)
          /\ serve' = [serve EXCEPT ![c] = "upgraded"] /\ "upgraded" # "ended"
      BY <2>1
    <3> HIDE DEF Inv
    <3>2. Cardinality(Busy') = connNum + 1
      BY <2>3, <3>1, BusyCounts
    <3> QED
      BY <2>2, <3>2
  <2> QED
    BY <2>4, <2>5, <2>6, <2>7
<1>b. ASSUME NEW g \in Dialers, NEW l \in {"none", "top", "sleep", "dial", "dialed",
                                         "up", "stopping"}
      PROVE  [pc EXCEPT ![n][g] = l]
               \in [Nodes -> [Dialers -> {"none", "top", "sleep", "dial", "dialed",
                                         "up", "stopping"}]]
  BY DEF TypeOK
<1>2. ASSUME NEW g \in Dialers, DialCancelled(n, g)  PROVE Inv'
  <2>0. pc' = [pc EXCEPT ![n][g] = "top"]
    BY <1>2 DEF DialCancelled
  <2>1. TypeOK'
    <3>1. pc' \in [Nodes -> [Dialers -> {"none", "top", "sleep", "dial", "dialed",
                                        "up", "stopping"}]]
      BY <1>b, <2>0
    <3> QED
      BY <1>2, <3>1 DEF DialCancelled, TypeOK
  <2> QED
    BY <1>2, <1>a, <2>1 DEF DialCancelled
<1>3. ASSUME NEW g \in Dialers, StartClientConn(n, g)  PROVE Inv'
  <2> DEFINE c == dialed[n][g]
  <2>1. /\ current' = [current EXCEPT ![n] = c]
        /\ mgr' = [mgr EXCEPT ![c]["client"] = Start(@)]
        /\ dialed' = [dialed EXCEPT ![n][g] = NoConn]
        /\ UNCHANGED <<linkVars, serverVars, registered, proxyUp, counters>>
    BY <1>3 DEF StartClientConn
  <2>2. pc' \in [Nodes -> [Dialers -> {"none", "top", "sleep", "dial", "dialed",
                                      "up", "stopping"}]]
    <3>1. CASE pc' = [pc EXCEPT ![n][g] = "top"]
      BY <1>b, <3>1
    <3>2. ASSUME NEW l \in Loops, pc' = [pc EXCEPT ![n]["hub"] = "up", ![n][l] = "top"]
          PROVE  pc' \in [Nodes -> [Dialers -> {"none", "top", "sleep", "dial", "dialed",
                                               "up", "stopping"}]]
      BY <1>0, <3>2 DEF TypeOK
    <3> QED
      BY <1>3, <3>1, <3>2 DEF StartClientConn
  <2>3. c \in Conns \cup {NoConn}
    BY DEF TypeOK
  <2>4. mgr' \in [Conns -> [Ends -> Manager_Type]]
    <3>1. CASE c \in Conns
      <4>1. mgr[c]["client"] \in Manager_Type
        BY <1>0, <3>1 DEF TypeOK
      <4>2. Start(mgr[c]["client"]) \in Manager_Type
        BY <4>1 DEF Start, Manager_Type, RecvLabels, BeatLabels
      <4> HIDE DEF c
      <4> QED
        BY <1>0, <2>1, <3>1, <4>2 DEF TypeOK
    <3>2. CASE c = NoConn
      <4> HIDE DEF c
      <4> QED
        BY <2>1, <3>2, ConnAssumption DEF TypeOK
    <3> QED
      BY <2>3, <3>1, <3>2
  <2>5. TypeOK'
    <3>1. dialed' \in [Nodes -> [Dialers -> Conns \cup {NoConn}]]
      BY <2>1 DEF TypeOK
    <3>2. current' \in [Nodes -> Conns \cup {NoConn}]
      BY <2>1, <2>3 DEF TypeOK
    <3> HIDE DEF c
    <3> QED
      BY <2>1, <2>2, <2>4, <3>1, <3>2 DEF TypeOK
  <2> QED
    BY <2>1, <1>a, <2>5
<1>4. ASSUME NEW g \in Dialers, Reconnect(n, g)  PROVE Inv'
  <2>1. pc' \in [Nodes -> [Dialers -> {"none", "top", "sleep", "dial", "dialed",
                                      "up", "stopping"}]]
    BY <1>4, <1>b DEF Reconnect
  <2>2. TypeOK'
    BY <1>4, <2>1 DEF Reconnect, TypeOK
  <2> QED
    BY <1>4, <1>a, <2>2 DEF Reconnect
<1>5. CASE HubStops(n)
  <2>1. mgr' \in [Conns -> [Ends -> Manager_Type]]
    <3>1. CASE current[n] = NoConn
      BY <1>5, <3>1 DEF HubStops, TypeOK
    <3>2. CASE current[n] # NoConn
      <4>1. current[n] \in Conns
        BY <3>2 DEF TypeOK
      <4>2. mgr[current[n]]["client"] \in Manager_Type
        BY <1>0, <4>1 DEF TypeOK
      <4>3. [mgr[current[n]]["client"] EXCEPT !.proxy = "stop"] \in Manager_Type
        BY <4>2 DEF Manager_Type
      <4> QED
        BY <1>0, <1>5, <3>2, <4>1, <4>3 DEF HubStops, TypeOK
    <3> QED
      BY <3>1, <3>2
  <2>2. restarts' \in 0..MaxRestarts
    BY <1>5, BoundAssumption DEF HubStops, TypeOK
  <2>3. TypeOK'
    BY <1>0, <1>5, <2>1, <2>2 DEF HubStops, TypeOK
  <2> QED
    BY <1>5, <1>a, <2>3 DEF HubStops
<1>6. CASE HubStarts(n)
  <2>1. TypeOK'
    BY <1>0, <1>6 DEF HubStarts, TypeOK
  <2> QED
    BY <1>6, <1>a, <2>1 DEF HubStarts
<1> QED
  BY <1>1, <1>2, <1>3, <1>4, <1>5, <1>6 DEF Client

\* The network keeps it.
LEMMA LinkStep ==
  ASSUME Inv, NEW c \in Conns, LinkFails(c) \/ LinkHeals(c) \/ LinkBreaks(c)
  PROVE  Inv'
<1> USE DEF Inv
<1>1. OneServedConnection' /\ Owned' /\ connNum' = Cardinality(Busy')
  BY DEF LinkFails, LinkHeals, LinkBreaks, OneServedConnection, Stored, Owned, Busy
<1>2. CASE LinkFails(c)
  <2>1. failures' \in 0..MaxFailures
    BY <1>2, BoundAssumption DEF LinkFails, TypeOK
  <2> QED
    BY <1>1, <1>2, <2>1 DEF LinkFails, TypeOK
<1>3. CASE LinkHeals(c)
  BY <1>1, <1>3 DEF LinkHeals, TypeOK
<1>4. CASE LinkBreaks(c)
  BY <1>1, <1>4 DEF LinkBreaks, TypeOK
<1> QED
  BY <1>2, <1>3, <1>4

\* The managers keep it.
LEMMA ManagerStep ==
  ASSUME Inv, NEW c \in Conns, NEW e \in Ends, Manager(c, e) \/ Message(c, e)
  PROVE  Inv'
<1>1. /\ mgr' \in [Conns -> [Ends -> Manager_Type]]
      /\ link' \in [Conns -> {"up", "down", "reset"}]
      /\ unread' \in [Conns -> SUBSET Ends]
      /\ registered' \in SUBSET Nodes
      /\ UNCHANGED <<owner, serverVars, clientVars, counters>>
  BY ManagerTypes DEF Inv
<1>2. TypeOK'
  BY <1>1 DEF Inv, TypeOK
<1>3. OneServedConnection' /\ Owned' /\ connNum' = Cardinality(Busy')
  BY <1>1 DEF Inv, OneServedConnection, Stored, Owned, Busy
<1> QED
  BY <1>2, <1>3 DEF Inv

\* It holds at the start.
LEMMA InvInitial == Init => Inv
<1> SUFFICES ASSUME Init  PROVE Inv
  OBVIOUS
<1>1. TypeOK
  <2>1. [NewMgr EXCEPT !.open = FALSE] \in Manager_Type
    BY DEF NewMgr, Manager_Type, RecvLabels, BeatLabels
  <2>2. connNum \in 0..Limit /\ failures \in 0..MaxFailures /\ restarts \in 0..MaxRestarts
    BY BoundAssumption DEF Init
  <2> QED
    BY <2>1, <2>2 DEF Init, TypeOK
<1>2. Busy = {}
  BY DEF Init, Busy
<1>3. OneServedConnection
  BY ConnAssumption DEF Init, OneServedConnection, Stored
<1> QED
  BY <1>1, <1>2, <1>3, FS_EmptySet DEF Init, Inv, Owned

\* Every step keeps it.
LEMMA InvPreserved == Inv /\ [Next]_vars => Inv'
<1> SUFFICES ASSUME Inv, [Next]_vars  PROVE Inv'
  OBVIOUS
<1>1. CASE UNCHANGED vars
  BY <1>1 DEF vars, Inv, TypeOK, OneServedConnection, Stored, Owned, Busy
<1>2. ASSUME NEW c \in Conns, Serve(c)  PROVE Inv'
  BY <1>2, ServeStep
<1>3. ASSUME NEW c \in Conns, LinkFails(c) \/ LinkHeals(c) \/ LinkBreaks(c)
      PROVE  Inv'
  BY <1>3, LinkStep
<1>4. ASSUME NEW c \in Conns, NEW e \in Ends, Manager(c, e) \/ Message(c, e)
      PROVE  Inv'
  BY <1>4, ManagerStep
<1>5. ASSUME NEW n \in Nodes, Client(n) \/ HubStops(n)  PROVE Inv'
  BY <1>5, ClientStep
<1> QED
  BY <1>1, <1>2, <1>3, <1>4, <1>5 DEF Next

\* Every variable of the two proxies, their managers and the link keeps its
\* type; the ConnLimiter stays within connLimitNum.
THEOREM TypeCorrect == Spec => []TypeOK
<1>1. Inv => TypeOK
  BY DEF Inv
<1> QED
  BY <1>1, InvInitial, InvPreserved, PTL DEF Spec

\* clientMap holds the one connection of each node whose serveHTTP stored it,
\* however the handlers of old and new connections interleave.
THEOREM OneServedConnectionHolds == Spec => []OneServedConnection
<1>1. Inv => OneServedConnection
  BY DEF Inv
<1> QED
  BY <1>1, InvInitial, InvPreserved, PTL DEF Spec

\* The ConnLimiter counts exactly the handlers that run.
THEOREM ConnNumIsExactHolds == Spec => []ConnNumIsExact
<1>1. Inv => ConnNumIsExact
  BY DEF Inv, Busy, ConnNumIsExact
<1> QED
  BY <1>1, InvInitial, InvPreserved, PTL DEF Spec

-----------------------------------------------------------------------------
(* No read after close.                                                    *)

\* A manager whose goroutines were never started and that nobody stops.
Fresh(m) == m.open /\ \A g \in Callers : m[g] = "none"

\* Who waits has cancelled; what is closed is cancelled, or was never started.
Closing(m) ==
  /\ (\E g \in Callers : m[g] = "wait") => m.cancelled
  /\ ~m.open => /\ m.recv # "read"
                /\ m.recv \in {"launched", "top"} \/ m.beat = "run" => m.cancelled

\* A connection the server has not started is fresh at its end, one the client
\* has not started at the other, and the client's goroutines share none.
Unstarted ==
  /\ \A c \in Conns : serve[c] \in {"upgraded", "stored"} => Fresh(mgr[c]["server"])
  /\ \A n \in Nodes : \A g \in Dialers : pc[n][g] = "dialed" =>
       /\ dialed[n][g] \in Conns /\ Fresh(mgr[dialed[n][g]]["client"])
       /\ \A m \in Nodes : current[m] # dialed[n][g]
       /\ \A m \in Nodes : \A h \in Dialers :
            dialed[m][h] = dialed[n][g] => m = n /\ h = g
CloseInv == /\ \A c \in Conns : \A e \in Ends : Closing(mgr[c][e])
            /\ Unstarted

\* A step of a manager replaces that manager, which was started or is being
\* stopped, by one that obeys Closing.
LEMMA ManagerCloses ==
  ASSUME TypeOK, NEW c \in Conns, NEW e \in Ends, Manager(c, e) \/ Message(c, e),
         Closing(mgr[c][e])
  PROVE  \E m : /\ mgr' = [mgr EXCEPT ![c][e] = m] /\ Closing(m)
               /\ ~Fresh(mgr[c][e])
<1> DEFINE m0 == mgr[c][e]
<1>0. m0 \in Manager_Type
  BY DEF TypeOK
<1>1. ASSUME NEW l \in {"top", "read", "stop", "post", "unreg", "none"}, m0.recv # "none",
             mgr' = [mgr EXCEPT ![c][e].recv = l],
             l = "read" => m0.recv = "top" /\ ~m0.cancelled,
             l = "top" => m0.recv \in {"launched", "read"}
      PROVE  \E m : mgr' = [mgr EXCEPT ![c][e] = m] /\ Closing(m) /\ ~Fresh(m0)
  <2> DEFINE m == [m0 EXCEPT !.recv = l]
  <2>1. mgr' = [mgr EXCEPT ![c][e] = m]
    BY <1>1
  <2>2. Closing(m)
    BY <1>0, <1>1 DEF Closing, Manager_Type, Callers
  <2>3. ~Fresh(m0)
    BY <1>1 DEF Fresh, Callers
  <2> QED
    BY <2>1, <2>2, <2>3
<1>2. ASSUME NEW l \in {"none", "stop"}, m0.beat # "none",
             mgr' = [mgr EXCEPT ![c][e].beat = l]
      PROVE  \E m : mgr' = [mgr EXCEPT ![c][e] = m] /\ Closing(m) /\ ~Fresh(m0)
  <2> DEFINE m == [m0 EXCEPT !.beat = l]
  <2>1. mgr' = [mgr EXCEPT ![c][e] = m]
    BY <1>2
  <2>2. Closing(m)
    BY <1>0, <1>2 DEF Closing, Manager_Type, Callers
  <2>3. ~Fresh(m0)
    BY <1>2 DEF Fresh, Callers
  <2> QED
    BY <2>1, <2>2, <2>3
<1>3. CASE Receive(c, e)
  BY <1>1, <1>3 DEF Receive
<1>4. CASE Message(c, e)
  BY <1>1, <1>4 DEF Message
<1>5. CASE PostProcess(c, e)
  BY <1>1, <1>5 DEF PostProcess
<1>6. CASE Heartbeat(c, e)
  BY <1>2, <1>6 DEF Heartbeat
<1>7. ASSUME NEW g \in Callers, Stop(c, e, g)
      PROVE  \E m : mgr' = [mgr EXCEPT ![c][e] = m] /\ Closing(m) /\ ~Fresh(m0)
  <2>0. ~Fresh(m0)
    BY <1>7 DEF Stop, Fresh
  <2>1. CASE mgr' = [mgr EXCEPT ![c][e][g] = Returned(g)]
    <3> DEFINE m == [m0 EXCEPT ![g] = Returned(g)]
    <3>1. mgr' = [mgr EXCEPT ![c][e] = m]
      BY <2>1
    <3>2. Closing(m)
      BY <1>0, <1>7 DEF Closing, Manager_Type, Callers, Returned, Stop
    <3> QED
      BY <2>0, <3>1, <3>2
  <2>2. CASE mgr' = [mgr EXCEPT ![c][e][g] = "wait", ![c][e].cancelled = TRUE]
    <3> DEFINE m == [m0 EXCEPT ![g] = "wait", !.cancelled = TRUE]
    <3>1. mgr' = [mgr EXCEPT ![c][e] = m]
      BY <2>2
    <3>2. Closing(m)
      BY <1>0, <1>7 DEF Closing, Manager_Type, Callers, Stop
    <3> QED
      BY <2>0, <3>1, <3>2
  <2> QED
    BY <1>7, <2>1, <2>2 DEF Stop
<1>8. ASSUME NEW g \in Callers, WaitAndClose(c, e, g)
      PROVE  \E m : mgr' = [mgr EXCEPT ![c][e] = m] /\ Closing(m) /\ ~Fresh(m0)
  <2> DEFINE m == [m0 EXCEPT ![g] = Returned(g), !.open = FALSE, !.flag = FALSE]
  <2>1. mgr' = [mgr EXCEPT ![c][e] = m]
    BY <1>8 DEF WaitAndClose
  <2>2. Closing(m)
    BY <1>0, <1>8 DEF Closing, Manager_Type, Callers, Returned, WaitAndClose, Waited
  <2>3. ~Fresh(m0)
    BY <1>8 DEF WaitAndClose, Fresh
  <2> QED
    BY <2>1, <2>2, <2>3
<1> QED
  BY <1>3, <1>4, <1>5, <1>6, <1>7, <1>8 DEF Manager

\* The managers keep CloseInv: they have no step on a fresh one.
LEMMA ManagerKeepsCloseInv ==
  ASSUME TypeOK, CloseInv, NEW c \in Conns, NEW e \in Ends,
         Manager(c, e) \/ Message(c, e)
  PROVE  CloseInv'
<1>1. PICK m : mgr' = [mgr EXCEPT ![c][e] = m] /\ Closing(m) /\ ~Fresh(mgr[c][e])
  BY ManagerCloses DEF CloseInv
<1>2. UNCHANGED <<serve, current, pc, dialed>>
  BY ManagerTypes
<1>3. \A d \in Conns : \A f \in Ends : mgr'[d][f] = mgr[d][f] \/ (d = c /\ f = e /\ mgr'[d][f] = m)
  BY <1>1 DEF TypeOK
<1>4. \A d \in Conns : \A f \in Ends : Closing(mgr'[d][f])
  BY <1>1, <1>3 DEF CloseInv
<1>5. \A d \in Conns : \A f \in Ends : Fresh(mgr[d][f]) => Fresh(mgr'[d][f])
  BY <1>1, <1>3
<1>6. Unstarted'
  BY <1>2, <1>5 DEF CloseInv, Unstarted, Ends
<1> QED
  BY <1>4, <1>6 DEF CloseInv

\* serveHTTP starts a fresh manager, or closes it unstarted.
LEMMA ServeKeepsCloseInv ==
  ASSUME TypeOK, CloseInv, NEW c \in Conns, Serve(c)
  PROVE  CloseInv'
<1>0. "server" \in Ends /\ "client" \in Ends
  BY DEF Ends
<1>1. UNCHANGED <<current, pc, dialed>>
  BY DEF Serve, ServeHTTP, StartServerConn, Disconnected, ConnDone
<1>2. ASSUME UNCHANGED mgr,
             serve[c] \notin {"upgraded", "stored"} => serve'[c] \notin {"upgraded", "stored"},
             \A d \in Conns \ {c} : serve'[d] = serve[d]
      PROVE  CloseInv'
  BY <1>1, <1>2 DEF CloseInv, Unstarted, Closing, Fresh
<1>3. ASSUME NEW m, mgr' = [mgr EXCEPT ![c]["server"] = m], Closing(m),
             serve'[c] \notin {"upgraded", "stored"},
             \A d \in Conns \ {c} : serve'[d] = serve[d]
      PROVE  CloseInv'
  <2>1. /\ mgr'[c]["server"] = m
        /\ \A d \in Conns : mgr'[d]["client"] = mgr[d]["client"]
        /\ \A d \in Conns \ {c} : mgr'[d]["server"] = mgr[d]["server"]
    BY <1>0, <1>3 DEF TypeOK
  <2>2. \A d \in Conns : \A f \in Ends : Closing(mgr'[d][f])
    BY <1>3, <2>1 DEF CloseInv, Ends
  <2>3. Unstarted'
    BY <1>1, <1>3, <2>1 DEF CloseInv, Unstarted
  <2> QED
    BY <2>2, <2>3 DEF CloseInv
<1>4. CASE ServeHTTP(c)
  <2>0. serve[c] = "upgraded" /\ Fresh(mgr[c]["server"])
        /\ mgr[c]["server"] \in Manager_Type
    BY <1>0, <1>4 DEF ServeHTTP, CloseInv, Unstarted, TypeOK
  <2>1. CASE clientMap[owner[c]] = NoConn
    <3>1. UNCHANGED mgr /\ serve' = [serve EXCEPT ![c] = "stored"]
      BY <1>4, <2>1 DEF ServeHTTP
    <3> QED
      BY <1>2, <2>0, <3>1 DEF TypeOK
  <2>2. CASE clientMap[owner[c]] # NoConn
    <3> DEFINE m == [mgr[c]["server"] EXCEPT !.open = FALSE]
    <3>1. mgr' = [mgr EXCEPT ![c]["server"] = m]
      BY <1>4, <2>2 DEF ServeHTTP
    <3>2. serve' = [serve EXCEPT ![c] = "deleted"]
      BY <1>4, <2>2 DEF ServeHTTP
    <3>3. Closing(m)
      BY <2>0 DEF Closing, Fresh, Manager_Type, Callers
    <3> HIDE DEF m
    <3>4. serve'[c] = "deleted" /\ \A d \in Conns \ {c} : serve'[d] = serve[d]
      BY <3>2 DEF TypeOK
    <3> QED
      BY <1>3, <3>1, <3>3, <3>4
  <2> QED
    BY <2>1, <2>2
<1>5. CASE StartServerConn(c)
  <2> DEFINE m == Start(mgr[c]["server"])
  <2>0. Fresh(mgr[c]["server"]) /\ mgr[c]["server"] \in Manager_Type
    BY <1>0, <1>5 DEF StartServerConn, CloseInv, Unstarted, TypeOK
  <2>1. mgr' = [mgr EXCEPT ![c]["server"] = m]
    BY <1>5 DEF StartServerConn
  <2>2. serve' = [serve EXCEPT ![c] = "serving"]
    BY <1>5 DEF StartServerConn
  <2>3. Closing(m)
    BY <2>0 DEF Closing, Fresh, Manager_Type, Callers, Start
  <2> HIDE DEF m
  <2>4. serve'[c] = "serving" /\ \A d \in Conns \ {c} : serve'[d] = serve[d]
    BY <2>2 DEF TypeOK
  <2> QED
    BY <1>3, <2>1, <2>3, <2>4
<1>6. CASE Disconnected(c) \/ ConnDone(c)
  BY <1>2, <1>6 DEF Disconnected, ConnDone, TypeOK
<1> QED
  BY <1>4, <1>5, <1>6 DEF Serve

\* The client starts a fresh manager, and the hub stops another one.
LEMMA ClientKeepsCloseInv ==
  ASSUME TypeOK, CloseInv, NEW n \in Nodes, Client(n) \/ HubStops(n)
  PROVE  CloseInv'
<1>0. /\ "server" \in Ends /\ "client" \in Ends /\ "hub" \in Dialers
      /\ Loops \subseteq Dialers /\ \A l \in Loops : l # "hub"
  BY DEF Ends, Dialers, Loops
\* Steps that move a goroutine to another label than "dialed".
<1>1. ASSUME UNCHANGED <<serve, mgr, current>>,
             \A m \in Nodes : \A h \in Dialers :
               /\ pc'[m][h] = "dialed" => pc[m][h] = "dialed" /\ dialed'[m][h] = dialed[m][h]
               /\ dialed'[m][h] \in {dialed[m][h], NoConn}
      PROVE  CloseInv'
  BY <1>1, ConnAssumption DEF CloseInv, Unstarted, Closing, Fresh
<1>2. ASSUME NEW g \in Dialers, Dial(n, g)  PROVE CloseInv'
  <2>1. PICK c \in Conns :
          /\ Over(c)
          /\ mgr' = [mgr EXCEPT ![c] = [e \in Ends |-> NewMgr]]
          /\ serve' = [serve EXCEPT ![c] = "upgraded"]
          /\ dialed' = [dialed EXCEPT ![n][g] = c]
          /\ current' = [m \in Nodes |-> IF current[m] = c THEN NoConn ELSE current[m]]
    BY <1>2 DEF Dial
  <2>2. pc' = [pc EXCEPT ![n][g] = "dialed"]
    BY <1>2 DEF Dial
  <2>3. Fresh(NewMgr) /\ Closing(NewMgr)
    BY DEF Fresh, Closing, NewMgr, Callers
  <2>4. /\ \A e \in Ends : mgr'[c][e] = NewMgr
        /\ \A d \in Conns \ {c} : mgr'[d] = mgr[d]
        /\ \A d \in Conns \ {c} : serve'[d] = serve[d]
    BY <2>1 DEF TypeOK
  <2>5. \A d \in Conns : \A e \in Ends : Closing(mgr'[d][e])
    BY <2>3, <2>4 DEF CloseInv
  <2>6. \A d \in Conns : serve'[d] \in {"upgraded", "stored"} => Fresh(mgr'[d]["server"])
    BY <1>0, <2>3, <2>4 DEF CloseInv, Unstarted
  <2>7. \A m \in Nodes : \A h \in Dialers : dialed[m][h] # c
    BY <2>1 DEF Over
  <2>8. /\ dialed'[n][g] = c /\ pc'[n][g] = "dialed"
        /\ \A m \in Nodes : \A h \in Dialers :
             m # n \/ h # g => dialed'[m][h] = dialed[m][h] /\ pc'[m][h] = pc[m][h]
    BY <2>1, <2>2 DEF TypeOK
  <2>9. \A m \in Nodes : current'[m] # c /\ current'[m] \in {current[m], NoConn}
    BY <2>1, ConnAssumption
  <2>10. ASSUME NEW m \in Nodes, NEW h \in Dialers, pc'[m][h] = "dialed"
         PROVE  /\ dialed'[m][h] \in Conns /\ Fresh(mgr'[dialed'[m][h]]["client"])
                /\ \A k \in Nodes : current'[k] # dialed'[m][h]
                /\ \A k \in Nodes : \A i \in Dialers :
                     dialed'[k][i] = dialed'[m][h] => k = m /\ i = h
    <3>1. CASE m = n /\ h = g
      BY <1>0, <2>3, <2>4, <2>7, <2>8, <2>9, <3>1
    <3>2. CASE m # n \/ h # g
      <4>1. dialed'[m][h] = dialed[m][h] /\ pc[m][h] = "dialed" /\ dialed[m][h] # c
        BY <2>7, <2>8, <2>10, <3>2
      <4>2. dialed[m][h] \in Conns \ {c} /\ Fresh(mgr[dialed[m][h]]["client"])
        BY <4>1 DEF CloseInv, Unstarted
      <4>3. \A k \in Nodes : current'[k] # dialed[m][h]
        BY <2>9, <4>1, <4>2, ConnAssumption DEF CloseInv, Unstarted
      <4>4. \A k \in Nodes : \A i \in Dialers :
              dialed'[k][i] = dialed[m][h] => k = m /\ i = h
        BY <2>8, <4>1, <4>2 DEF CloseInv, Unstarted
      <4> QED
        BY <2>4, <4>1, <4>2, <4>3, <4>4
    <3> QED
      BY <3>1, <3>2
  <2> QED
    BY <2>5, <2>6, <2>10 DEF CloseInv, Unstarted
<1>3. ASSUME NEW g \in Dialers, DialCancelled(n, g)  PROVE CloseInv'
  <2>1. UNCHANGED <<serve, mgr, current, dialed>> /\ pc' = [pc EXCEPT ![n][g] = "top"]
    BY <1>3 DEF DialCancelled
  <2> QED
    BY <1>1, <2>1 DEF TypeOK
<1>4. ASSUME NEW g \in Dialers, StartClientConn(n, g)  PROVE CloseInv'
  <2> DEFINE c == dialed[n][g]
  <2>1. /\ pc[n][g] = "dialed" /\ UNCHANGED serve
        /\ current' = [current EXCEPT ![n] = c]
        /\ mgr' = [mgr EXCEPT ![c]["client"] = Start(@)]
        /\ dialed' = [dialed EXCEPT ![n][g] = NoConn]
    BY <1>4 DEF StartClientConn
  <2>2. /\ c \in Conns /\ Fresh(mgr[c]["client"]) /\ mgr[c]["client"] \in Manager_Type
        /\ \A m \in Nodes : \A h \in Dialers : dialed[m][h] = c => m = n /\ h = g
    BY <1>0, <2>1 DEF CloseInv, Unstarted, TypeOK
  <2>3. \A m \in Nodes : \A h \in Dialers :
          pc'[m][h] = "dialed" => pc[m][h] = "dialed" /\ (m # n \/ h # g)
    <3>1. CASE pc' = [pc EXCEPT ![n][g] = "top"]
      BY <3>1 DEF TypeOK
    <3>2. ASSUME NEW l \in Loops, g = "hub",
                 pc' = [pc EXCEPT ![n]["hub"] = "up", ![n][l] = "top"]
          PROVE  \A m \in Nodes : \A h \in Dialers :
                   pc'[m][h] = "dialed" => pc[m][h] = "dialed" /\ (m # n \/ h # g)
      BY <1>0, <3>2 DEF TypeOK
    <3> QED
      BY <1>4, <3>1, <3>2 DEF StartClientConn
  <2> HIDE DEF c
  <2>4. Closing(Start(mgr[c]["client"]))
    BY <2>2 DEF Closing, Fresh, Start, Manager_Type, Callers
  <2>5. /\ mgr'[c]["client"] = Start(mgr[c]["client"])
        /\ \A d \in Conns : mgr'[d]["server"] = mgr[d]["server"]
        /\ \A d \in Conns \ {c} : mgr'[d]["client"] = mgr[d]["client"]
    BY <1>0, <2>1, <2>2 DEF TypeOK
  <2>6. \A d \in Conns : \A e \in Ends : Closing(mgr'[d][e])
    BY <2>4, <2>5 DEF CloseInv, Ends
  <2>7. \A m \in Nodes : \A h \in Dialers :
          dialed'[m][h] = IF m = n /\ h = g THEN NoConn ELSE dialed[m][h]
    BY <2>1 DEF TypeOK
  <2>8. \A m \in Nodes : current'[m] \in {current[m], c}
    BY <2>1 DEF TypeOK
  <2>9. ASSUME NEW m \in Nodes, NEW h \in Dialers, pc'[m][h] = "dialed"
        PROVE  /\ dialed'[m][h] \in Conns /\ Fresh(mgr'[dialed'[m][h]]["client"])
               /\ \A k \in Nodes : current'[k] # dialed'[m][h]
               /\ \A k \in Nodes : \A i \in Dialers :
                    dialed'[k][i] = dialed'[m][h] => k = m /\ i = h
    <3>1. pc[m][h] = "dialed" /\ dialed'[m][h] = dialed[m][h] /\ dialed[m][h] # c
      BY <2>2, <2>3, <2>7, <2>9
    <3>2. /\ dialed[m][h] \in Conns \ {c} /\ Fresh(mgr[dialed[m][h]]["client"])
          /\ \A k \in Nodes : current[k] # dialed[m][h]
          /\ \A k \in Nodes : \A i \in Dialers :
               dialed[k][i] = dialed[m][h] => k = m /\ i = h
      BY <3>1 DEF CloseInv, Unstarted
    <3>3. Fresh(mgr'[dialed[m][h]]["client"])
      BY <2>5, <3>2
    <3>4. \A k \in Nodes : current'[k] # dialed[m][h]
      BY <2>8, <3>1, <3>2
    <3>5. \A k \in Nodes : \A i \in Dialers :
            dialed'[k][i] = dialed[m][h] => k = m /\ i = h
      BY <2>7, <3>2, ConnAssumption
    <3> QED
      BY <3>1, <3>2, <3>3, <3>4, <3>5
  <2>10. \A d \in Conns : serve'[d] \in {"upgraded", "stored"} => Fresh(mgr'[d]["server"])
    BY <2>1, <2>5 DEF CloseInv, Unstarted
  <2> QED
    BY <2>6, <2>9, <2>10 DEF CloseInv, Unstarted
<1>5. ASSUME NEW g \in Dialers, Reconnect(n, g)  PROVE CloseInv'
  <2>1. /\ UNCHANGED <<serve, mgr, current, dialed>>
        /\ \E l \in {"none", "top", "sleep", "dial"} : pc' = [pc EXCEPT ![n][g] = l]
    BY <1>5 DEF Reconnect
  <2> QED
    BY <1>1, <2>1 DEF TypeOK
<1>6. CASE HubStops(n)
  <2>1. /\ pc' = [pc EXCEPT ![n]["hub"] = "stopping"]
        /\ dialed' = [dialed EXCEPT ![n]["hub"] = current[n]]
        /\ UNCHANGED <<serve, current>>
        /\ mgr' = IF current[n] = NoConn THEN mgr
                  ELSE [mgr EXCEPT ![current[n]]["client"].proxy = "stop"]
    BY <1>6 DEF HubStops
  <2>2. \A d \in Conns : /\ mgr'[d]["server"] = mgr[d]["server"]
                         /\ d # current[n] => mgr'[d]["client"] = mgr[d]["client"]
                         /\ Closing(mgr'[d]["client"])
    <3>1. CASE current[n] = NoConn
      BY <1>0, <2>1, <3>1 DEF CloseInv
    <3>2. CASE current[n] # NoConn
      <4> DEFINE c == current[n]
                 m == [mgr[c]["client"] EXCEPT !.proxy = "stop"]
      <4>1. c \in Conns /\ mgr[c]["client"] \in Manager_Type /\ Closing(mgr[c]["client"])
        BY <1>0, <3>2 DEF TypeOK, CloseInv
      <4>2. Closing(m)
        BY <4>1 DEF Closing, Manager_Type, Callers
      <4>3. mgr' = [mgr EXCEPT ![c]["client"] = m]
        BY <2>1, <3>2
      <4> HIDE DEF m
      <4> QED
        BY <1>0, <4>1, <4>2, <4>3 DEF TypeOK, CloseInv
    <3> QED
      BY <3>1, <3>2
  <2>3. \A d \in Conns : \A e \in Ends : Closing(mgr'[d][e])
    BY <1>0, <2>2 DEF CloseInv, Ends
  <2>4. \A m \in Nodes : \A h \in Dialers :
          /\ dialed'[m][h] \in {dialed[m][h], current[n]}
          /\ pc'[m][h] = "dialed" => pc[m][h] = "dialed" /\ dialed'[m][h] = dialed[m][h]
    BY <1>0, <2>1 DEF TypeOK
  <2>5. Unstarted'
    BY <2>1, <2>2, <2>4 DEF CloseInv, Unstarted
  <2> QED
    BY <2>3, <2>5 DEF CloseInv
<1>7. CASE HubStarts(n)
  <2>1. /\ UNCHANGED <<serve, mgr, current>>
        /\ pc' = [pc EXCEPT ![n]["hub"] = "dial"]
        /\ dialed' = [dialed EXCEPT ![n]["hub"] = NoConn]
    BY <1>7 DEF HubStarts
  <2> QED
    BY <1>0, <1>1, <2>1 DEF TypeOK
<1> QED
  BY <1>2, <1>3, <1>4, <1>5, <1>6, <1>7 DEF Client

\* CloseInv holds at the start.
LEMMA CloseInvInitial == Init => CloseInv
<1> SUFFICES ASSUME Init  PROVE CloseInv
  OBVIOUS
<1>1. \A c \in Conns : \A e \in Ends : Closing(mgr[c][e])
  <2> DEFINE m == [NewMgr EXCEPT !.open = FALSE]
  <2>1. Closing(m)
    BY DEF Closing, NewMgr, Callers
  <2> HIDE DEF m
  <2> QED
    BY <2>1 DEF Init, m
<1>2. Unstarted
  BY DEF Init, Unstarted
<1> QED
  BY <1>1, <1>2 DEF CloseInv

\* Every step keeps it.
LEMMA CloseInvPreserved == Inv /\ CloseInv /\ [Next]_vars => CloseInv'
<1> SUFFICES ASSUME Inv, CloseInv, [Next]_vars  PROVE CloseInv'
  OBVIOUS
<1>0. TypeOK
  BY DEF Inv
<1>1. CASE UNCHANGED vars
  BY <1>1 DEF vars, CloseInv, Closing, Unstarted, Fresh
<1>2. ASSUME NEW c \in Conns, Serve(c)  PROVE CloseInv'
  BY <1>0, <1>2, ServeKeepsCloseInv
<1>3. ASSUME NEW c \in Conns, LinkFails(c) \/ LinkHeals(c) \/ LinkBreaks(c)
      PROVE  CloseInv'
  BY <1>3 DEF LinkFails, LinkHeals, LinkBreaks, CloseInv, Closing, Unstarted, Fresh
<1>4. ASSUME NEW c \in Conns, NEW e \in Ends, Manager(c, e) \/ Message(c, e)
      PROVE  CloseInv'
  BY <1>0, <1>4, ManagerKeepsCloseInv
<1>5. ASSUME NEW n \in Nodes, Client(n) \/ HubStops(n)  PROVE CloseInv'
  BY <1>0, <1>5, ClientKeepsCloseInv
<1> QED
  BY <1>1, <1>2, <1>3, <1>4, <1>5 DEF Next

\* stop() closes a connection only when neither its receive goroutine is in a
\* read nor its heartbeat will send: whoever calls it, at either end, even if
\* the goroutines are started after stop() looked for them.
THEOREM NoReadAfterCloseHolds == Spec => []NoReadAfterClose
<1>1. CloseInv => NoReadAfterClose
  BY DEF CloseInv, Closing, NoReadAfterClose
<1> QED
  BY <1>1, InvInitial, InvPreserved, CloseInvInitial, CloseInvPreserved, PTL DEF Spec
-----------------------------------------------------------------------------
(* Names in the bandwidth limiter, and the connection the client sends on. *)

\* A manager raises its flag and opens its connection in its start only; it
\* closes in one step with the flag, and its receive goroutine ends with the
\* name taken out of the limiter.
LEMMA ManagerEffects ==
  ASSUME TypeOK, NEW c \in Conns, NEW e \in Ends, Manager(c, e) \/ Message(c, e)
  PROVE  /\ \A d \in Conns, f \in Ends :
              mgr'[d][f].flag => mgr[d][f].flag /\ mgr'[d][f].open = mgr[d][f].open
         /\ \A d \in Conns :
              mgr[d]["server"].recv # "none" /\ mgr'[d]["server"].recv = "none"
                => owner[d] \notin registered'
         /\ registered' \subseteq registered
<1>0. /\ "server" \in Ends /\ "client" \in Ends
      /\ \A d \in Conns, f \in Ends : mgr[d][f] \in Manager_Type
  BY DEF TypeOK, Ends
<1>1. ASSUME NEW m, mgr' = [mgr EXCEPT ![c][e] = m],
             m.flag => mgr[c][e].flag /\ m.open = mgr[c][e].open,
             m.recv = "none" =>
               mgr[c][e].recv = "none" \/ e = "client" \/ owner[c] \notin registered',
             registered' \subseteq registered
      PROVE  /\ \A d \in Conns, f \in Ends :
                  mgr'[d][f].flag => mgr[d][f].flag /\ mgr'[d][f].open = mgr[d][f].open
             /\ \A d \in Conns :
                  mgr[d]["server"].recv # "none" /\ mgr'[d]["server"].recv = "none"
                    => owner[d] \notin registered'
  <2>1. \A d \in Conns, f \in Ends :
          \/ d = c /\ f = e /\ mgr'[d][f] = m
          \/ mgr'[d][f] = mgr[d][f]
    BY <1>1 DEF TypeOK
  <2> QED
    BY <1>0, <1>1, <2>1 DEF Ends
<1>2. CASE Receive(c, e) \/ Message(c, e)
  <2>1. PICK l \in {"top", "post", "read", "stop"} :
          mgr' = [mgr EXCEPT ![c][e].recv = l]
    BY <1>2 DEF Receive, Message
  <2> DEFINE m == [mgr[c][e] EXCEPT !.recv = l]
  <2>2. mgr' = [mgr EXCEPT ![c][e] = m] /\ registered' = registered
    BY <1>2, <2>1 DEF Receive, Message
  <2>3. m.flag = mgr[c][e].flag /\ m.open = mgr[c][e].open /\ m.recv # "none"
    BY <1>0 DEF Manager_Type
  <2> HIDE DEF m
  <2> QED
    BY <1>1, <2>2, <2>3
<1>3. CASE PostProcess(c, e)
  <2>1. PICK l \in {"unreg", "none"} :
          /\ mgr' = [mgr EXCEPT ![c][e].recv = l]
          /\ registered' \in {registered, registered \ {owner[c]}}
          /\ l = "none" => e = "client" \/ registered' = registered \ {owner[c]}
    BY <1>3 DEF PostProcess, Ends
  <2> DEFINE m == [mgr[c][e] EXCEPT !.recv = l]
  <2>2. mgr' = [mgr EXCEPT ![c][e] = m]
    BY <2>1
  <2>3. m.flag = mgr[c][e].flag /\ m.open = mgr[c][e].open /\ m.recv = l
    BY <1>0 DEF Manager_Type
  <2> HIDE DEF m
  <2> QED
    BY <1>1, <2>1, <2>2, <2>3
<1>4. CASE Heartbeat(c, e)
  <2>1. PICK l : mgr' = [mgr EXCEPT ![c][e].beat = l]
    BY <1>4 DEF Heartbeat
  <2> DEFINE m == [mgr[c][e] EXCEPT !.beat = l]
  <2>2. mgr' = [mgr EXCEPT ![c][e] = m] /\ registered' = registered
    BY <1>4, <2>1 DEF Heartbeat
  <2>3. m.flag = mgr[c][e].flag /\ m.open = mgr[c][e].open
        /\ m.recv = mgr[c][e].recv
    BY <1>0 DEF Manager_Type
  <2> HIDE DEF m
  <2> QED
    BY <1>1, <2>2, <2>3
<1>5. ASSUME NEW g \in Callers, Stop(c, e, g) \/ WaitAndClose(c, e, g)
      PROVE  \E m : /\ mgr' = [mgr EXCEPT ![c][e] = m]
                    /\ m.flag => mgr[c][e].flag /\ m.open = mgr[c][e].open
                    /\ m.recv = "none" => mgr[c][e].recv = "none"
                    /\ registered' = registered
  <2>1. CASE mgr' = [mgr EXCEPT ![c][e][g] = Returned(g)] /\ registered' = registered
    <3> DEFINE m == [mgr[c][e] EXCEPT ![g] = Returned(g)]
    <3>1. mgr' = [mgr EXCEPT ![c][e] = m]
      BY <2>1
    <3>2. m.flag = mgr[c][e].flag /\ m.open = mgr[c][e].open
          /\ (m.recv = "none" => mgr[c][e].recv = "none")
      BY <1>0 DEF Manager_Type, Callers, Returned
    <3> QED
      BY <2>1, <3>1, <3>2
  <2>2. CASE /\ mgr' = [mgr EXCEPT ![c][e][g] = "wait", ![c][e].cancelled = TRUE]
             /\ registered' = registered
    <3> DEFINE m == [mgr[c][e] EXCEPT ![g] = "wait", !.cancelled = TRUE]
    <3>1. mgr' = [mgr EXCEPT ![c][e] = m]
      BY <2>2
    <3>2. m.flag = mgr[c][e].flag /\ m.open = mgr[c][e].open
          /\ (m.recv = "none" => mgr[c][e].recv = "none")
      BY <1>0 DEF Manager_Type, Callers
    <3> QED
      BY <2>2, <3>1, <3>2
  <2>3. CASE /\ mgr' = [mgr EXCEPT ![c][e][g] = Returned(g),
                                   ![c][e].open = FALSE, ![c][e].flag = FALSE]
             /\ registered' = registered
    <3> DEFINE m == [mgr[c][e] EXCEPT ![g] = Returned(g), !.open = FALSE,
                                      !.flag = FALSE]
    <3>1. mgr' = [mgr EXCEPT ![c][e] = m]
      BY <2>3
    <3>2. ~m.flag /\ (m.recv = "none" => mgr[c][e].recv = "none")
      BY <1>0 DEF Manager_Type, Callers, Returned
    <3> QED
      BY <2>3, <3>1, <3>2
  <2> QED
    BY <1>5, <2>1, <2>2, <2>3 DEF Stop, WaitAndClose
<1>6. registered' \subseteq registered
  BY DEF Manager, Receive, Message, PostProcess, Heartbeat, Stop, WaitAndClose
<1> QED
  BY <1>1, <1>2, <1>3, <1>4, <1>5, <1>6 DEF Manager

\* What a new connection and the starts of its ends do to the managers.
LEMMA DialEffects ==
  ASSUME TypeOK, NEW n \in Nodes, NEW g \in Dialers, Dial(n, g)
  PROVE  \E c \in Conns :
           /\ Over(c)
           /\ \A f \in Ends : mgr'[c][f] = NewMgr
           /\ \A d \in Conns \ {c} : mgr'[d] = mgr[d] /\ owner'[d] = owner[d]
           /\ owner'[c] = n
           /\ \A m \in Nodes :
                current'[m] = IF current[m] = c THEN NoConn ELSE current[m]
           /\ \A m \in Nodes, h \in Dialers :
                /\ dialed'[m][h] = IF m = n /\ h = g THEN c ELSE dialed[m][h]
                /\ pc'[m][h] = IF m = n /\ h = g THEN "dialed" ELSE pc[m][h]
           /\ UNCHANGED <<registered, proxyUp, restarts>>
<1>1. PICK c \in Conns :
        /\ Over(c)
        /\ owner' = [owner EXCEPT ![c] = n]
        /\ mgr' = [mgr EXCEPT ![c] = [e \in Ends |-> NewMgr]]
        /\ dialed' = [dialed EXCEPT ![n][g] = c]
        /\ current' = [m \in Nodes |-> IF current[m] = c THEN NoConn ELSE current[m]]
        /\ pc' = [pc EXCEPT ![n][g] = "dialed"]
        /\ UNCHANGED <<registered, proxyUp, restarts>>
  BY DEF Dial, counters
<1>2. /\ \A f \in Ends : mgr'[c][f] = NewMgr
      /\ \A d \in Conns \ {c} : mgr'[d] = mgr[d]
  BY <1>1 DEF TypeOK
<1>3. /\ \A d \in Conns \ {c} : owner'[d] = owner[d]
      /\ owner'[c] = n
  BY <1>1 DEF TypeOK
<1>4. \A m \in Nodes, h \in Dialers :
        dialed'[m][h] = IF m = n /\ h = g THEN c ELSE dialed[m][h]
  BY <1>1 DEF TypeOK
<1>5. \A m \in Nodes, h \in Dialers :
        pc'[m][h] = IF m = n /\ h = g THEN "dialed" ELSE pc[m][h]
  BY <1>1 DEF TypeOK
<1>6. \A m \in Nodes :
        current'[m] = IF current[m] = c THEN NoConn ELSE current[m]
  BY <1>1
<1> QED
  BY <1>1, <1>2, <1>3, <1>4, <1>5, <1>6

LEMMA StartEffects ==
  ASSUME TypeOK, CloseInv, NEW n \in Nodes, NEW g \in Dialers,
         StartClientConn(n, g)
  PROVE  LET c == dialed[n][g] IN
         /\ c \in Conns /\ mgr[c]["client"].open
         /\ mgr'[c]["client"] = Start(mgr[c]["client"])
         /\ \A d \in Conns : mgr'[d]["server"] = mgr[d]["server"]
         /\ \A d \in Conns \ {c} : mgr'[d]["client"] = mgr[d]["client"]
         /\ \A m \in Nodes : current'[m] = IF m = n THEN c ELSE current[m]
         /\ \A m \in Nodes, h \in Dialers :
              dialed'[m][h] = IF m = n /\ h = g THEN NoConn ELSE dialed[m][h]
         /\ UNCHANGED <<owner, registered, proxyUp, restarts>>
<1> DEFINE c == dialed[n][g]
<1>1. /\ pc[n][g] = "dialed"
      /\ current' = [current EXCEPT ![n] = c]
      /\ mgr' = [mgr EXCEPT ![c]["client"] = Start(@)]
      /\ dialed' = [dialed EXCEPT ![n][g] = NoConn]
      /\ UNCHANGED <<owner, registered, proxyUp, restarts>>
  BY DEF StartClientConn
<1>2. c \in Conns /\ mgr[c]["client"].open
  BY <1>1 DEF CloseInv, Unstarted, Fresh
<1> HIDE DEF c
<1>3. /\ mgr'[c]["client"] = Start(mgr[c]["client"])
      /\ \A d \in Conns : mgr'[d]["server"] = mgr[d]["server"]
      /\ \A d \in Conns \ {c} : mgr'[d]["client"] = mgr[d]["client"]
  BY <1>1, <1>2 DEF TypeOK, Ends
<1>4. /\ \A m \in Nodes : current'[m] = IF m = n THEN c ELSE current[m]
      /\ \A m \in Nodes, h \in Dialers :
           dialed'[m][h] = IF m = n /\ h = g THEN NoConn ELSE dialed[m][h]
  BY <1>1 DEF TypeOK
<1> QED
  BY <1>1, <1>2, <1>3, <1>4 DEF c

\* The hub's Stop() leaves the flags and the receive goroutines alone.
LEMMA HubEffects ==
  ASSUME TypeOK, NEW n \in Nodes, HubStops(n)
  PROVE  /\ \A d \in Conns : mgr'[d]["server"] = mgr[d]["server"]
         /\ restarts' = restarts + 1 /\ UNCHANGED <<owner, registered>>
<1>1. current[n] # NoConn => current[n] \in Conns
  BY DEF TypeOK
<1> QED
  BY <1>1 DEF HubStops, TypeOK, Ends

\* The handler of the center touches the server's end only.
LEMMA ServeEffects ==
  ASSUME TypeOK, NEW c \in Conns, Serve(c)
  PROVE  /\ \A d \in Conns : mgr'[d]["client"] = mgr[d]["client"]
         /\ \A d \in Conns : mgr[d]["server"].recv # "none"
              => mgr'[d]["server"].recv # "none"
         /\ \/ registered' = registered
            \/ /\ registered' = registered \cup {owner[c]}
               /\ mgr'[c]["server"].recv # "none"
         /\ UNCHANGED <<owner, clientVars, counters>>
<1>0. /\ "server" \in Ends /\ "client" \in Ends
      /\ mgr \in [Conns -> [Ends -> Manager_Type]]
  BY DEF TypeOK, Ends
<1>1. CASE UNCHANGED <<mgr, registered>>
  BY <1>1 DEF Serve, ServeHTTP, StartServerConn, Disconnected, ConnDone
<1>2. CASE ServeHTTP(c) /\ mgr' = [mgr EXCEPT ![c]["server"].open = FALSE]
  <2>1. /\ mgr'[c]["server"] = [mgr[c]["server"] EXCEPT !.open = FALSE]
        /\ mgr'[c]["client"] = mgr[c]["client"]
        /\ \A d \in Conns \ {c} : mgr'[d] = mgr[d]
    BY <1>0, <1>2
  <2>2. mgr'[c]["server"].recv = mgr[c]["server"].recv
    BY <1>0, <2>1 DEF Manager_Type
  <2> QED
    BY <1>2, <2>1, <2>2 DEF ServeHTTP
<1>3. CASE StartServerConn(c)
  <2>1. /\ mgr'[c]["server"] = Start(mgr[c]["server"])
        /\ mgr'[c]["client"] = mgr[c]["client"]
        /\ \A d \in Conns \ {c} : mgr'[d] = mgr[d]
    BY <1>0, <1>3 DEF StartServerConn
  <2>2. mgr'[c]["server"].recv = "launched"
    BY <1>0, <2>1 DEF Manager_Type, Start
  <2> QED
    BY <1>3, <2>1, <2>2 DEF StartServerConn
<1> QED
  BY <1>1, <1>2, <1>3 DEF Serve, ServeHTTP, Disconnected, ConnDone

LEMMA RegistrationStep ==
  ASSUME TypeOK, CloseInv, RegistrationNotLeaked, [Next]_vars
  PROVE  RegistrationNotLeaked'
\* Steps that take no name and end no receive goroutine.
<1>1. ASSUME registered' \subseteq registered, owner' = owner,
             \A d \in Conns : mgr[d]["server"].recv # "none" =>
               mgr'[d]["server"].recv # "none" \/ owner[d] \notin registered'
      PROVE  RegistrationNotLeaked'
  BY <1>1 DEF RegistrationNotLeaked
<1>2. CASE UNCHANGED vars
  BY <1>1, <1>2 DEF vars
<1>3. ASSUME NEW c \in Conns, Serve(c)
      PROVE  RegistrationNotLeaked'
  BY <1>3, ServeEffects DEF RegistrationNotLeaked
<1>4. ASSUME NEW c \in Conns, LinkFails(c) \/ LinkHeals(c) \/ LinkBreaks(c)
      PROVE  RegistrationNotLeaked'
  BY <1>1, <1>4 DEF LinkFails, LinkHeals, LinkBreaks
<1>5. ASSUME NEW c \in Conns, NEW e \in Ends, Manager(c, e) \/ Message(c, e)
      PROVE  RegistrationNotLeaked'
  BY <1>1, <1>5, ManagerEffects, ManagerTypes
<1>6. ASSUME NEW n \in Nodes, NEW g \in Dialers, Dial(n, g)
      PROVE  RegistrationNotLeaked'
  <2>1. PICK c \in Conns :
          /\ Over(c)
          /\ \A d \in Conns \ {c} : mgr'[d] = mgr[d] /\ owner'[d] = owner[d]
          /\ registered' = registered
    BY <1>6, DialEffects
  <2>2. mgr[c]["server"].recv = "none"
    BY <2>1 DEF Over, Ends
  <2> QED
    BY <2>1, <2>2 DEF RegistrationNotLeaked
<1>7. ASSUME NEW n \in Nodes, NEW g \in Dialers, StartClientConn(n, g)
      PROVE  RegistrationNotLeaked'
  BY <1>1, <1>7, StartEffects
<1>8. ASSUME NEW n \in Nodes, NEW g \in Dialers,
             DialCancelled(n, g) \/ Reconnect(n, g) \/ HubStarts(n)
      PROVE  RegistrationNotLeaked'
  BY <1>1, <1>8 DEF DialCancelled, Reconnect, HubStarts
<1>9. ASSUME NEW n \in Nodes, HubStops(n)
      PROVE  RegistrationNotLeaked'
  BY <1>1, <1>9, HubEffects
<1>10. "hub" \in Dialers
  BY DEF Dialers
<1> QED
  BY <1>2, <1>3, <1>4, <1>5, <1>6, <1>7, <1>8, <1>9, <1>10 DEF Next, Client

\* No order of stops, failures and refusals leaves a name behind in the
\* bandwidth limiter, for any nodes and connections.
THEOREM RegistrationNotLeakedHolds == Spec => []RegistrationNotLeaked
<1>1. Init => RegistrationNotLeaked
  BY DEF Init, RegistrationNotLeaked
<1>2. TypeOK /\ CloseInv /\ RegistrationNotLeaked /\ [Next]_vars
        => RegistrationNotLeaked'
  BY RegistrationStep
<1>3. Inv => TypeOK
  BY DEF Inv
<1> QED
  BY <1>1, <1>2, <1>3, InvInitial, InvPreserved, CloseInvInitial,
     CloseInvPreserved, PTL DEF Spec

\* As long as no hub has restarted its proxy, one goroutine of a node makes
\* connections: the hub, and then the loop it left behind.
Connecting(n, g) == IF g = "hub" THEN pc[n][g] # "up" ELSE pc[n][g] # "none"
SoleDialer(n) ==
  /\ proxyUp[n]
  /\ pc[n]["hub"] \in {"dial", "dialed", "up"}
  /\ \A g \in Dialers, h \in Dialers :
       Connecting(n, g) /\ Connecting(n, h) => g = h

\* It dials when the manager of the proxy has stopped, and what it has dialed
\* is a connection of its node.
Dialing(n, g) == pc[n][g] \in {"dial", "dialed"}
DialsAlone(n) ==
  \A g \in Dialers :
    /\ Dialing(n, g) => current[n] = NoConn \/ ~mgr[current[n]]["client"].flag
    /\ pc[n][g] = "dialed" => owner[dialed[n][g]] = n

\* So a manager that runs is the one of its proxy.
RunsAsCurrent(c) ==
  mgr[c]["client"].flag =>
    /\ mgr[c]["client"].open
    /\ owner[c] \in Nodes /\ current[owner[c]] = c

SenderInv ==
  restarts = 0 => /\ \A n \in Nodes : SoleDialer(n) /\ DialsAlone(n)
                  /\ \A c \in Conns : RunsAsCurrent(c)

LEMMA SenderInitial == Init => SenderInv
<1> SUFFICES ASSUME Init PROVE SenderInv
  OBVIOUS
<1>1. ASSUME NEW n \in Nodes
      PROVE  SoleDialer(n) /\ DialsAlone(n)
  BY <1>1 DEF Init, SoleDialer, DialsAlone, Connecting, Dialers, Loops
<1>2. ASSUME NEW c \in Conns
      PROVE  ~mgr[c]["client"].flag
  BY <1>2 DEF Init, NewMgr, Ends
<1> QED
  BY <1>1, <1>2 DEF SenderInv, RunsAsCurrent

\* A manager that stops, or does not move, disturbs nothing.
LEMMA SenderFrame ==
  ASSUME TypeOK, SenderInv, UNCHANGED <<owner, clientVars, restarts>>,
         \A d \in Conns : mgr'[d]["client"].flag =>
           mgr[d]["client"].flag /\ mgr'[d]["client"].open = mgr[d]["client"].open
  PROVE  SenderInv'
<1>1. ASSUME NEW n \in Nodes, SoleDialer(n), DialsAlone(n)
      PROVE  SoleDialer(n)' /\ DialsAlone(n)'
  <2>1. current[n] # NoConn => current[n] \in Conns
    BY DEF TypeOK
  <2> QED
    BY <1>1, <2>1 DEF SoleDialer, DialsAlone, Connecting, Dialing
<1>2. ASSUME NEW c \in Conns, RunsAsCurrent(c)
      PROVE  RunsAsCurrent(c)'
  BY <1>2 DEF RunsAsCurrent
<1> QED
  BY <1>1, <1>2 DEF SenderInv

LEMMA DialKeepsSender ==
  ASSUME TypeOK, CloseInv, SenderInv, NEW n \in Nodes, NEW g \in Dialers,
         Dial(n, g)
  PROVE  SenderInv'
<1>1. PICK c \in Conns :
        /\ Over(c)
        /\ \A f \in Ends : mgr'[c][f] = NewMgr
        /\ \A d \in Conns \ {c} : mgr'[d] = mgr[d] /\ owner'[d] = owner[d]
        /\ owner'[c] = n
        /\ \A m \in Nodes :
             current'[m] = IF current[m] = c THEN NoConn ELSE current[m]
        /\ \A m \in Nodes, h \in Dialers :
             /\ dialed'[m][h] = IF m = n /\ h = g THEN c ELSE dialed[m][h]
             /\ pc'[m][h] = IF m = n /\ h = g THEN "dialed" ELSE pc[m][h]
        /\ UNCHANGED <<registered, proxyUp, restarts>>
  BY DialEffects
<1>2. pc[n][g] = "dial" /\ "hub" \in Dialers
  BY DEF Dial, Dialers
<1>3. ~mgr'[c]["client"].flag
  BY <1>1 DEF Ends, NewMgr
<1>4. ASSUME NEW m \in Nodes, SoleDialer(m)
      PROVE  SoleDialer(m)'
  <2>1. \A h \in Dialers : Connecting(m, h)' = Connecting(m, h)
    BY <1>1, <1>2 DEF Connecting
  <2> QED
    BY <1>1, <1>2, <1>4, <2>1 DEF SoleDialer
<1>5. ASSUME NEW m \in Nodes, DialsAlone(m)
      PROVE  DialsAlone(m)'
  <2>1. \/ current'[m] = NoConn
        \/ current'[m] = current[m] /\ mgr'[current[m]] = mgr[current[m]]
    <3>1. current[m] # NoConn => current[m] \in Conns
      BY DEF TypeOK
    <3> QED
      BY <1>1, <3>1
  <2>2. ASSUME NEW h \in Dialers, Dialing(m, h)'
        PROVE  current'[m] = NoConn \/ ~mgr'[current'[m]]["client"].flag
    <3>1. Dialing(m, h)
      BY <1>1, <1>2, <2>2 DEF Dialing
    <3> QED
      BY <1>5, <2>1, <3>1 DEF DialsAlone
  <2>3. ASSUME NEW h \in Dialers, pc'[m][h] = "dialed"
        PROVE  owner'[dialed'[m][h]] = m
    <3>1. CASE m = n /\ h = g
      BY <1>1, <3>1
    <3>2. CASE ~(m = n /\ h = g)
      <4>1. dialed'[m][h] = dialed[m][h] /\ pc[m][h] = "dialed"
        BY <1>1, <2>3, <3>2
      <4>2. dialed[m][h] # c
        BY <1>1 DEF Over
      <4>3. dialed[m][h] \in Conns /\ owner[dialed[m][h]] = m
        BY <1>5, <4>1 DEF DialsAlone, CloseInv, Unstarted
      <4> QED
        BY <1>1, <4>1, <4>2, <4>3
    <3> QED
      BY <3>1, <3>2
  <2> QED
    BY <2>2, <2>3 DEF DialsAlone
<1>6. ASSUME NEW d \in Conns, RunsAsCurrent(d)
      PROVE  RunsAsCurrent(d)'
  <2>1. CASE d = c
    BY <1>3, <2>1 DEF RunsAsCurrent
  <2>2. CASE d # c
    BY <1>1, <1>6, <2>2 DEF RunsAsCurrent
  <2> QED
    BY <2>1, <2>2
<1> QED
  BY <1>1, <1>4, <1>5, <1>6 DEF SenderInv

LEMMA StartKeepsSender ==
  ASSUME TypeOK, CloseInv, SenderInv, NEW n \in Nodes, NEW g \in Dialers,
         StartClientConn(n, g)
  PROVE  SenderInv'
<1> DEFINE c == dialed[n][g]
<1>1. /\ c \in Conns /\ mgr[c]["client"].open
      /\ mgr'[c]["client"] = Start(mgr[c]["client"])
      /\ \A d \in Conns \ {c} : mgr'[d]["client"] = mgr[d]["client"]
      /\ \A m \in Nodes : current'[m] = IF m = n THEN c ELSE current[m]
      /\ \A m \in Nodes, h \in Dialers :
           dialed'[m][h] = IF m = n /\ h = g THEN NoConn ELSE dialed[m][h]
      /\ UNCHANGED <<owner, registered, proxyUp, restarts>>
  BY StartEffects
<1>2. pc[n][g] = "dialed"
  BY DEF StartClientConn
<1> HIDE DEF c
<1> SUFFICES ASSUME restarts = 0
             PROVE  /\ \A m \in Nodes : SoleDialer(m)' /\ DialsAlone(m)'
                    /\ \A d \in Conns : RunsAsCurrent(d)'
  BY <1>1 DEF SenderInv
<1>3. /\ \A m \in Nodes : SoleDialer(m) /\ DialsAlone(m)
      /\ \A d \in Conns : RunsAsCurrent(d)
  BY DEF SenderInv
<1>4. owner[c] = n /\ (current[n] = NoConn \/ ~mgr[current[n]]["client"].flag)
  BY <1>2, <1>3 DEF DialsAlone, Dialing, c
<1>5. mgr'[c]["client"].open
  BY <1>1 DEF TypeOK, Manager_Type, Ends, Start
<1>6. Connecting(n, g) /\ (\A h \in Dialers : h # g => ~Connecting(n, h))
  BY <1>2, <1>3 DEF SoleDialer, Connecting
<1>7. \A m \in Nodes \ {n}, h \in Dialers : pc'[m][h] = pc[m][h]
  BY DEF StartClientConn, TypeOK
<1>8. /\ \A h \in Dialers : ~Dialing(n, h)'
      /\ pc'[n]["hub"] = "up"
      /\ \A h \in Dialers, k \in Dialers :
           Connecting(n, h)' /\ Connecting(n, k)' => h = k
  <2>1. CASE g # "hub" /\ pc' = [pc EXCEPT ![n][g] = "top"]
    <3>1. \A h \in Dialers : pc'[n][h] = IF h = g THEN "top" ELSE pc[n][h]
      BY <2>1 DEF TypeOK
    <3> QED
      BY <1>6, <2>1, <3>1 DEF Connecting, Dialing, Dialers
  <2>2. ASSUME g = "hub", NEW l \in Loops,
               pc' = [pc EXCEPT ![n]["hub"] = "up", ![n][l] = "top"]
        PROVE  /\ \A h \in Dialers : ~Dialing(n, h)'
               /\ pc'[n]["hub"] = "up"
               /\ \A h \in Dialers, k \in Dialers :
                    Connecting(n, h)' /\ Connecting(n, k)' => h = k
    <3>1. l # "hub"
      BY DEF Loops
    <3>2. \A h \in Dialers :
            pc'[n][h] = IF h = "hub" THEN "up" ELSE IF h = l THEN "top" ELSE pc[n][h]
      BY <2>2, <3>1 DEF TypeOK, Dialers
    <3>3. \A h \in Dialers : h # "hub" => pc[n][h] = "none"
      BY <1>6, <2>2 DEF Connecting
    <3>4. \A h \in Dialers : pc'[n][h] =
            IF h = "hub" THEN "up" ELSE IF h = l THEN "top" ELSE "none"
      BY <3>2, <3>3
    <3>5. \A h \in Dialers : Connecting(n, h)' => h = l
      BY <3>1, <3>4 DEF Connecting
    <3>6. \A h \in Dialers : ~Dialing(n, h)'
      BY <3>4 DEF Dialing
    <3> QED
      BY <3>4, <3>5, <3>6 DEF Dialers
  <2> QED
    BY <2>1, <2>2 DEF StartClientConn
<1>9. ASSUME NEW m \in Nodes
      PROVE  SoleDialer(m)' /\ DialsAlone(m)'
  <2>1. CASE m = n
    <3>1. \A h \in Dialers : pc'[n][h] \notin {"dial", "dialed"}
      BY <1>8 DEF Dialing
    <3> QED
      BY <1>1, <1>3, <1>8, <2>1, <3>1 DEF SoleDialer, DialsAlone
  <2>2. CASE m # n
    <3>1. current'[m] = current[m] /\ \A h \in Dialers : dialed'[m][h] = dialed[m][h]
      BY <1>1, <2>2
    <3>2. \A h \in Dialers : pc'[m][h] = pc[m][h] /\ Connecting(m, h)' = Connecting(m, h)
      BY <1>7, <2>2 DEF Connecting
    <3>3. SoleDialer(m)'
      BY <1>1, <1>3, <3>2 DEF SoleDialer, Dialers
    <3>4. current[m] # c
      BY <1>2 DEF CloseInv, Unstarted, c
    <3>5. ASSUME NEW h \in Dialers, Dialing(m, h)'
          PROVE  current'[m] = NoConn \/ ~mgr'[current'[m]]["client"].flag
      <4>1. Dialing(m, h)
        BY <3>2, <3>5 DEF Dialing
      <4>2. current[m] = NoConn \/ ~mgr[current[m]]["client"].flag
        BY <1>3, <4>1 DEF DialsAlone
      <4>3. current[m] # NoConn => current[m] \in Conns
        BY DEF TypeOK
      <4> QED
        BY <1>1, <3>1, <3>4, <4>2, <4>3
    <3>6. ASSUME NEW h \in Dialers, pc'[m][h] = "dialed"
          PROVE  owner'[dialed'[m][h]] = m
      BY <1>1, <1>3, <3>1, <3>2, <3>6 DEF DialsAlone
    <3> QED
      BY <3>3, <3>5, <3>6 DEF DialsAlone
  <2> QED
    BY <2>1, <2>2
<1>10. ASSUME NEW d \in Conns
       PROVE  RunsAsCurrent(d)'
  <2>1. CASE d = c
    BY <1>1, <1>4, <1>5, <2>1 DEF RunsAsCurrent
  <2>2. CASE d # c
    <3>1. mgr'[d]["client"] = mgr[d]["client"] /\ RunsAsCurrent(d)
      BY <1>1, <1>3, <2>2
    <3>2. mgr[d]["client"].flag => owner[d] # n
      BY <1>4, <3>1, ConnAssumption DEF RunsAsCurrent
    <3> QED
      BY <1>1, <3>1, <3>2 DEF RunsAsCurrent
  <2> QED
    BY <2>1, <2>2
<1> QED
  BY <1>9, <1>10

LEMMA ReconnectKeepsSender ==
  ASSUME TypeOK, SenderInv, NEW n \in Nodes, NEW g \in Dialers,
         Reconnect(n, g) \/ DialCancelled(n, g) \/ HubStarts(n)
  PROVE  SenderInv'
<1>1. UNCHANGED <<owner, mgr, current, restarts>>
  BY DEF Reconnect, DialCancelled, HubStarts
<1> SUFFICES ASSUME restarts = 0
             PROVE  /\ \A m \in Nodes : SoleDialer(m)' /\ DialsAlone(m)'
                    /\ \A d \in Conns : RunsAsCurrent(d)'
  BY <1>1 DEF SenderInv
<1>2. /\ \A m \in Nodes : SoleDialer(m) /\ DialsAlone(m)
      /\ \A d \in Conns : RunsAsCurrent(d)
  BY DEF SenderInv
<1>3. /\ Reconnect(n, g) /\ g # "hub" /\ UNCHANGED <<proxyUp, dialed>>
  BY <1>2 DEF SoleDialer, DialCancelled, HubStarts, Reconnect, Loops
<1>4. PICK l \in {"sleep", "top", "dial"} :
        /\ pc[n][g] \in {"top", "sleep"}
        /\ pc' = [pc EXCEPT ![n][g] = l]
        /\ l = "dial" => ~IsConnected(n)
  BY <1>2, <1>3 DEF Reconnect, SoleDialer
<1>5. \A m \in Nodes, h \in Dialers :
        pc'[m][h] = IF m = n /\ h = g THEN l ELSE pc[m][h]
  BY <1>4 DEF TypeOK
<1>6. l = "dial" => current[n] = NoConn \/ ~mgr[current[n]]["client"].flag
  <2>1. current[n] # NoConn => current[n] \in Conns
    BY DEF TypeOK
  <2> QED
    BY <1>2, <1>4, <2>1 DEF IsConnected, RunsAsCurrent
<1>7. ASSUME NEW m \in Nodes
      PROVE  SoleDialer(m)' /\ DialsAlone(m)'
  <2>1. \A h \in Dialers : Connecting(m, h)' = Connecting(m, h)
    BY <1>3, <1>4, <1>5 DEF Connecting
  <2>2. SoleDialer(m)'
    BY <1>2, <1>3, <1>5, <2>1 DEF SoleDialer, Dialers
  <2>3. DialsAlone(m)'
    BY <1>1, <1>2, <1>3, <1>4, <1>5, <1>6 DEF DialsAlone, Dialing
  <2> QED
    BY <2>2, <2>3
<1>8. ASSUME NEW d \in Conns
      PROVE  RunsAsCurrent(d)'
  BY <1>1, <1>2 DEF RunsAsCurrent
<1> QED
  BY <1>7, <1>8

LEMMA SenderStep ==
  ASSUME TypeOK, CloseInv, SenderInv, [Next]_vars
  PROVE  SenderInv'
<1>1. CASE UNCHANGED vars
  BY <1>1, SenderFrame DEF vars
<1>2. ASSUME NEW c \in Conns, Serve(c)
      PROVE  SenderInv'
  BY <1>2, ServeEffects, SenderFrame
<1>3. ASSUME NEW c \in Conns, LinkFails(c) \/ LinkHeals(c) \/ LinkBreaks(c)
      PROVE  SenderInv'
  BY <1>3, SenderFrame DEF LinkFails, LinkHeals, LinkBreaks
<1>4. ASSUME NEW c \in Conns, NEW e \in Ends, Manager(c, e) \/ Message(c, e)
      PROVE  SenderInv'
  <2>1. UNCHANGED <<owner, clientVars, restarts>>
    BY <1>4 DEF Manager, Receive, Message, PostProcess, Heartbeat, Stop,
                WaitAndClose
  <2> QED
    BY <1>4, <2>1, ManagerEffects, SenderFrame DEF Ends
<1>5. ASSUME NEW n \in Nodes, NEW g \in Dialers,
             Dial(n, g) \/ StartClientConn(n, g) \/ Reconnect(n, g)
               \/ DialCancelled(n, g) \/ HubStarts(n)
      PROVE  SenderInv'
  BY <1>5, DialKeepsSender, StartKeepsSender, ReconnectKeepsSender
<1>6. ASSUME NEW n \in Nodes, HubStops(n)
      PROVE  SenderInv'
  <2>1. restarts' # 0
    BY <1>6, HubEffects, BoundAssumption DEF TypeOK
  <2> QED
    BY <2>1 DEF SenderInv
<1>7. "hub" \in Dialers
  BY DEF Dialers
<1> QED
  BY <1>1, <1>2, <1>3, <1>4, <1>5, <1>6, <1>7 DEF Next, Client

\* Without a restart of an edge hub, the connection the center serves is the
\* one Send() of the client uses, for any nodes, connections and failures.
THEOREM SendsUnlessRestartedHolds == Spec => []SendsUnlessRestarted
<1>1. TypeOK /\ SenderInv /\ OneServedConnection => SendsUnlessRestarted
  <2> SUFFICES ASSUME TypeOK, SenderInv, OneServedConnection, restarts = 0,
                      NEW n \in Nodes, Served(n),
                      mgr[clientMap[n]]["client"].flag
               PROVE  current[n] = clientMap[n]
    BY DEF SendsUnlessRestarted, ServedNodeCanSend
  <2>1. clientMap[n] \in Conns
    BY DEF TypeOK, Served
  <2>2. owner[clientMap[n]] = n
    BY <2>1 DEF OneServedConnection
  <2> QED
    BY <2>1, <2>2 DEF SenderInv, RunsAsCurrent
<1>2. TypeOK /\ CloseInv /\ SenderInv /\ [Next]_vars => SenderInv'
  BY SenderStep
<1>3. Inv => TypeOK
  BY DEF Inv
<1> QED
  BY <1>1, <1>2, <1>3, SenderInitial, OneServedConnectionHolds, InvInitial,
     InvPreserved, CloseInvInitial, CloseInvPreserved, PTL DEF Spec

=============================================================================
