--------------------------- MODULE NodeConnection ---------------------------
(***************************************************************************)
(* The websocket between an edge node and MEF Center.                      *)
(*                                                                         *)
(* Both ends of a connection are a wsConnectMgr: a receive goroutine, a    *)
(* heartbeat goroutine, and stop(), which either of them or the owner      *)
(* calls.  At the center the WsServerProxy keeps one connection per node   *)
(* name in clientMap and counts connections in a ConnLimiter.  At the node *)
(* the WsClientProxy has one current connection, which a reconnect         *)
(* goroutine replaces, and the edge hub stops and starts the proxy when    *)
(* cloudcore stays away.  The bandwidth limiter of each proxy accepts the  *)
(* messages of registered names only; that of the center is modelled.      *)
(*                                                                         *)
(* Time is left out: a sleep ends at any moment after it began, and the    *)
(* heartbeat times out while no frame of the peer can arrive.  The         *)
(* heartbeat goroutine runs at once, the receive goroutine some time after *)
(* start().                                                                *)
(***************************************************************************)
EXTENDS Naturals, FiniteSets

CONSTANTS
  Nodes,        \* edge nodes, each the name of a client
  NoNode,
  Conns,        \* connections; one that is over may be made again
  NoConn,
  Limit,        \* connLimitNum
  MaxFailures,  \* bound: times a link fails
  MaxRestarts,  \* bound: times an edge hub restarts its proxy
  MaxTroubles   \* bound: failures and restarts together

ASSUME ConnAssumption ==
  IsFiniteSet(Conns) /\ NoConn \notin Conns /\ NoNode \notin Nodes
ASSUME BoundAssumption ==
  /\ Limit \in Nat \ {0}
  /\ MaxFailures \in Nat /\ MaxRestarts \in Nat /\ MaxTroubles \in Nat

Ends == {"client", "server"}
Peer(e) == IF e = "client" THEN "server" ELSE "client"
Callers == {"recv", "beat", "proxy"}   \* who calls stop() of a manager
Loops == {"loop1", "loop2"}            \* reconnect goroutines; two, a bound
Dialers == Loops \cup {"hub"}

VARIABLES
  owner,      \* the node that dialed a connection
  link,       \* "up", "down": nothing passes, "reset": a read is an error
  unread,     \* the ends to which a silent link still carries pings
  mgr,        \* the two wsConnectMgr of a connection
  serve,      \* the program counter of serveHTTP
  clientMap,  \* the connection of each node
  connNum,    \* the count of the ConnLimiter
  registered, \* the names in the bandwidth limiter of the center
  proxyUp,    \* ProxyCfg.ctx is not cancelled
  current,    \* wcp.connMgr
  pc,         \* the goroutines of the client
  dialed,     \* the connection each of them has just made
  failures, restarts

linkVars == <<owner, link, unread>>
serverVars == <<serve, clientMap, connNum>>
clientVars == <<proxyUp, current, pc, dialed>>
counters == <<failures, restarts>>
vars == <<linkVars, mgr, serverVars, registered, clientVars, counters>>

RecvLabels == {"none", "launched", "top", "read", "stop", "wait", "post", "unreg"}
BeatLabels == {"none", "run", "stop", "wait"}
NewMgr == [flag |-> FALSE, open |-> TRUE, cancelled |-> FALSE,
           recv |-> "none", beat |-> "none", proxy |-> "none"]

Init ==
  /\ owner = [c \in Conns |-> NoNode]
  /\ link = [c \in Conns |-> "reset"]
  /\ unread = [c \in Conns |-> {}]
  /\ mgr = [c \in Conns |-> [e \in Ends |-> [NewMgr EXCEPT !.open = FALSE]]]
  /\ serve = [c \in Conns |-> "ended"]
  /\ clientMap = [n \in Nodes |-> NoConn] /\ connNum = 0
  /\ registered = {}
  /\ proxyUp = [n \in Nodes |-> TRUE]
  /\ current = [n \in Nodes |-> NoConn]
  /\ pc = [n \in Nodes |-> [g \in Dialers |-> IF g = "hub" THEN "dial" ELSE "none"]]
  /\ dialed = [n \in Nodes |-> [g \in Dialers |-> NoConn]]
  /\ failures = 0 /\ restarts = 0

-----------------------------------------------------------------------------
(* wsConnectMgr                                                            *)

\* start(): the goroutines are started; the name may send messages.
Start(m) == [m EXCEPT !.flag = TRUE, !.recv = "launched", !.beat = "run"]

\* The WaitGroup counts a goroutine from its first statement to its Done().
Waited(m) == m.recv \in {"top", "read"} \/ m.beat = "run"
Locked(m) == \E g \in Callers : m[g] = "wait"
Dead(m) == ~m.open /\ ~m.flag

\* Closing a connection resets it; over a link that is down the peer does not
\* hear of it.
Closed(c) == IF link[c] = "up" THEN [link EXCEPT ![c] = "reset"] ELSE link

\* What a caller of stop() does when it returns.
Returned(g) == IF g = "recv" THEN "post" ELSE "none"

\* Mutant: stop() waits for goroutines nobody told to end.
Stop_NoCancel(c, e, g) ==
  /\ mgr[c][e][g] = "stop"
  /\ \/ Dead(mgr[c][e]) /\ mgr' = [mgr EXCEPT ![c][e][g] = Returned(g)]
     \/ ~Dead(mgr[c][e]) /\ ~Locked(mgr[c][e])
        /\ mgr' = [mgr EXCEPT ![c][e][g] = "wait"]
  /\ UNCHANGED <<linkVars, serverVars, registered, clientVars, counters>>

\* stop(), up to its wait for the goroutines.
Stop(c, e, g) ==
  LET m == mgr[c][e] IN
  /\ m[g] = "stop"
  /\ \/ Dead(m) /\ mgr' = [mgr EXCEPT ![c][e][g] = Returned(g)]
     \/ ~Dead(m) /\ ~Locked(m)
        /\ mgr' = [mgr EXCEPT ![c][e][g] = "wait", ![c][e].cancelled = TRUE]
  /\ UNCHANGED <<linkVars, serverVars, registered, clientVars, counters>>

\* Mutant: the goroutines are not waited for.
WaitAndClose_Now(c, e, g) ==
  /\ mgr[c][e][g] = "wait"
  /\ mgr' = [mgr EXCEPT ![c][e][g] = Returned(g),
                        ![c][e].open = FALSE, ![c][e].flag = FALSE]
  /\ link' = IF mgr[c][e].open THEN Closed(c) ELSE link
  /\ UNCHANGED <<owner, unread, serverVars, registered, clientVars, counters>>

\* waitHandleGrp.Wait(), and the connection is closed.
WaitAndClose(c, e, g) ==
  /\ mgr[c][e][g] = "wait" /\ ~Waited(mgr[c][e])
  /\ mgr' = [mgr EXCEPT ![c][e][g] = Returned(g),
                        ![c][e].open = FALSE, ![c][e].flag = FALSE]
  /\ link' = IF mgr[c][e].open THEN Closed(c) ELSE link
  /\ UNCHANGED <<owner, unread, serverVars, registered, clientVars, counters>>

\* receive(): the loop, and what ends the read it is blocked in: an error, or,
\* once the context is cancelled, a ping, which is then an error as well.
Pinged(c, e) ==
  link[c] = "up" /\ (mgr[c][Peer(e)].beat = "run" \/ e \in unread[c])
Receive(c, e) ==
  LET m == mgr[c][e]
      To(l) == mgr' = [mgr EXCEPT ![c][e].recv = l] IN
  /\ \/ m.recv = "launched" /\ To("top")
     \/ m.recv = "top" /\ To(IF m.cancelled THEN "post" ELSE "read")
     \/ m.recv = "read" /\ link[c] = "reset" /\ To("stop")
     \/ m.recv = "read" /\ m.cancelled /\ Pinged(c, e) /\ To("stop")
  /\ UNCHANGED <<linkVars, serverVars, registered, clientVars, counters>>

\* A message of the peer: the read returns, and the loop goes on.
Message(c, e) ==
  /\ mgr[c][e].recv = "read" /\ link[c] = "up"
  /\ mgr' = [mgr EXCEPT ![c][e].recv = "top"]
  /\ UNCHANGED <<linkVars, serverVars, registered, clientVars, counters>>

\* postProcess(): the disconnect callbacks, then the limiter.
PostProcess_Never(c, e) ==            \* Mutant: the name is not unregistered
  /\ mgr[c][e].recv = "post"
  /\ mgr' = [mgr EXCEPT ![c][e].recv = "none"]
  /\ UNCHANGED <<linkVars, serverVars, registered, clientVars, counters>>
PostProcess(c, e) ==
  /\ \/ /\ mgr[c][e].recv = "post"
        /\ mgr' = [mgr EXCEPT ![c][e].recv = IF e = "server" THEN "unreg" ELSE "none"]
        /\ UNCHANGED registered
     \/ /\ mgr[c][e].recv = "unreg"
        /\ mgr' = [mgr EXCEPT ![c][e].recv = "none"]
        /\ registered' = registered \ {owner[c]}
  /\ UNCHANGED <<linkVars, serverVars, clientVars, counters>>

\* heartbeat(): a ping, a sleep, and the check of lastAlive, which nothing
\* renews while the link is down or the peer has stopped answering.  The pings
\* sent into the silence arrive if the link comes back.
Silent_Never(c, e) == FALSE           \* Mutant: the deadline is never set
Silent(c, e) == link[c] = "down" \/ mgr[c][Peer(e)].cancelled
Heartbeat(c, e) ==
  LET m == mgr[c][e]
      To(l) == mgr' = [mgr EXCEPT ![c][e].beat = l] IN
  /\ \/ m.beat = "run" /\ m.cancelled /\ To("none") /\ UNCHANGED unread
     \/ /\ m.beat = "run" /\ Silent(c, e) /\ To("stop")
        /\ unread' = [unread EXCEPT ![c] = @ \cup {Peer(e)}]
  /\ UNCHANGED <<owner, link, serverVars, registered, clientVars, counters>>

Manager(c, e) ==
  \/ Receive(c, e) \/ PostProcess(c, e)
  \/ Heartbeat(c, e)
  \/ \E g \in Callers : Stop(c, e, g) \/ WaitAndClose(c, e, g)

-----------------------------------------------------------------------------
(* WsServerProxy                                                           *)

\* Mutant: a new connection takes the place of the old one.
ServeHTTP_Replaces(c) ==
  /\ serve[c] = "upgraded"
  /\ clientMap' = [clientMap EXCEPT ![owner[c]] = c]
  /\ serve' = [serve EXCEPT ![c] = "stored"]
  /\ UNCHANGED <<linkVars, mgr, connNum, registered, clientVars, counters>>

\* Mutant: a refused connection is taken off the counter as well.
ServeHTTP_Releases(c) ==
  /\ serve[c] = "upgraded"
  /\ IF clientMap[owner[c]] = NoConn
     THEN /\ clientMap' = [clientMap EXCEPT ![owner[c]] = c]
          /\ serve' = [serve EXCEPT ![c] = "stored"]
          /\ UNCHANGED <<link, mgr, connNum>>
     ELSE /\ link' = Closed(c) /\ connNum' = connNum - 1
          /\ mgr' = [mgr EXCEPT ![c]["server"].open = FALSE]
          /\ serve' = [serve EXCEPT ![c] = "deleted"]
          /\ UNCHANGED clientMap
  /\ UNCHANGED <<owner, unread, registered, clientVars, counters>>

\* LoadOrStore: the name may have one connection.
ServeHTTP(c) ==
  /\ serve[c] = "upgraded"
  /\ IF clientMap[owner[c]] = NoConn
     THEN /\ clientMap' = [clientMap EXCEPT ![owner[c]] = c]
          /\ serve' = [serve EXCEPT ![c] = "stored"]
          /\ UNCHANGED <<link, mgr>>
     ELSE /\ link' = Closed(c)
          /\ mgr' = [mgr EXCEPT ![c]["server"].open = FALSE]
          /\ serve' = [serve EXCEPT ![c] = "deleted"]
          /\ UNCHANGED clientMap
  /\ UNCHANGED <<owner, unread, connNum, registered, clientVars, counters>>

StartServerConn(c) ==
  /\ serve[c] = "stored"
  /\ mgr' = [mgr EXCEPT ![c]["server"] = Start(@)]
  /\ registered' = registered \cup {owner[c]}
  /\ serve' = [serve EXCEPT ![c] = "serving"]
  /\ UNCHANGED <<linkVars, clientMap, connNum, clientVars, counters>>

\* <-connMgr.ctx.Done(), and the name is free.
Disconnected(c) ==
  /\ serve[c] = "serving" /\ mgr[c]["server"].cancelled
  /\ clientMap' = [clientMap EXCEPT ![owner[c]] = NoConn]
  /\ serve' = [serve EXCEPT ![c] = "deleted"]
  /\ UNCHANGED <<linkVars, mgr, connNum, registered, clientVars, counters>>

ConnDone_Never(c) ==                  \* Mutant: the counter is not given back
  /\ serve[c] = "deleted"
  /\ serve' = [serve EXCEPT ![c] = "ended"]
  /\ UNCHANGED <<linkVars, mgr, clientMap, connNum, registered, clientVars,
                 counters>>
ConnDone(c) ==
  /\ serve[c] = "deleted"
  /\ serve' = [serve EXCEPT ![c] = "ended"]
  /\ connNum' = connNum - 1
  /\ UNCHANGED <<linkVars, mgr, clientMap, registered, clientVars, counters>>

Serve(c) ==
  ServeHTTP(c) \/ StartServerConn(c) \/ Disconnected(c) \/ ConnDone(c)

-----------------------------------------------------------------------------
(* WsClientProxy and the edge hub                                          *)

IsConnected_Set(n) == current[n] # NoConn   \* Mutant: any manager will do
IsConnected(n) ==
  current[n] # NoConn /\ mgr[current[n]]["client"].flag
                      /\ mgr[current[n]]["client"].open

\* A connection that is over at both ends.  A current one is forgotten when it
\* is made again: the proxy treats a stopped manager like none.
Over(c) ==
  /\ serve[c] = "ended"
  /\ \A e \in Ends : mgr[c][e].recv = "none" /\ mgr[c][e].beat = "none"
                     /\ mgr[c][e].proxy = "none"
  /\ link[c] = "reset" \/ \A e \in Ends : ~mgr[c][e].open
  /\ \A n \in Nodes : \A g \in Dialers : dialed[n][g] # c

\* Mutant: ConnAdd counts, and does not compare.
Dial_Unlimited(n, g) ==
  /\ pc[n][g] = "dial" /\ proxyUp[n]
  /\ \E c \in Conns :
       /\ Over(c)
       /\ owner' = [owner EXCEPT ![c] = n]
       /\ link' = [link EXCEPT ![c] = "up"]
       /\ unread' = [unread EXCEPT ![c] = {}]
       /\ mgr' = [mgr EXCEPT ![c] = [e \in Ends |-> NewMgr]]
       /\ serve' = [serve EXCEPT ![c] = "upgraded"]
       /\ dialed' = [dialed EXCEPT ![n][g] = c]
       /\ current' = [m \in Nodes |-> IF current[m] = c THEN NoConn ELSE current[m]]
  /\ connNum' = connNum + 1
  /\ pc' = [pc EXCEPT ![n][g] = "dialed"]
  /\ UNCHANGED <<clientMap, registered, proxyUp, counters>>

\* tryConnect(): the dial is accepted by the ConnLimiter and upgraded.
Dial(n, g) ==
  /\ pc[n][g] = "dial" /\ proxyUp[n] /\ connNum < Limit
  /\ \E c \in Conns :
       /\ Over(c)
       /\ owner' = [owner EXCEPT ![c] = n]
       /\ link' = [link EXCEPT ![c] = "up"]
       /\ unread' = [unread EXCEPT ![c] = {}]
       /\ mgr' = [mgr EXCEPT ![c] = [e \in Ends |-> NewMgr]]
       /\ serve' = [serve EXCEPT ![c] = "upgraded"]
       /\ dialed' = [dialed EXCEPT ![n][g] = c]
       /\ current' = [m \in Nodes |-> IF current[m] = c THEN NoConn ELSE current[m]]
  /\ connNum' = connNum + 1
  /\ pc' = [pc EXCEPT ![n][g] = "dialed"]
  /\ UNCHANGED <<clientMap, registered, proxyUp, counters>>

\* A reconnect goroutine whose dial is cancelled goes back to its loop.
DialCancelled(n, g) ==
  /\ pc[n][g] = "dial" /\ ~proxyUp[n]
  /\ pc' = [pc EXCEPT ![n][g] = "top"]
  /\ UNCHANGED <<linkVars, mgr, serverVars, registered, proxyUp, current, dialed,
                 counters>>

\* start(): a new manager becomes that of the proxy.
StartClientConn(n, g) ==
  LET c == dialed[n][g] IN
  /\ pc[n][g] = "dialed"
  /\ current' = [current EXCEPT ![n] = c]
  /\ mgr' = [mgr EXCEPT ![c]["client"] = Start(@)]
  /\ dialed' = [dialed EXCEPT ![n][g] = NoConn]
  /\ \/ g # "hub" /\ pc' = [pc EXCEPT ![n][g] = "top"]
     \/ /\ g = "hub"
        /\ \E l \in Loops : /\ pc[n][l] = "none"
                            /\ pc' = [pc EXCEPT ![n]["hub"] = "up", ![n][l] = "top"]
  /\ UNCHANGED <<linkVars, serverVars, registered, proxyUp, counters>>

\* Mutant: the connection is not looked at.
Reconnect_Blind(n, g) ==
  /\ g \in Loops
  /\ \/ pc[n][g] = "top"
        /\ pc' = [pc EXCEPT ![n][g] = IF proxyUp[n] THEN "sleep" ELSE "none"]
     \/ pc[n][g] = "sleep" /\ pc' = [pc EXCEPT ![n][g] = "dial"]
  /\ UNCHANGED <<linkVars, mgr, serverVars, registered, proxyUp, current, dialed,
                 counters>>

\* reconnect(): the context is looked at before the sleep, the connection
\* after it.
Reconnect(n, g) ==
  /\ g \in Loops
  /\ \/ pc[n][g] = "top"
        /\ pc' = [pc EXCEPT ![n][g] = IF proxyUp[n] THEN "sleep" ELSE "none"]
     \/ pc[n][g] = "sleep"
        /\ pc' = [pc EXCEPT ![n][g] = IF IsConnected(n) THEN "top" ELSE "dial"]
  /\ UNCHANGED <<linkVars, mgr, serverVars, registered, proxyUp, current, dialed,
                 counters>>

\* checkCloudcoreIsConnected() restarts the proxy.
HubStops(n) ==
  /\ pc[n]["hub"] = "up" /\ restarts < MaxRestarts
  /\ failures + restarts < MaxTroubles
  /\ restarts' = restarts + 1
  /\ proxyUp' = [proxyUp EXCEPT ![n] = FALSE]
  /\ mgr' = IF current[n] = NoConn THEN mgr
            ELSE [mgr EXCEPT ![current[n]]["client"].proxy = "stop"]
  /\ dialed' = [dialed EXCEPT ![n]["hub"] = current[n]]
  /\ pc' = [pc EXCEPT ![n]["hub"] = "stopping"]
  /\ UNCHANGED <<linkVars, serverVars, registered, current, failures>>

HubStarts(n) ==
  /\ pc[n]["hub"] = "stopping"
  /\ dialed[n]["hub"] # NoConn => mgr[dialed[n]["hub"]]["client"].proxy = "none"
  /\ dialed' = [dialed EXCEPT ![n]["hub"] = NoConn]
  /\ proxyUp' = [proxyUp EXCEPT ![n] = TRUE]
  /\ pc' = [pc EXCEPT ![n]["hub"] = "dial"]
  /\ UNCHANGED <<linkVars, mgr, serverVars, registered, current, counters>>

Client(n) ==
  \/ \E g \in Dialers : \/ Dial(n, g) \/ DialCancelled(n, g)
                        \/ StartClientConn(n, g) \/ Reconnect(n, g)
  \/ HubStarts(n)

-----------------------------------------------------------------------------
(* The link                                                                *)

LinkFails(c) ==
  /\ link[c] = "up" /\ failures < MaxFailures
  /\ failures + restarts < MaxTroubles
  /\ failures' = failures + 1
  /\ link' = [link EXCEPT ![c] = "down"]
  /\ UNCHANGED <<owner, unread, mgr, serverVars, registered, clientVars, restarts>>

\* What was sent meanwhile arrives, the end of a connection too.
LinkHeals(c) ==
  /\ link[c] = "down"
  /\ link' = [link EXCEPT ![c] = IF \A e \in Ends : mgr[c][e].open
                                 THEN "up" ELSE "reset"]
  /\ UNCHANGED <<owner, unread, mgr, serverVars, registered, clientVars, counters>>

\* The TCP stacks give up.
LinkBreaks(c) ==
  /\ link[c] = "down"
  /\ link' = [link EXCEPT ![c] = "reset"]
  /\ UNCHANGED <<owner, unread, mgr, serverVars, registered, clientVars, counters>>

-----------------------------------------------------------------------------
Next ==
  \/ \E c \in Conns :
       \/ Serve(c) \/ LinkFails(c) \/ LinkHeals(c) \/ LinkBreaks(c)
       \/ \E e \in Ends : Manager(c, e) \/ Message(c, e)
  \/ \E n \in Nodes : Client(n) \/ HubStops(n)

Spec == Init /\ [][Next]_vars

\* Every goroutine that can run does; a silent peer is noticed at last.
Scheduling ==
  /\ \A c \in Conns :
       /\ WF_vars(Serve(c))
       /\ \A e \in Ends :
            /\ WF_vars(Receive(c, e)) /\ WF_vars(PostProcess(c, e))
            /\ WF_vars(Heartbeat(c, e))
            /\ \A g \in Callers : WF_vars(Stop(c, e, g))
                                  /\ WF_vars(WaitAndClose(c, e, g))
  /\ \A n \in Nodes :
       /\ WF_vars(HubStarts(n))
       /\ \A g \in Dialers : /\ WF_vars(Dial(n, g)) /\ WF_vars(DialCancelled(n, g))
                             /\ WF_vars(StartClientConn(n, g))
                             /\ WF_vars(Reconnect(n, g))

FairSpec == Spec /\ Scheduling
\* In the end TCP gives up on a link that stays down.
TcpGivesUp == \A c \in Conns : WF_vars(LinkBreaks(c))

-----------------------------------------------------------------------------
(* Properties                                                              *)

\* Every variable holds a value of its type.
Manager_Type ==
  [flag : BOOLEAN, open : BOOLEAN, cancelled : BOOLEAN,
   recv : RecvLabels, beat : BeatLabels, proxy : {"none", "stop", "wait"}]
TypeOK ==
  /\ owner \in [Conns -> Nodes \cup {NoNode}]
  /\ link \in [Conns -> {"up", "down", "reset"}]
  /\ unread \in [Conns -> SUBSET Ends]
  /\ mgr \in [Conns -> [Ends -> Manager_Type]]
  /\ serve \in [Conns -> {"upgraded", "stored", "serving", "deleted", "ended"}]
  /\ clientMap \in [Nodes -> Conns \cup {NoConn}] /\ connNum \in 0..Limit
  /\ registered \in SUBSET Nodes
  /\ proxyUp \in [Nodes -> BOOLEAN]
  /\ current \in [Nodes -> Conns \cup {NoConn}]
  /\ pc \in [Nodes -> [Dialers -> {"none", "top", "sleep", "dial", "dialed",
                                   "up", "stopping"}]]
  /\ dialed \in [Nodes -> [Dialers -> Conns \cup {NoConn}]]
  /\ failures \in 0..MaxFailures /\ restarts \in 0..MaxRestarts

\* serveHTTP and clientMap agree: the connection a node has in the map is the
\* one, and the only one, whose handler stored it and has not deleted it, in
\* whatever order old handlers end and new ones begin.
Stored(c) == serve[c] \in {"stored", "serving"}
OneServedConnection ==
  \A c \in Conns : \A n \in Nodes :
    clientMap[n] = c <=> owner[c] = n /\ Stored(c)

\* The ConnLimiter counts the handlers that run, refused ones included, so
\* that connections that are over never use up connLimitNum.
ConnNumIsExact ==
  connNum = Cardinality({c \in Conns : serve[c] # "ended"})

\* stop() sets cm.conn to nil only when no goroutine reads it: receive() and
\* heartbeat() never run into a connection their own end has closed.
NoReadAfterClose ==
  \A c \in Conns : \A e \in Ends :
    ~mgr[c][e].open => /\ mgr[c][e].recv # "read"
                       /\ mgr[c][e].beat = "run" => mgr[c][e].cancelled

\* A name stays in the bandwidth limiter of the center only while a receive
\* goroutine is left that takes it out: nodes that went away do not shrink the
\* share of those that are there.
RegistrationNotLeaked ==
  \A n \in registered :
    \E c \in Conns : owner[c] = n /\ mgr[c]["server"].recv # "none"

\* A node the center serves is let through: its name is in the bandwidth
\* limiter as long as its connection is in the map and not being stopped.
Served(n) ==
  /\ clientMap[n] # NoConn /\ serve[clientMap[n]] = "serving"
  /\ ~mgr[clientMap[n]]["server"].cancelled
ServedNodeIsRegistered == \A n \in Nodes : Served(n) => n \in registered

\* The proxies of both ends agree on the connection: once the node's goroutines
\* are past their dial, the connection the center serves is the one Send() of
\* the client uses.
Settled(n) == \A g \in Dialers : pc[n][g] \notin {"dial", "dialed", "stopping"}
ServedNodeCanSend ==
  \A n \in Nodes :
    Served(n) /\ Settled(n) /\ link[clientMap[n]] = "up"
              /\ mgr[clientMap[n]]["client"].flag => current[n] = clientMap[n]

\* They agree as long as no edge hub has restarted its proxy: link failures and
\* refused dials alone never separate them.
SendsUnlessRestarted == restarts = 0 => ServedNodeCanSend

\* A connection whose link died is noticed by the heartbeat of the center even
\* if TCP never reports it: the name is freed for the node to come back.
DeadLinkIsFreed ==
  \A c \in Conns :
    link[c] = "down" ~> link[c] # "down" \/ serve[c] \in {"deleted", "ended"}

\* A node whose link fails is served again, over the connection its proxy
\* sends on, whatever refusals the old connection causes meanwhile.  At the
\* client a blocked read ends only when TCP gives up on the link.
Joined(n) ==
  /\ Served(n) /\ current[n] = clientMap[n] /\ IsConnected(n)
  /\ link[current[n]] = "up"
NodeComesBack == TcpGivesUp => \A n \in Nodes : []<>Joined(n)
=============================================================================
