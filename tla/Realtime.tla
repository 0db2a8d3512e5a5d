------------------------------ MODULE Realtime ------------------------------
(***************************************************************************)
(* The socket that keeps a page of the client up to date: SocketContext    *)
(* with the hooks of the pages that use it, and the rooms socketService    *)
(* keeps for each connection.                                              *)
(*                                                                         *)
(* connect is a closure over the access token it was rendered with.  It    *)
(* never opens a socket at once: it sets a timer, which opens one if the   *)
(* page has none by then.  The close event of a socket sets a timer that   *)
(* calls the connect of that socket's own rendering again.  Timers fire    *)
(* in any order, since the delays of the network are not bounded by them.  *)
(***************************************************************************)
EXTENDS PageRooms

CONSTANTS
    Hooks,       \* users of useRealTimeSync in the tabs of the page
    MaxTokens,   \* bound: access tokens issued, by logins and refreshes
    MaxRenders,  \* bound: times AuthProvider renders again within a login
    MaxFaults,   \* bound: connections lost or refused
    MaxQueue     \* bound: messages on their way to the server

ASSUME RealtimeAssumption ==
    /\ NoSocket \notin Sockets
    /\ Hooks \subseteq DOMAIN Room
    /\ {MaxTokens, MaxRenders, MaxFaults, MaxQueue} \subseteq Nat

VARIABLES
    token,      \* the token of AuthContext, 0 when logged out
    issued,     \* tokens issued so far
    delay,      \* timers of connect that will open a socket, by token
    retry,      \* reconnectTimeoutRef: the token of its timer, 0 if none is pending
    ping,       \* pingIntervalRef: the socket its interval pings, NoSocket if cleared
    orphans,    \* reconnect timers that reconnectTimeoutRef no longer names
    renders,    \* history: renderings so far
    faults      \* history: faults so far

atPage == <<token, issued, mounted, renders>>
vars == <<socks, wsRef, delay, retry, ping, orphans, connected, rooms, faults, atPage>>

Tokens == 1..MaxTokens

(* page: what the page knows of it; lost: the server, or the network, has  *)
(* dropped it and the page has not noticed; silent: and nothing is on its  *)
(* way to tell it; rooms: of roomSockets, those it is in; queue: messages  *)
(* the server has not read.                                                *)
Closed == [tok |-> 0, page |-> "closed", lost |-> FALSE, silent |-> FALSE,
           rooms |-> {}, queue |-> <<>>]

QueueRoom == IsOpen => Len(socks[wsRef].queue) < MaxQueue

Init ==
    /\ token = 0 /\ issued = 0
    /\ socks = [s \in Sockets |-> Closed]
    /\ wsRef = NoSocket
    /\ delay = [t \in Tokens |-> 0]
    /\ retry = 0 /\ ping = NoSocket
    /\ orphans = [t \in Tokens |-> 0]
    /\ connected = FALSE
    /\ rooms = {}
    /\ mounted = {}
    /\ renders = 0 /\ faults = 0

-----------------------------------------------------------------------------
(* subscribe and unsubscribe change subscribedRoomsRef and tell the server *)
(* only what changed, if the socket is open.                               *)
Tell(type, changed) ==
    IF changed = {} THEN <<>> ELSE <<[type |-> type, rooms |-> changed]>>

Sent(messages) ==
    IF IsOpen THEN [socks EXCEPT ![wsRef].queue = @ \o messages] ELSE socks

Subscribe(wanted) ==
    /\ rooms' = rooms \cup wanted
    /\ socks' = Sent(Tell("subscribe", wanted \ rooms))

Unsubscribe(unwanted) ==
    /\ rooms' = rooms \ unwanted
    /\ socks' = Sent(Tell("unsubscribe", unwanted \cap rooms))

(* useRealTimeSync: its effect runs when the hook is mounted, when         *)
(* isConnected changes, and after each rendering of its page, because      *)
(* queryKeysToInvalidate is a new array every time.                        *)
Mount(h) ==
    /\ token # 0 /\ h \notin mounted /\ QueueRoom
    /\ mounted' = mounted \cup {h}
    /\ IF connected THEN Subscribe({Room[h]}) ELSE UNCHANGED <<rooms, socks>>
    /\ UNCHANGED <<token, issued, renders, wsRef, delay, retry, ping, orphans, connected, faults>>

Unmount(h) ==
    /\ h \in mounted /\ QueueRoom
    /\ mounted' = mounted \ {h}
    /\ IF connected THEN Unsubscribe({Room[h]}) ELSE UNCHANGED <<rooms, socks>>
    /\ UNCHANGED <<token, issued, renders, wsRef, delay, retry, ping, orphans, connected, faults>>

EffectAgain(h) ==
    /\ h \in mounted /\ connected /\ QueueRoom
    /\ rooms' = rooms \cup {Room[h]}
    /\ socks' = Sent(Tell("unsubscribe", {Room[h]} \cap rooms)
                     \o Tell("subscribe", {Room[h]}))
    /\ UNCHANGED <<atPage, wsRef, delay, retry, ping, orphans, connected, faults>>

-----------------------------------------------------------------------------
(* The effect of SocketProvider: connect, and the cleanup before it.       *)

(* wsRef.current.close(): its close event is still to come.                *)
ClosedRef ==
    IF IsLive THEN [socks EXCEPT ![wsRef] = [Closed EXCEPT !.tok = socks[wsRef].tok,
                                                           !.page = "closing"]]
    ELSE socks

Cleanup ==
    /\ socks' = ClosedRef
    /\ wsRef' = NoSocket
    /\ retry' = 0
    /\ ping' = NoSocket

(* The effect runs again whenever AuthProvider renders: connect depends on *)
(* refreshUser, which is a new function each time.                         *)
EffectRuns(tok) ==
    /\ Cleanup
    /\ delay' = [delay EXCEPT ![tok] = @ + 1]
    /\ token' = tok
    /\ issued' = IF tok > issued THEN tok ELSE issued
    /\ UNCHANGED <<orphans, connected, rooms, mounted, faults>>

Login ==
    /\ token = 0 /\ issued < MaxTokens
    /\ EffectRuns(issued + 1)
    /\ UNCHANGED renders

(* fetchMe has answered, or the token was refreshed.                       *)
Render ==
    /\ token # 0 /\ renders < MaxRenders
    /\ \E tok \in {token, issued + 1} : tok <= MaxTokens /\ EffectRuns(tok)
    /\ renders' = renders + 1

(* The pages go, the effect is cleaned up, and the second effect clears    *)
(* the rest; connect does nothing without a token.                         *)
Logout ==
    /\ token # 0
    /\ token' = 0
    /\ mounted' = {}
    /\ Cleanup
    /\ rooms' = {}
    /\ connected' = FALSE
    /\ UNCHANGED <<issued, renders, delay, orphans, faults>>

-----------------------------------------------------------------------------
(* Timers.                                                                 *)

(* The timer of connect: guard again, then new WebSocket.                  *)
DelayOver_Unguarded(t) ==
    /\ delay[t] > 0
    /\ delay' = [delay EXCEPT ![t] = @ - 1]
    /\ \E s \in Sockets :
          /\ socks[s].page = "closed"
          /\ socks' = [socks EXCEPT ![s] = [Closed EXCEPT !.tok = t, !.page = "connecting"]]
          /\ wsRef' = s
    /\ UNCHANGED <<atPage, retry, ping, orphans, connected, rooms, faults>>
DelayOver(t) ==
    /\ delay[t] > 0
    /\ delay' = [delay EXCEPT ![t] = @ - 1]
    /\ IF IsLive
       THEN UNCHANGED <<socks, wsRef>>
       ELSE \E s \in Sockets :
               /\ socks[s].page = "closed"
               /\ socks' = [socks EXCEPT ![s] = [Closed EXCEPT !.tok = t, !.page = "connecting"]]
               /\ wsRef' = s
    /\ UNCHANGED <<atPage, retry, ping, orphans, connected, rooms, faults>>

(* connect of the rendering with token t, called by a reconnect timer.     *)
Connect_WhenNone(t) == delay' = IF wsRef # NoSocket THEN delay ELSE [delay EXCEPT ![t] = @ + 1]
Connect(t) == delay' = IF IsLive THEN delay ELSE [delay EXCEPT ![t] = @ + 1]

RetryOver ==
    /\ retry # 0
    /\ retry' = 0
    /\ Connect(retry)
    /\ UNCHANGED <<atPage, socks, wsRef, ping, orphans, connected, rooms, faults>>

OrphanOver(t) ==
    /\ orphans[t] > 0
    /\ orphans' = [orphans EXCEPT ![t] = @ - 1]
    /\ Connect(t)
    /\ UNCHANGED <<atPage, socks, wsRef, retry, ping, connected, rooms, faults>>

-----------------------------------------------------------------------------
(* Events of a socket.                                                     *)

(* onopen: the rooms of before, then those of the hooks that now learn     *)
(* that the page is connected.                                             *)
Open_NewRoomsOnly(s) ==
    LET wanted == IF connected THEN {} ELSE HookRooms
    IN  /\ socks[s].page = "connecting"
        /\ socks' = [socks EXCEPT ![s].page = "open",
                                  ![s].queue = Tell("subscribe", wanted \ rooms)]
        /\ rooms' = rooms \cup wanted
        /\ connected' = TRUE
        /\ ping' = s
        /\ UNCHANGED <<atPage, wsRef, delay, retry, orphans, faults>>
Open(s) ==
    LET wanted == IF connected THEN {} ELSE HookRooms
    IN  /\ socks[s].page = "connecting"
        /\ socks' = [socks EXCEPT ![s].page = "open",
                                  ![s].queue = Tell("subscribe", rooms)
                                               \o Tell("subscribe", wanted \ rooms)]
        /\ rooms' = rooms \cup wanted
        /\ connected' = TRUE
        /\ ping' = s
        /\ UNCHANGED <<atPage, wsRef, delay, retry, orphans, faults>>

(* onclose, of whatever socket: the page is no longer connected, the hooks *)
(* give up their rooms, the interval of pingIntervalRef is cleared, though *)
(* it may ping the socket opened since, and the next attempt is set.       *)
CloseEvent(s) ==
    /\ socks[s].page = "closing" \/ socks[s].lost
    /\ LET gone == IF connected THEN HookRooms ELSE {}
           told == IF wsRef = s THEN socks ELSE Sent(Tell("unsubscribe", gone \cap rooms))
       IN  /\ rooms' = rooms \ gone
           /\ socks' = [told EXCEPT ![s] = Closed]
    /\ connected' = FALSE
    /\ ping' = NoSocket
    /\ retry' = socks[s].tok
    /\ orphans' = IF retry = 0 THEN orphans ELSE [orphans EXCEPT ![retry] = @ + 1]
    /\ UNCHANGED <<atPage, wsRef, delay, faults>>

(* A connection is refused (onerror closes it), or lost: the server        *)
(* restarts or its heartbeat terminates the connection, which the page is  *)
(* told unless the network is gone as well.                                *)
Refused(s) ==
    /\ socks[s].page = "connecting" /\ faults < MaxFaults
    /\ socks' = [socks EXCEPT ![s].page = "closing"]
    /\ faults' = faults + 1
    /\ UNCHANGED <<atPage, wsRef, delay, retry, ping, orphans, connected, rooms>>

Lost(s) ==
    /\ socks[s].page = "open" /\ ~socks[s].lost /\ faults < MaxFaults
    /\ \E told \in BOOLEAN :
          socks' = [socks EXCEPT ![s] = [@ EXCEPT !.lost = TRUE, !.silent = ~told,
                                                  !.rooms = {}, !.queue = <<>>]]
    /\ faults' = faults + 1
    /\ UNCHANGED <<atPage, wsRef, delay, retry, ping, orphans, connected, rooms>>

(* socketService reads a message.                                          *)
Deliver(s) ==
    /\ socks[s].page = "open" /\ ~socks[s].lost /\ socks[s].queue # <<>>
    /\ socks' = [socks EXCEPT ![s].rooms = Joined(@, Head(socks[s].queue)),
                              ![s].queue = Tail(@)]
    /\ UNCHANGED <<atPage, wsRef, delay, retry, ping, orphans, connected, rooms, faults>>

-----------------------------------------------------------------------------
Next ==
    \/ Login \/ Render \/ Logout
    \/ \E h \in Hooks : Mount(h) \/ Unmount(h) \/ EffectAgain(h)
    \/ RetryOver
    \/ \E t \in Tokens : DelayOver(t) \/ OrphanOver(t)
    \/ \E s \in Sockets :
          Open(s) \/ CloseEvent(s) \/ Refused(s) \/ Lost(s) \/ Deliver(s)

Spec == Init /\ [][Next]_vars

(* A browser that has closed a socket or is told of its end reports it; of *)
(* a silent loss it learns when what it sends is not acknowledged: a ping, *)
(* or a message of a hook.  It may learn of one by itself, or never.       *)
Noticed(s) == ~socks[s].silent \/ ping = s \/ socks[s].queue # <<>>

(* The browser fires its timers and reports what happens to a socket, and  *)
(* the server reads what it is sent.  Users do as they like.               *)
Fairness ==
    /\ WF_vars(RetryOver)
    /\ \A t \in Tokens : WF_vars(DelayOver(t)) /\ WF_vars(OrphanOver(t))
    /\ \A s \in Sockets : /\ WF_vars(Open(s)) /\ WF_vars(Deliver(s))
                          /\ WF_vars(Noticed(s) /\ CloseEvent(s))

FairSpec == Spec /\ Fairness

-----------------------------------------------------------------------------
(* Once connections are neither refused nor lost any more, a logged in     *)
(* page gets a socket and keeps it, although timers of earlier tokens and  *)
(* close events of earlier sockets are still to come.  It is a socket that *)
(* works, but for one case: the close event of an earlier socket came late *)
(* enough to stop its ping, the network lost it without a word, and no     *)
(* hook has sent anything since.                                           *)
StaysOnline == <>[](token # 0 => IsOpen /\ (socks[wsRef].lost => ~Noticed(wsRef)))

=============================================================================
