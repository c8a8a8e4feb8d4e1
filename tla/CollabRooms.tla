---------------------------- MODULE CollabRooms ----------------------------
(***************************************************************************)
(* One interview room of apps/collab: peers that sync a document, drop,    *)
(* come back and are drained.  Rooms are keyed by the ticket's session and *)
(* share nothing, so the model follows one key.  Whether a ticket opens    *)
(* the socket at all is WsTicket's subject.                                *)
(*                                                                         *)
(* A document is the set of edits merged into it and a state vector is     *)
(* that set: merging is union, a diff is set difference (Yjs, external).   *)
(* The client is a stock y-websocket provider, also external.              *)
(***************************************************************************)
EXTENDS Integers, Sequences, FiniteSets

CONSTANTS
    Clients,        \* people in the interview; each makes at most one edit
    MaxConnects,    \* bound on the sockets one client opens
    MaxSockets,     \* bound on the sockets they open together
    MaxEdits,       \* bound on the edits they make together
    MaxOdd,         \* bound on dropped tunnels, presence and stray frames
    MaxReplaced     \* bound on replacements of the process

ASSUME CollabBounds ==
    /\ MaxConnects \in Nat \ {0} /\ MaxSockets \in Nat
    /\ MaxEdits \in Nat /\ MaxOdd \in Nat /\ MaxReplaced \in Nat

(* A connection is a client and which of its sockets this is. *)
Conns == Clients \X (1 .. MaxConnects)
Owner(c) == c[1]

VARIABLES
    sock,           \* each connection: state, queues both ways, alive, mute
    cur,            \* the connection each client believes it has, 0 if none
    used,           \* connections each client has opened
    docs,           \* each client's copy of the document
    room,           \* the room's document, peers, awareness and reaper
    connections,    \* the server's set of connections
    stage,          \* serving, closing, cutting or stopped
    odd, replaced   \* counters behind the bounds

collabVars == <<sock, cur, used, docs, room, connections, stage, odd, replaced>>

Unopened == [st |-> "none", up |-> <<>>, down |-> <<>>, alive |-> TRUE, mute |-> FALSE]
NoRoom == [held |-> FALSE, doc |-> {}, peers |-> {}, aware |-> {}, reaper |-> FALSE, joined |-> FALSE]

CollabInit ==
    /\ sock = [c \in Conns |-> Unopened]
    /\ cur = [p \in Clients |-> 0]
    /\ used = [p \in Clients |-> 0]
    /\ docs = [p \in Clients |-> {}]
    /\ room = NoRoom
    /\ connections = {}
    /\ stage = "serving"
    /\ odd = 0 /\ replaced = 0

Step1(have) == [kind |-> "sync_step_1", edits |-> have]
Step2(missing) == [kind |-> "sync_step_2", edits |-> missing]
Update(edits) == [kind |-> "sync_update", edits |-> edits]
Bare(kind) == [kind |-> kind, edits |-> {}]
OddKinds == {"text", "undecodable", "ignored", "query_awareness"}

(* PeerConnection.send: nothing goes to a socket that is not OPEN, and     *)
(* what is sent to a client that has vanished is never read.               *)
Sent(s, frames) ==
    IF s.st = "open" /\ ~s.mute THEN [s EXCEPT !.down = @ \o frames] ELSE s

Broadcast(socks, origin, frame) ==
    [c \in Conns |-> IF c \in room.peers \ {origin} THEN Sent(socks[c], <<frame>>) ELSE socks[c]]

AwarenessOfOthers(c) ==
    [n \in 1 .. Cardinality(room.aware \ {c}) |-> Bare("awareness")]

----------------------------------------------------------------------------
Fresh(p) ==
    /\ cur[p] = 0 /\ used[p] < MaxConnects
    /\ Cardinality({c \in Conns : sock[c].st # "none"}) < MaxSockets
    /\ used' = [used EXCEPT ![p] = @ + 1]

Odd == odd < MaxOdd /\ odd' = odd + 1

(* The handshake.  authorise is consulted first; the upgrade and accept    *)
(* that follow it run in the same turn.                                    *)
Accept(p) ==
    LET c == <<p, used[p] + 1>> IN
    /\ stage = "serving" /\ Fresh(p)
    /\ cur' = [cur EXCEPT ![p] = used[p] + 1]
    /\ connections' = connections \cup {c}
    /\ room' = [room EXCEPT !.held = TRUE, !.reaper = FALSE, !.joined = TRUE, !.peers = @ \cup {c}]
    /\ sock' = [sock EXCEPT ![c] =
                   [Unopened EXCEPT !.st = "open", !.up = <<Step1(docs[p])>>,
                                    !.down = <<Step1(room.doc)>> \o AwarenessOfOthers(c)]]
    /\ UNCHANGED <<docs, stage, odd, replaced>>

(* While draining every upgrade is answered 503 and opens no socket. *)
RefuseUpgrade(p) ==
    /\ stage # "serving" /\ Fresh(p)
    /\ sock' = [sock EXCEPT ![<<p, used[p] + 1>>].st = "refused"]
    /\ UNCHANGED <<cur, docs, room, connections, stage, odd, replaced>>

----------------------------------------------------------------------------
(* The client's half. *)
Talking(p) == cur[p] # 0 /\ sock[<<p, cur[p]>>].st = "open"
Line(p) == <<p, cur[p]>>
Says(p, frame) == sock' = [sock EXCEPT ![Line(p)].up = Append(@, frame)]

Edit(p) ==
    /\ p \notin docs[p] /\ Cardinality({q \in Clients : q \in docs[q]}) < MaxEdits
    /\ docs' = [docs EXCEPT ![p] = @ \cup {p}]
    /\ IF Talking(p) THEN Says(p, Update({p})) ELSE UNCHANGED sock
    /\ UNCHANGED <<cur, used, room, connections, stage, odd, replaced>>

ShowPresence(p) ==
    /\ Talking(p) /\ Line(p) \notin room.aware
    /\ Odd
    /\ Says(p, Bare("awareness"))
    /\ UNCHANGED <<cur, used, docs, room, connections, stage, replaced>>

SayOdd(p, kind) ==
    /\ Talking(p) /\ Odd
    /\ Says(p, Bare(kind))
    /\ UNCHANGED <<cur, used, docs, room, connections, stage, replaced>>

ClientReads(p) ==
    /\ cur[p] # 0 /\ sock[Line(p)].down # <<>>
    /\ LET frame == Head(sock[Line(p)].down)
           rest == [sock[Line(p)] EXCEPT !.down = Tail(@)]
       IN  /\ sock' = [sock EXCEPT ![Line(p)] =
                  IF frame.kind = "sync_step_1"
                  THEN [rest EXCEPT !.up = Append(@, Step2(docs[p] \ frame.edits))]
                  ELSE rest]
           /\ docs' = [docs EXCEPT ![p] = IF frame.kind = "sync_step_1" THEN @ ELSE @ \cup frame.edits]
    /\ UNCHANGED <<cur, used, room, connections, stage, odd, replaced>>

(* A lid closes or a tunnel drops: no close frame, frames in transit lost. *)
Vanish(p) ==
    /\ cur[p] # 0 /\ Odd
    /\ sock' = [sock EXCEPT ![Line(p)].mute = TRUE, ![Line(p)].up = <<>>, ![Line(p)].down = <<>>]
    /\ cur' = [cur EXCEPT ![p] = 0]
    /\ UNCHANGED <<used, docs, room, connections, stage, replaced>>

----------------------------------------------------------------------------
(* handleFrame: the switch over what decodeFrame returned, the text frame  *)
(* before it and the catch after it.  A closing socket still delivers.     *)

(* Mutant of Sync: the peers are not told. *)
SyncQuietly(c, frame) == /\ room' = [room EXCEPT !.doc = @ \cup frame.edits]
                         /\ sock' = [sock EXCEPT ![c].up = Tail(@)]

Sync(c, frame) == /\ room' = [room EXCEPT !.doc = @ \cup frame.edits]
                  /\ sock' = Broadcast([sock EXCEPT ![c].up = Tail(@)], c, Update(frame.edits))

AnswerStep1(c, frame) ==
    /\ sock' = [sock EXCEPT ![c] = Sent([sock[c] EXCEPT !.up = Tail(@)], <<Step2(room.doc \ frame.edits)>>)]
    /\ UNCHANGED room

RelayAwareness(c, frame) ==
    /\ room' = [room EXCEPT !.aware = @ \cup {c}]
    /\ sock' = Broadcast([sock EXCEPT ![c].up = Tail(@)], c, frame)

AnswerQuery(c) ==
    /\ sock' = [sock EXCEPT ![c] = Sent([sock[c] EXCEPT !.up = Tail(@)], AwarenessOfOthers(c))]
    /\ UNCHANGED room

Drop(c, closes) ==
    /\ sock' = [sock EXCEPT ![c] = [sock[c] EXCEPT !.up = Tail(@),
                                                   !.st = IF closes THEN "closing" ELSE @]]
    /\ UNCHANGED room

HandleFrame(c) ==
    /\ sock[c].st \in {"open", "closing"} /\ sock[c].up # <<>>
    /\ LET frame == Head(sock[c].up) IN
       \/ frame.kind = "sync_step_1" /\ AnswerStep1(c, frame)
       \/ frame.kind \in {"sync_step_2", "sync_update"} /\ Sync(c, frame)
       \/ frame.kind = "awareness" /\ RelayAwareness(c, frame)
       \/ frame.kind = "query_awareness" /\ AnswerQuery(c)
       \/ frame.kind = "ignored" /\ Drop(c, FALSE)
       \/ frame.kind \in {"text", "undecodable"} /\ Drop(c, TRUE)
    /\ UNCHANGED <<cur, used, docs, connections, stage, odd, replaced>>

(* detach: an emptied room keeps its document until the reaper fires. *)
Detached(c) ==
    LET left == room.peers \ {c} IN
    [room EXCEPT !.peers = left, !.aware = @ \ {c}, !.reaper = @ \/ left = {}]

(* The 'close' event: after a terminate, or when a client answers a close  *)
(* frame.                                                                  *)
CloseEvent(c) ==
    /\ sock[c].st = "terminated" \/ (sock[c].st = "closing" /\ ~sock[c].mute)
    /\ sock' = [sock EXCEPT ![c] = [Unopened EXCEPT !.st = "closed"]]
    /\ cur' = [cur EXCEPT ![Owner(c)] = IF @ = c[2] THEN 0 ELSE @]
    /\ connections' = connections \ {c}
    /\ room' = Detached(c)
    /\ UNCHANGED <<used, docs, stage, odd, replaced>>

(* The timer set by detach: release drops the room if it is still empty. *)
ReapRoom ==
    /\ room.reaper
    /\ room' = IF room.peers = {} THEN NoRoom ELSE [room EXCEPT !.reaper = FALSE]
    /\ UNCHANGED <<sock, cur, used, docs, connections, stage, odd, replaced>>

(* One heartbeat: cut whoever did not answer the last ping, ping the rest. *)
(* A pong that arrives before the next heartbeat is part of this step; a   *)
(* live client that is late with it is one of the bounded oddities.        *)
Heartbeat(late) ==
    /\ stage = "serving"
    /\ late \subseteq {c \in connections : sock[c].alive /\ ~sock[c].mute}
    /\ IF late = {} THEN UNCHANGED odd ELSE Odd
    /\ sock' = [c \in Conns |->
           IF c \notin connections THEN sock[c]
           ELSE IF ~sock[c].alive THEN [sock[c] EXCEPT !.st = "terminated", !.down = <<>>]
           ELSE [sock[c] EXCEPT !.alive = ~sock[c].mute /\ c \notin late]]
    /\ UNCHANGED <<cur, used, docs, room, connections, stage, replaced>>

----------------------------------------------------------------------------
(* close(): refuse newcomers, say 1001, wait for the closes or the grace   *)
(* timer, cut the rest, wait for their 'close' events, drop the rooms.     *)
DrainRooms ==
    /\ stage = "serving"
    /\ stage' = "closing"
    /\ sock' = [c \in Conns |-> IF c \in connections /\ sock[c].st = "open"
                                THEN [sock[c] EXCEPT !.st = "closing"] ELSE sock[c]]
    /\ UNCHANGED <<cur, used, docs, room, connections, odd, replaced>>

(* Mutant of CutTheRest: the sockets that did not close are left open. *)
CutNobody ==
    /\ stage = "closing"
    /\ stage' = "cutting"
    /\ connections' = {}
    /\ UNCHANGED <<sock, cur, used, docs, room, odd, replaced>>

(* The race is over: either every socket closed or the grace ran out. *)
CutTheRest ==
    /\ stage = "closing"
    /\ stage' = "cutting"
    /\ sock' = [c \in Conns |-> IF c \in connections
                                THEN [sock[c] EXCEPT !.st = "terminated"] ELSE sock[c]]
    /\ connections' = {}
    /\ UNCHANGED <<cur, used, docs, room, odd, replaced>>

Stop ==
    /\ stage = "cutting"
    /\ \A c \in Conns : sock[c].st \in {"none", "refused", "closed"}
    /\ stage' = "stopped"
    /\ room' = NoRoom
    /\ UNCHANGED <<sock, cur, used, docs, connections, odd, replaced>>

(* The orchestrator starts the replacement; clients reconnect to it. *)
Replace ==
    /\ stage = "stopped" /\ replaced < MaxReplaced
    /\ replaced' = replaced + 1
    /\ stage' = "serving"
    /\ UNCHANGED <<sock, cur, used, docs, room, connections, odd>>

CollabNext ==
    \/ \E p \in Clients : \/ Accept(p) \/ RefuseUpgrade(p) \/ Edit(p) \/ ShowPresence(p)
                          \/ \E kind \in OddKinds : SayOdd(p, kind)
                          \/ ClientReads(p) \/ Vanish(p)
    \/ \E c \in Conns : HandleFrame(c) \/ CloseEvent(c)
    \/ \E late \in SUBSET Conns : Heartbeat(late)
    \/ ReapRoom \/ DrainRooms \/ CutTheRest \/ Stop \/ Replace

CollabSpec == CollabInit /\ [][CollabNext]_collabVars

(* The event loop turns: timers fire and pending events are delivered.     *)
(* Nothing is assumed of the clients.                                      *)
CollabFairness ==
    /\ WF_collabVars(Heartbeat({}))
    /\ WF_collabVars(CutTheRest)
    /\ WF_collabVars(Stop)
    /\ \A c \in Conns : WF_collabVars(CloseEvent(c)) /\ WF_collabVars(HandleFrame(c))

----------------------------------------------------------------------------
(* Two people who are connected with nothing in transit look at the same   *)
(* text, the room's, whatever was edited while either was away, whoever    *)
(* joined in between, and whichever process holds the room.                *)
SyncedPeersAgree ==
    \A p \in Clients :
        (Talking(p) /\ sock[Line(p)].up = <<>> /\ sock[Line(p)].down = <<>>)
            => docs[p] = room.doc

(* A socket whose client is gone without a close frame does not hold its   *)
(* place in the room, and close() finishes, with every socket closed and   *)
(* the room dropped, even when no client answers.                          *)
SilentPeersLeave ==
    /\ \A c \in Conns : (sock[c].mute /\ c \in room.peers) ~> (c \notin room.peers)
    /\ (stage = "closing") ~> (stage = "stopped" /\ connections = {} /\ ~room.held)
=============================================================================
