----------------------------- MODULE CollabWire -----------------------------
(***************************************************************************)
(* What crosses the wire of apps/collab: the base-128 frames of            *)
(* protocol.ts, and the answers of server.ts to plain HTTP and to an       *)
(* upgrade.  A frame is a sequence of bytes; a read is a record holding    *)
(* the value and the next position, or Malformed where the code throws a   *)
(* ProtocolError.                                                          *)
(***************************************************************************)
EXTENDS Integers, Sequences, FiniteSetsExt

CONSTANTS
    MaxSafe,    \* Number.MAX_SAFE_INTEGER
    Malformed   \* a ProtocolError

Base == 128
SyncKinds == [sync_step_1 |-> 0, sync_step_2 |-> 1, sync_update |-> 2]
MessageTypes == [sync |-> 0, awareness |-> 1, auth |-> 2, query_awareness |-> 3]

(* Least significant group first; every byte but the last has bit 8 set. *)
WriteVarUint[n \in Nat] ==
    IF n < Base THEN <<n>> ELSE <<Base + (n % Base)>> \o WriteVarUint[n \div Base]

WriteVarUint8Array(bytes) == WriteVarUint[Len(bytes)] \o bytes

(* The first byte without bit 8 ends the number.  Neither the value nor    *)
(* the multiplier of a group may pass MaxSafe.                             *)
ReadVarUint(bytes, at) ==
    LET ends == {i \in at .. Len(bytes) : bytes[i] < Base} IN
    IF ends = {} THEN Malformed
    ELSE LET last == CHOOSE i \in ends : \A j \in ends : i <= j
             value == MapThenSumSet(LAMBDA i : (bytes[i] % Base) * Base^(i - at), at .. last)
         IN  IF Base^(last - at) > MaxSafe \/ value > MaxSafe THEN Malformed
             ELSE [value |-> value, next |-> last + 1]

(* A length that promises more than the frame holds is not read. *)
ReadVarUint8Array(bytes, at) ==
    LET length == ReadVarUint(bytes, at) IN
    IF length = Malformed THEN Malformed
    ELSE IF length.value > Len(bytes) - length.next + 1 THEN Malformed
    ELSE [value |-> SubSeq(bytes, length.next, length.next + length.value - 1),
          next |-> length.next + length.value]

EncodeSync(kind, payload) ==
    WriteVarUint[MessageTypes.sync] \o WriteVarUint[SyncKinds[kind]] \o WriteVarUint8Array(payload)

EncodeAwareness(payload) ==
    WriteVarUint[MessageTypes.awareness] \o WriteVarUint8Array(payload)

Frame(kind, payload) == [kind |-> kind, payload |-> payload]

Payload(kind, read) == IF read = Malformed THEN Malformed ELSE Frame(kind, read.value)

(* An unknown message type is ignored; an unknown sync step is an error.   *)
(* Bytes after the payload are not looked at.                              *)
DecodeFrame(bytes) ==
    LET type == ReadVarUint(bytes, 1) IN
    IF type = Malformed THEN Malformed
    ELSE CASE type.value = MessageTypes.sync ->
                 LET step == ReadVarUint(bytes, type.next) IN
                 IF step = Malformed THEN Malformed
                 ELSE LET kinds == {k \in DOMAIN SyncKinds : SyncKinds[k] = step.value} IN
                      IF kinds = {} THEN Malformed
                      ELSE Payload(CHOOSE k \in kinds : TRUE, ReadVarUint8Array(bytes, step.next))
           [] type.value = MessageTypes.awareness ->
                 Payload("awareness", ReadVarUint8Array(bytes, type.next))
           [] type.value = MessageTypes.query_awareness -> Frame("query_awareness", <<>>)
           [] OTHER -> Frame("ignored", <<>>)

----------------------------------------------------------------------------
(* The HTTP side.  Readiness is refused while draining, before any check   *)
(* is asked; a check that throws has failed.                               *)
ReadyState(draining, checks) == ~draining /\ \A c \in DOMAIN checks : checks[c] = "passed"

HandleHttp(method, path, draining, checks) ==
    IF method \notin {"GET", "HEAD"} THEN 405
    ELSE CASE path \in {"/healthz", "/metrics"} -> 200
           [] path = "/readyz" -> IF ReadyState(draining, checks) THEN 200 ELSE 503
           [] OTHER -> 404

(* The upgrade: the drain first, then the address, then the ticket.  claim *)
(* is only reached by a ticket that verified.                              *)
Handshake(draining, request) ==
    IF draining THEN [status |-> 503, reason |-> "shutting_down"]
    ELSE IF ~(request.prefix = "collab" /\ request.room = "well_formed")
         THEN [status |-> 404, reason |-> "unknown_path"]
    ELSE IF request.ticket = "none" THEN [status |-> 401, reason |-> "no_ticket"]
    ELSE IF request.ticket # "verifies" THEN [status |-> 401, reason |-> request.ticket]
    ELSE IF request.claimed THEN [status |-> 401, reason |-> "replayed"]
    ELSE [status |-> 101, reason |-> "authorised"]

----------------------------------------------------------------------------
(* What is encoded is what is decoded, whatever follows it, and no frame   *)
(* cut short is taken for a message: a truncated step or length never      *)
(* reads as a shorter payload.                                             *)
FramesRoundTrip(payload) ==
    \A kind \in DOMAIN SyncKinds \cup {"awareness"} :
        LET frame == IF kind = "awareness" THEN EncodeAwareness(payload) ELSE EncodeSync(kind, payload)
        IN  /\ DecodeFrame(frame) = Frame(kind, payload)
            /\ DecodeFrame(frame \o payload) = Frame(kind, payload)
            /\ \A n \in 0 .. Len(frame) - 1 : DecodeFrame(SubSeq(frame, 1, n)) = Malformed
=============================================================================
