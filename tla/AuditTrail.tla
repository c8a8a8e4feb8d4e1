----------------------------- MODULE AuditTrail -----------------------------
(***************************************************************************)
(* What becomes a row of audit_log: packages/db/src/audit.ts, the request  *)
(* helper of apps/api/src/audit.ts that feeds it, and the table's own      *)
(* CHECK.  An action is its reserved prefix, "" for none, and the rest of  *)
(* its name.  A payload is the keys at each depth, none where a depth      *)
(* holds only arrays, with plain values below the last; its size as JSON,  *)
(* 0 if there is nothing to write; and whether it can be written as JSON   *)
(* at all.  A reason is a number of characters after trimming, of one byte *)
(* each.                                                                   *)
(***************************************************************************)
EXTENDS Absent, Integers, Sequences, FiniteSets

(* Why an entry is refused; one that is not has none of these. *)
REFUSALS ==
    {"action", "entity_type", "entity_id", "reason_length", "reason_required", "prefix",
     "before", "after", "serialise", "size", "at", "ip"}
ASSUME AuditConstants == Missing \notin REFUSALS

REASON_REQUIRED_ACTIONS == {"attempt.void", "attempt.regrade", "score.override"}
RESERVED_PAYLOAD_KEYS == {"reason", "actor_attempt_id"}
SECRET_KEYS == {"password", "token", "cookie", "api_key"}
MAX_REASON_LENGTH == 2000
MAX_PAYLOAD_BYTES == 65536
MAX_PAYLOAD_DEPTH == 12

RequiresReason(action) ==
    \/ action.prefix = "" /\ action.name \in REASON_REQUIRED_ACTIONS
    \/ action.prefix = "job."

(* The two actors without a user row are told apart by the prefix alone. *)
PrefixAllows(actor, prefix) ==
    CASE actor.kind = "staff" -> prefix \notin {"job.", "candidate."}
      [] actor.kind = "candidate" -> prefix = "candidate."
      [] actor.kind = "job" -> prefix = "job."

ActorColumn(actor) == IF actor.kind = "staff" THEN actor.id ELSE Missing

(* The writer's own keys are refused at the top of after; a key whose name *)
(* says it is a secret is refused anywhere.  The first level is depth 0,   *)
(* and the values below the last, which have a depth too, are the deepest. *)
InspectPayload(column, payload) ==
    /\ Len(payload.levels) <= MAX_PAYLOAD_DEPTH
    /\ \A d \in 1 .. Len(payload.levels) : payload.levels[d] \cap SECRET_KEYS = {}
    /\ (column = "after" /\ payload.levels # <<>>) => payload.levels[1] \cap RESERVED_PAYLOAD_KEYS = {}

(* An address the inet column takes: no zone, and one the parser knows. *)
IsAuditableAddress(address) == address.parses /\ ~address.zoned

Nowhere == [parses |-> FALSE, zoned |-> FALSE]

(* X-Forwarded-For is text until it parses; then the socket; then nothing. *)
AuditClientAddress(forwarded, socket) ==
    IF IsAuditableAddress(forwarded) THEN forwarded
    ELSE IF socket # Missing /\ IsAuditableAddress(socket) THEN socket
    ELSE Missing

Size(payload) == IF payload = Missing THEN 0 ELSE payload.bytes
Serialisable(payload) == payload = Missing \/ payload.plain

(* The bytes of the writer's own members, and of an object given one more: *)
(* braces if it had none, a comma if it had.                               *)
REASON_MEMBER == 11
ATTEMPT_MEMBER == 57
Grown(bytes, member) == IF bytes = 0 THEN member + 2 ELSE bytes + member + 1

(* What after takes once the reason and the attempt are in it. *)
MergedSize(entry, reason) ==
    LET explained == IF reason > 0 THEN Grown(Size(entry.after), REASON_MEMBER + reason)
                     ELSE Size(entry.after)
    IN  IF entry.actor.kind = "candidate" THEN Grown(explained, ATTEMPT_MEMBER) ELSE explained

(* prepareAuditEntry: the row, or why there is none.  The caller's payload *)
(* is inspected before the writer's keys are added to it, and measured     *)
(* after.                                                                  *)
PrepareAuditEntry(entry) ==
    LET given == IF entry.reason = Missing THEN 0 ELSE entry.reason
        keys == (IF entry.after = Missing \/ entry.after.levels = <<>> THEN {} ELSE entry.after.levels[1])
                \cup (IF given > 0 THEN {"reason"} ELSE {})
                \cup (IF entry.actor.kind = "candidate" THEN {"actor_attempt_id"} ELSE {})
        Refused(why) == [refused |-> why]
    IN  IF ~entry.action.wellFormed THEN Refused("action")
        ELSE IF ~entry.entityTypeWellFormed THEN Refused("entity_type")
        ELSE IF entry.entityId \notin {Missing, "uuid"} THEN Refused("entity_id")
        ELSE IF given > MAX_REASON_LENGTH THEN Refused("reason_length")
        ELSE IF given = 0 /\ RequiresReason(entry.action) THEN Refused("reason_required")
        ELSE IF ~PrefixAllows(entry.actor, entry.action.prefix) THEN Refused("prefix")
        ELSE IF entry.before # Missing /\ ~InspectPayload("before", entry.before) THEN Refused("before")
        ELSE IF entry.after # Missing /\ ~InspectPayload("after", entry.after) THEN Refused("after")
        ELSE IF ~Serialisable(entry.before) \/ ~Serialisable(entry.after) THEN Refused("serialise")
        ELSE IF Size(entry.before) + MergedSize(entry, given) > MAX_PAYLOAD_BYTES THEN Refused("size")
        ELSE IF entry.at = "invalid" THEN Refused("at")
        ELSE IF entry.ip # Missing /\ ~IsAuditableAddress(entry.ip) THEN Refused("ip")
        ELSE [refused |-> Missing, actorUser |-> ActorColumn(entry.actor), action |-> entry.action,
              reason |-> given, after |-> keys]

(* Only the missing reason is the caller's to fix. *)
AsApiError(refused) == IF refused = "reason_required" THEN "validation_failed" ELSE "internal"

AuditActorFor(principal) ==
    IF principal.kind = "staff" THEN [kind |-> "staff", id |-> principal.user]
    ELSE [kind |-> "candidate", id |-> principal.attempt]

(* amend: what the patch names replaces, what it omits stays. *)
Amended(spec, patch) == Over(patch, spec)

(* request.audited: refuse early, do the work, record what it became, all  *)
(* in one transaction.  call is where the request came from and what the   *)
(* clock said, read once; worked says whether the handler ran to its end;  *)
(* rows is what the transaction leaves in audit_log.                       *)
Audited(principal, spec, call, worked, patch) ==
    IF principal = Missing THEN [status |-> "unauthenticated", committed |-> FALSE, rows |-> {}]
    ELSE LET known == [actor |-> AuditActorFor(principal), at |-> call.at,
                       ip |-> AuditClientAddress(call.forwarded, call.socket)]
             first == PrepareAuditEntry(Over(known, spec))
             final == PrepareAuditEntry(Over(known, Amended(spec, patch)))
             Ended(status, committed, rows) == [status |-> status, committed |-> committed, rows |-> rows]
         IN  IF first.refused # Missing THEN Ended(AsApiError(first.refused), FALSE, {})
             ELSE IF ~worked THEN Ended("threw", FALSE, {})
             ELSE IF final.refused # Missing THEN Ended(AsApiError(final.refused), FALSE, {})
             ELSE Ended("ok", TRUE, {final})

(* The CHECK of the table, and what a reader takes a null actor to mean. *)
TableAccepts(row) ==
    /\ RequiresReason(row.action) => "reason" \in row.after /\ row.reason > 0
    /\ row.actorUser = Missing => row.action.prefix \in {"job.", "candidate."}

(* No row the writer prepares is refused by the table, which would abort   *)
(* the action it records; the work commits exactly with its row; a row     *)
(* without a user says by its prefix, and for a candidate by the attempt,  *)
(* who it was; and no address a client can claim decides whether an action *)
(* takes effect.                                                           *)
RecordOrNothing(principal, spec, call, worked, patch) ==
    LET outcome == Audited(principal, spec, call, worked, patch)
        unplaced == Audited(principal, spec, [call EXCEPT !.forwarded = Nowhere], worked, patch) IN
    /\ outcome.committed <=> outcome.rows # {}
    /\ outcome.committed => worked
    /\ \A row \in outcome.rows :
          /\ TableAccepts(row)
          /\ row.actorUser = Missing => "actor_attempt_id" \in row.after
    /\ unplaced.committed = outcome.committed
=============================================================================
