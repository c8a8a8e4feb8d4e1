---------------------------- MODULE QuestionBank ----------------------------
(***************************************************************************)
(* One question of the bank and its versions (ADR-003): authors, reviewers *)
(* and publishers edit it at once, each request in one audited transaction *)
(* that locks the question's row, reads, decides, writes and commits.      *)
(* Between any two of its statements the other requests run.  A question   *)
(* may also arrive whole, from a bank import.                              *)
(***************************************************************************)
EXTENDS KindContent, Integers, Sequences

CONSTANTS
    Requests,       \* requests on the question
    Ops,            \* what a request may ask for
    Kind,           \* the question's kind, fixed when it is created
    Items,          \* bank items an import may carry
    Importer,       \* who stamps an imported version
    NoOne           \* no lock, not published, not archived

ASSUME BankConstants ==
    /\ Kind \in Kinds
    /\ Importer \notin Requests /\ NoOne \notin Requests \cup {Importer}

VARIABLES
    status,         \* questions.status, or "none" before the row exists
    archived,       \* archived_at: who archived it, or NoOne
    current,        \* current_version_id as a version number, 0 for null
    versions,       \* question_versions by version_no: content and published_at
    lock,           \* the row lock of the question
    pc, op,         \* where each request is, and what it asks for
    seen,           \* the question row as requireQuestion returned it
    base,           \* the version content the request builds on
    number,         \* version_no the request writes
    answer,
    audit,          \* the audit rows that say what the question's row became
    intended        \* what the committed requests made of each version

rowVars == <<status, archived, current, versions, audit, intended>>
requestVars == <<op, seen, base, number>>
vars == <<rowVars, lock, pc, requestVars, answer>>

Statuses == {"draft", "review", "published", "retired"}
Stages == {"idle", "waiting", "locked", "decided", "done"}
NoOp == [kind |-> "none"]

ASSUME ItemsWellFormed ==
    \A item \in Items :
        /\ item.status \in Statuses
        /\ Len(item.versions) \in Nat /\ DOMAIN item.versions = 1 .. Len(item.versions)

(* The statuses a PATCH may name: the request schema's, without "published". *)
ASSUME OpsWellFormed ==
    \A o \in Ops : o.kind = "patch" => o.status \in {"keep", "draft", "review", "retired"}

Edges == [draft |-> {"review"}, review |-> {"draft", "published"},
          published |-> {"published", "retired"}, retired |-> {}]

Init ==
    /\ status = "none" /\ archived = NoOne /\ current = 0
    /\ versions = <<>> /\ audit = <<>> /\ intended = <<>>
    /\ lock = NoOne
    /\ pc = [r \in Requests |-> "idle"]
    /\ op = [r \in Requests |-> NoOp]
    /\ seen = [r \in Requests |-> [status |-> "none", archived |-> NoOne]]
    /\ base = [r \in Requests |-> Blank]
    /\ number = [r \in Requests |-> 0]
    /\ answer = [r \in Requests |-> "none"]

-----------------------------------------------------------------------------
(* How a question comes to be. *)

(* An audit row: the question's status, and whether it is archived, before *)
(* and after.  A payload that does not say has "unsaid".                   *)
Flag(a) == IF a = NoOne THEN "no" ELSE "yes"

Audited(s0, a0, s1, a1) ==
    audit' = Append(audit, [status |-> <<s0, s1>>, archived |-> <<a0, a1>>])

(* POST /questions, in one transaction: an empty draft. *)
CreateQuestion ==
    /\ status = "none"
    /\ status' = "draft"
    /\ Audited("none", "unsaid", "draft", Flag(archived))
    /\ UNCHANGED <<archived, current, versions, intended>>
    /\ UNCHANGED <<lock, pc, requestVars, answer>>

Served(st) == st \in {"published", "retired"}

(* checkBankItem: the lifecycle and the versions agree, and every version  *)
(* meets the bar of its stage.                                             *)
CheckBankItem(item) ==
    /\ item.versions # <<>>
    /\ Served(item.status) <=> \E n \in DOMAIN item.versions : item.versions[n].published
    /\ \A n \in DOMAIN item.versions :
         ValidateKindContent(Kind, ShapeOfBankVersion(item.versions[n].content),
             IF item.versions[n].published THEN "publish" ELSE "draft") = {}

(* The highest of a set of version numbers, 0 if there is none. *)
LastOf(numbers) ==
    IF numbers = {} THEN 0
    ELSE CHOOSE n \in numbers : \A m \in numbers : m <= n

(* importOne: each version is created and, where the item says so,         *)
(* published in turn, and then the status is set, all in one transaction.  *)
ImportQuestion(item) ==
    /\ status = "none"
    /\ CheckBankItem(item)
    /\ versions' = [n \in DOMAIN item.versions |->
         [content |-> item.versions[n].content,
          published |-> IF item.versions[n].published THEN Importer ELSE NoOne]]
    /\ intended' = [n \in DOMAIN item.versions |-> item.versions[n].content]
    /\ current' = LastOf({n \in DOMAIN item.versions : item.versions[n].published})
    /\ status' = item.status
    /\ Audited("none", "unsaid", item.status, "unsaid")
    /\ UNCHANGED <<archived, lock, pc, requestVars, answer>>

-----------------------------------------------------------------------------
(* A request arrives, and waits for the row of the question. *)

Begin(r, o) ==
    /\ pc[r] = "idle"
    /\ op' = [op EXCEPT ![r] = o]
    /\ pc' = [pc EXCEPT ![r] = "waiting"]
    /\ UNCHANGED <<rowVars, lock, seen, base, number, answer>>

End(r, how) ==
    /\ pc' = [pc EXCEPT ![r] = "done"]
    /\ answer' = [answer EXCEPT ![r] = how]

(* requireQuestion's predicate: only PATCH and DELETE of the question see  *)
(* an archived one.                                                        *)
Visible(o) == status # "none" /\ (archived = NoOne \/ o.kind \in {"patch", "delete"})

(* Mutant of RequireQuestion: the row is read without FOR UPDATE. *)
RequireQuestionUnlocked(r) ==
    /\ pc[r] = "waiting"
    /\ Visible(op[r])
    /\ seen' = [seen EXCEPT ![r] = [status |-> status, archived |-> archived]]
    /\ pc' = [pc EXCEPT ![r] = "locked"]
    /\ UNCHANGED <<rowVars, lock, op, base, number, answer>>

RequireQuestion(r) ==
    /\ pc[r] = "waiting" /\ lock = NoOne
    /\ Visible(op[r])
    /\ lock' = r
    /\ seen' = [seen EXCEPT ![r] = [status |-> status, archived |-> archived]]
    /\ pc' = [pc EXCEPT ![r] = "locked"]
    /\ UNCHANGED <<rowVars, op, base, number, answer>>

(* A row the predicate does not admit is not waited for. *)
NotFound(r) ==
    /\ pc[r] = "waiting"
    /\ ~Visible(op[r])
    /\ End(r, "not_found")
    /\ UNCHANGED <<rowVars, lock, requestVars>>

Unlock(r) == lock' = IF lock = r THEN NoOne ELSE lock

(* Any refusal, and any statement that fails, rolls the transaction back. *)
Rollback(r, how) ==
    /\ End(r, how)
    /\ Unlock(r)
    /\ UNCHANGED <<rowVars, requestVars>>

Fails(r) ==
    /\ pc[r] \in {"locked", "decided"}
    /\ Rollback(r, "error")

-----------------------------------------------------------------------------
(* The lifecycle. *)

(* transitionQuestion: the target of each event from each status, or       *)
(* "illegal".                                                              *)
TransitionQuestion(from, event) ==
    IF event = "submit_for_review" /\ from = "draft" THEN "review"
    ELSE IF event = "request_changes" /\ from = "review" THEN "draft"
    ELSE IF event = "publish" /\ from \in {"review", "published"} THEN "published"
    ELSE IF event = "retire" /\ from = "published" THEN "retired"
    ELSE "illegal"

EventForTargetStatus(to) ==
    CASE to = "review" -> "submit_for_review"
      [] to = "retired" -> "retire"
      [] to = "draft" -> "request_changes"

(* The status a PATCH leads to; "keep" names none. *)
TargetStatus(r) ==
    IF op[r].status = "keep" THEN seen[r].status
    ELSE TransitionQuestion(seen[r].status, EventForTargetStatus(op[r].status))

(* archiveQuestion keeps the first instant; restoreQuestion clears it. *)
ArchivedAfter(r, how) ==
    IF how = "no" THEN NoOne
    ELSE IF how = "yes" /\ archived = NoOne THEN r
    ELSE archived

(* Mutant of AuditPatch: the audit payload is taken before the archive or  *)
(* restore has run.                                                        *)
AuditPatchEarly(r) ==
    Audited(seen[r].status, Flag(seen[r].archived), status', Flag(archived))

AuditPatch(r) ==
    Audited(seen[r].status, Flag(seen[r].archived), status', Flag(archived'))

(* PATCH /questions/:id: the status, then the archive flag.                *)
PatchQuestion(r) ==
    /\ pc[r] = "locked" /\ op[r].kind = "patch"
    /\ TargetStatus(r) # "illegal"
    /\ op[r].status = "keep" \/ archived = NoOne
    /\ status' = IF op[r].status = "keep" THEN status ELSE TargetStatus(r)
    /\ archived' = ArchivedAfter(r, op[r].archived)
    /\ AuditPatch(r)
    /\ End(r, "ok") /\ Unlock(r)
    /\ UNCHANGED <<current, versions, intended, requestVars>>

(* An illegal transition is a conflict.  setQuestionStatus does not touch  *)
(* an archived row, and the handler answers not_found.                     *)
RefusePatch(r) ==
    /\ pc[r] = "locked" /\ op[r].kind = "patch" /\ op[r].status # "keep"
    /\ TargetStatus(r) = "illegal" \/ archived # NoOne
    /\ Rollback(r, IF TargetStatus(r) = "illegal" THEN "conflict" ELSE "not_found")

DeleteQuestion(r) ==
    /\ pc[r] = "locked" /\ op[r].kind = "delete"
    /\ archived' = ArchivedAfter(r, "yes")
    /\ Audited(seen[r].status, Flag(seen[r].archived), status, Flag(archived'))
    /\ End(r, "ok") /\ Unlock(r)
    /\ UNCHANGED <<status, current, versions, intended, requestVars>>

-----------------------------------------------------------------------------
(* Versions. *)

(* Mutant of Unpublished: nothing asks. *)
UnpublishedUnasked(n) == n \in DOMAIN versions

(* published_at IS NULL: the handler's check, the WHERE of both UPDATEs    *)
(* and the triggers of migrations 0001 and 0007 ask the same.              *)
Unpublished(n) == versions[n].published = NoOne

Latest == Len(versions)

(* Mutant of BaseOf: an edit is laid over the newest version. *)
BaseOfLatest(r) ==
    IF Latest = 0 THEN Blank ELSE versions[Latest].content

(* What the request's patch is laid over: a new version copies the latest  *)
(* one forward, an edit starts from the version it names.                  *)
BaseOf(r) ==
    IF op[r].kind # "create" THEN versions[op[r].version].content
    ELSE IF Latest = 0 THEN Blank ELSE versions[Latest].content

(* missingFirstVersionFields *)
MissingFirstFields(r) ==
    op[r].kind = "create" /\ Latest = 0 /\ "prompt" \notin DOMAIN op[r].patch

Patched(r) == MergeVersionContent(BaseOf(r), op[r].patch)

(* Mutant of StageOf: publishing asks for no more than a draft. *)
StageOfDraft(o) == "draft"

StageOf(o) == IF o.kind = "publish" THEN "publish" ELSE "draft"

(* The first thing that is wrong with the request, in the handler's order. *)
Verdict(r) ==
    LET o == op[r]
        named == o.kind \in {"edit", "publish"}
        content == IF o.kind = "publish" THEN versions[o.version].content ELSE Patched(r)
    IN
    IF named /\ o.version \notin DOMAIN versions THEN "not_found"
    ELSE IF o.kind = "edit" /\ ~Unpublished(o.version) THEN "version_immutable"
    ELSE IF o.kind = "publish" /\ ~Unpublished(o.version) THEN "conflict"
    ELSE IF o.kind = "publish" /\ TransitionQuestion(seen[r].status, "publish") = "illegal"
      THEN "conflict"
    ELSE IF MissingFirstFields(r) THEN "invalid"
    ELSE IF ValidateKindContent(Kind, ShapeOfContent(content), StageOf(o)) # {} THEN "invalid"
    ELSE "ok"

ReadVersion(r) ==
    /\ pc[r] = "locked" /\ op[r].kind \in {"create", "edit", "publish"}
    /\ Verdict(r) = "ok"
    /\ base' = [base EXCEPT ![r] = BaseOf(r)]
    /\ number' = [number EXCEPT ![r] =
         IF op[r].kind = "create" THEN Latest + 1 ELSE op[r].version]
    /\ pc' = [pc EXCEPT ![r] = "decided"]
    /\ UNCHANGED <<rowVars, lock, op, seen, answer>>

RefuseVersion(r) ==
    /\ pc[r] = "locked" /\ op[r].kind \in {"create", "edit", "publish"}
    /\ Verdict(r) # "ok"
    /\ Rollback(r, Verdict(r))

(* createVersion: the insert meets the unique constraint if its number has *)
(* been taken since it was read.                                           *)
CreateVersion(r) ==
    /\ pc[r] = "decided" /\ op[r].kind = "create"
    /\ IF number[r] = Latest + 1
       THEN /\ versions' = Append(versions,
                 [content |-> MergeVersionContent(base[r], op[r].patch), published |-> NoOne])
            /\ intended' = Append(intended, MergeVersionContent(
                 IF Latest = 0 THEN Blank ELSE intended[Latest], op[r].patch))
            /\ End(r, "ok") /\ Unlock(r)
            /\ UNCHANGED <<status, archived, current, audit, requestVars>>
       ELSE Rollback(r, "unique_violation")

(* updateVersion: no row is left to update if the version has been         *)
(* published since it was read.                                            *)
UpdateVersion(r) ==
    /\ pc[r] = "decided" /\ op[r].kind = "edit"
    /\ IF Unpublished(number[r])
       THEN /\ versions' = [versions EXCEPT ![number[r]].content =
                 MergeVersionContent(base[r], op[r].patch)]
            /\ intended' = [intended EXCEPT ![number[r]] =
                 MergeVersionContent(@, op[r].patch)]
            /\ End(r, "ok") /\ Unlock(r)
            /\ UNCHANGED <<status, archived, current, audit, requestVars>>
       ELSE Rollback(r, "version_immutable")

(* publishVersion stamps the version and moves the pointer; then the       *)
(* question's own transition, where it is one.                             *)
PublishVersion(r) ==
    LET target == TransitionQuestion(seen[r].status, "publish")
        moves == target # seen[r].status
    IN
    /\ pc[r] = "decided" /\ op[r].kind = "publish"
    /\ IF Unpublished(number[r]) /\ (moves => archived = NoOne)
       THEN /\ versions' = [versions EXCEPT ![number[r]].published = r]
            /\ current' = number[r]
            /\ status' = IF moves THEN target ELSE status
            /\ Audited(seen[r].status, "unsaid", target, "unsaid")
            /\ End(r, "ok") /\ Unlock(r)
            /\ UNCHANGED <<archived, intended, requestVars>>
       ELSE Rollback(r, IF Unpublished(number[r]) THEN "not_found" ELSE "conflict")

-----------------------------------------------------------------------------
Handle(r) ==
    \/ RequireQuestion(r) \/ NotFound(r) \/ Fails(r)
    \/ PatchQuestion(r) \/ RefusePatch(r) \/ DeleteQuestion(r)
    \/ ReadVersion(r) \/ RefuseVersion(r)
    \/ CreateVersion(r) \/ UpdateVersion(r) \/ PublishVersion(r)

Next ==
    \/ CreateQuestion
    \/ \E item \in Items : ImportQuestion(item)
    \/ \E r \in Requests : (\E o \in Ops : Begin(r, o)) \/ Handle(r)

Spec == Init /\ [][Next]_vars

-----------------------------------------------------------------------------
(* The inductive invariant.  From the time it has the row to the time it   *)
(* ends, a request holds the lock, and what it has read is still what the  *)
(* row says: nobody else can have written it.  A publish that has been     *)
(* decided on is still legal.                                              *)
ReadsHold ==
    \A r \in Requests : pc[r] \in {"locked", "decided"} =>
        /\ lock = r
        /\ seen[r].status = status /\ seen[r].archived = archived
        /\ status # "none"
        /\ pc[r] = "decided" /\ op[r].kind = "publish" => status \in {"review", "published"}

-----------------------------------------------------------------------------
(* Properties. *)

AsBankItem ==
    [status |-> status,
     versions |-> [n \in DOMAIN versions |->
        [content |-> versions[n].content, published |-> versions[n].published # NoOne]]]

(* What the routes and the importer reach between them stays one bank: a   *)
(* question that has been served has a frozen version to point at, one     *)
(* that has not has none, every frozen version can be graded, and so an    *)
(* export of the question is accepted by the importer again.  A coding     *)
(* question whose fixture is only white space is the exception: the API    *)
(* takes it for none and the importer for one.                             *)
LifecycleMatchesVersions ==
    /\ Served(status) <=> current # 0
    /\ current # 0 => versions[current].published # NoOne
    /\ versions # <<>> => CheckBankItem(AsBankItem)

(* Two reviewers acting at once never write a transition the question's    *)
(* state did not admit: the status only moves along the lifecycle's edges. *)
StatusFollowsLifecycle ==
    [][status # "none" /\ status' # status => status' \in Edges[status]]_vars

(* ADR-003: once published, the content of a version and the instant it    *)
(* was published at never change, and the version is never lost.           *)
FrozenForever ==
    [][\A n \in DOMAIN versions :
         versions[n].published # NoOne =>
            n \in DOMAIN versions' /\ versions'[n] = versions[n]]_vars

(* No author's edit is lost or carried into another version: each version  *)
(* holds what the committed requests, in the order they committed, made of *)
(* it.                                                                     *)
EditsSurvive ==
    \A n \in DOMAIN versions : versions[n].content = intended[n]

(* The audit log replays: every row's before is the row before's after,    *)
(* for the status and for the archived flag, and the last after is what    *)
(* the question's row says now.  A row that is silent about one of the two *)
(* leaves it as the last row that was not silent said.                     *)
Replayed(after, n, first) ==
    LET last == LastOf({m \in 1 .. n : after[m] # "unsaid"})
    IN  IF last = 0 THEN first ELSE after[last]

Chained(before, after, now, first) ==
    /\ \A n \in DOMAIN before : before[n] \in {Replayed(after, n - 1, first), "unsaid"}
    /\ Replayed(after, Len(audit), first) = now

AuditReplays ==
    /\ Chained([n \in DOMAIN audit |-> audit[n].status[1]],
               [n \in DOMAIN audit |-> audit[n].status[2]], status, "none")
    /\ Chained([n \in DOMAIN audit |-> audit[n].archived[1]],
               [n \in DOMAIN audit |-> audit[n].archived[2]], Flag(archived), "no")

(* "an import can never create a question the API would have refused to    *)
(* publish": every published version meets the API's own publish bar.      *)
ImportMeetsPublishBar ==
    \A n \in DOMAIN versions : versions[n].published = Importer =>
        ValidateKindContent(Kind, ShapeOfContent(versions[n].content), "publish") = {}

=============================================================================
