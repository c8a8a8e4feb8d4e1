--------------------------- MODULE Clients_proofs ---------------------------
(***************************************************************************)
(* Proofs about what runs in browsers and what serves them: staff sessions *)
(* (any users and tabs), interview rooms (any clients), the candidate's    *)
(* countdown and announcements (any deadline, thresholds and gaps) and the *)
(* question editor (any number of authors), for any bounds.                *)
(***************************************************************************)
EXTENDS StaffAccess, CollabRooms, CandidateShell, QuestionEditor,
        FiniteSetTheorems, SequenceTheorems, TLAPS

(***************************************************************************)
(* Staff requests.  What a check finds is compared with what was true when *)
(* the request left the browser, so the invariant says of every request in *)
(* flight what its next check could still find.                            *)
(***************************************************************************)
Kinds == {"me", "logout", "write", "login", "callback"}

(* The tokens that open a session now, and those whose user has the        *)
(* permission now.                                                         *)
Opening == {t \in 1 .. minted : Live(t)}
Granting == {t \in Opening : store[t].user \in grants}

(* A request the server has not answered, with n tokens minted, the tokens *)
(* L opening a session, those in H one whose user has the permission, and  *)
(* the users G having it.                                                  *)
Pending(r, n, L, H, G) ==
    /\ DOMAIN r = {"kind", "arg", "at", "cookie", "csrf", "oidc", "user", "sets", "live", "held"}
    /\ r.kind \in Kinds
    /\ r.kind = "login" => r.arg \in Users
    /\ r.at \in {"sent", "identified", "admitted"}
    /\ r.cookie # Missing => r.cookie \in 1 .. n
    /\ r.at = "sent" => (r.cookie \in L => r.live = TRUE) /\ (r.cookie \in H => r.held = TRUE)
    /\ r.at # "sent" => r.cookie # Missing /\ r.live = TRUE
    /\ r.at = "identified" /\ r.user \in G => r.held = TRUE
    /\ r.at = "admitted" /\ r.kind = "write" => r.held = TRUE

(* An answer on its way to the tab, with n tokens minted: a sign-in sets a *)
(* session and its token, a page load the token of the session it came     *)
(* with, a redirect at most a session, anything else nothing.              *)
Replied(r, n) ==
    /\ DOMAIN r = {"kind", "at", "cookie", "sets"}
    /\ r.kind \in Kinds
    /\ r.at = "answered"
    /\ r.cookie # Missing => r.cookie \in 1 .. n
    /\ r.sets.status \in {"refused", "done", "profile", "signed_out", "redirect"}
    /\ r.sets.session # Missing => r.sets.session \in 1 .. n
    /\ r.sets.status = "profile" =>
          \/ r.kind = "login" /\ r.sets.session # Missing /\ r.sets.csrf = Csrf(r.sets.session)
          \/ r.kind = "me" /\ r.sets.session = Missing /\ r.cookie # Missing /\ r.sets.csrf = Csrf(r.cookie)
    /\ r.sets.status # "profile" => r.sets.csrf = Missing
    /\ r.sets.status \notin {"profile", "redirect"} => r.sets.session = Missing
    /\ r.sets.status = "redirect" => r.kind = "callback"
    /\ r.sets.status = "signed_out" => r.kind = "logout"

Fits(r, n, L, H, G) == r = Idle \/ Pending(r, n, L, H, G) \/ Replied(r, n)

StaffTypes ==
    /\ clock \in Nat
    /\ minted \in 0 .. MaxTokens
    /\ store \in [Tokens -> [user : Users \cup {Missing}, expires : Nat, renewed : Nat]]
    /\ DOMAIN jar = {"session", "dies", "csrf", "oidc"}
    /\ jar.session # Missing => jar.session \in 1 .. minted
    /\ DOMAIN reqs = Tabs

RequestsFit == \A tab \in Tabs : Fits(reqs[tab], minted, Opening, Granting, grants)

StaffInv == StaffTypes /\ RequestsFit /\ exercised \subseteq {[live |-> TRUE, held |-> TRUE]}

(* A request goes on fitting when tokens are minted and sessions end: no   *)
(* token it could carry begins to open a session it did not open before.   *)
LEMMA FitsOn ==
    ASSUME NEW r, NEW n \in Nat, NEW m \in Nat, n <= m,
           NEW L, NEW K, NEW H, NEW J, NEW G,
           Fits(r, n, L, H, G),
           \A t \in 1 .. n : (t \in K => t \in L) /\ (t \in J => t \in H),
           \A t \in K \cup J : t # Missing
    PROVE  Fits(r, m, K, J, G)
<1>1. CASE r = Idle
  BY <1>1 DEF Fits
<1>2. CASE Pending(r, n, L, H, G)
  <2>1. r.cookie # Missing => r.cookie \in 1 .. m
    BY <1>2 DEF Pending
  <2>2. r.cookie \in K => r.cookie \in L
    BY <1>2 DEF Pending
  <2>3. r.cookie \in J => r.cookie \in H
    BY <1>2 DEF Pending
  <2> QED
    BY <1>2, <2>1, <2>2, <2>3 DEF Pending, Fits
<1>3. CASE Replied(r, n)
  <2>1. /\ r.cookie # Missing => r.cookie \in 1 .. m
        /\ r.sets.session # Missing => r.sets.session \in 1 .. m
    BY <1>3 DEF Replied
  <2> QED
    BY <1>3, <2>1 DEF Replied, Fits
<1> QED
  BY <1>1, <1>2, <1>3 DEF Fits

(* A step that answers or moves on one request, and otherwise only mints a *)
(* token, ends a session or lets time pass, leaves the other requests      *)
(* fitting.                                                                *)
LEMMA OthersFit ==
    ASSUME StaffInv, StaffTypes', NEW tab \in Tabs,
           grants' = grants, minted <= minted',
           \A t \in 1 .. minted : (t \in Opening' => t \in Opening) /\ (t \in Granting' => t \in Granting),
           \A other \in Tabs \ {tab} : reqs'[other] = reqs[other],
           Fits(reqs'[tab], minted', Opening', Granting', grants')
    PROVE  RequestsFit'
<1>1. minted \in Nat /\ minted' \in Nat
  BY StaffConstants DEF StaffInv, StaffTypes
<1>2. \A t \in Opening' \cup Granting' : t # Missing
  BY DEF Opening, Granting, Live
<1>3. ASSUME NEW other \in Tabs \ {tab}
      PROVE  Fits(reqs'[other], minted', Opening', Granting', grants')
  <2>1. Fits(reqs[other], minted, Opening, Granting, grants)
    BY DEF StaffInv, RequestsFit
  <2>2. Fits(reqs[other], minted', Opening', Granting', grants)
    BY <1>1, <1>2, <2>1, FitsOn
  <2> QED
    BY <2>2
<1> QED
  BY <1>3 DEF RequestsFit

(* What opens a session is not widened by a step that leaves the store and *)
(* the roles alone while the clock does not go back.                       *)
LEMMA SameStore ==
    ASSUME StaffTypes, StaffTypes', UNCHANGED <<store, grants, minted>>, clock <= clock'
    PROVE  \A t \in 1 .. minted : (t \in Opening' => t \in Opening) /\ (t \in Granting' => t \in Granting)
<1> SUFFICES ASSUME NEW t \in 1 .. minted
             PROVE  (t \in Opening' => t \in Opening) /\ (t \in Granting' => t \in Granting)
  OBVIOUS
<1>1. t \in Tokens /\ minted' = minted
  BY StaffConstants DEF StaffTypes, Tokens
<1>2. store[t].expires \in Nat /\ clock \in Nat /\ clock' \in Nat
  BY <1>1 DEF StaffTypes
<1>3. Live(t)' => Live(t)
  BY <1>2 DEF Live
<1> QED
  BY <1>1, <1>3 DEF Opening, Granting

(* Nor by minting a token, which is a new one.                             *)
LEMMA MintedStore ==
    ASSUME StaffTypes, NEW user \in Users, Mint(user), UNCHANGED <<clock, grants>>
    PROVE  /\ minted' \in 0 .. MaxTokens /\ minted' = minted + 1
           /\ store' \in [Tokens -> [user : Users \cup {Missing}, expires : Nat, renewed : Nat]]
           /\ \A t \in 1 .. minted : (t \in Opening' => t \in Opening) /\ (t \in Granting' => t \in Granting)
<1>1. minted' \in 0 .. MaxTokens /\ minted' = minted + 1 /\ minted + 1 \in Tokens
  BY StaffConstants DEF StaffTypes, Mint, Tokens
<1>2. [user |-> user, expires |-> clock + SessionTTL, renewed |-> clock]
         \in [user : Users \cup {Missing}, expires : Nat, renewed : Nat]
  BY StaffConstants DEF StaffTypes
<1>3. store' \in [Tokens -> [user : Users \cup {Missing}, expires : Nat, renewed : Nat]]
  BY <1>1, <1>2 DEF StaffTypes, Mint
<1>4. ASSUME NEW t \in 1 .. minted
      PROVE  (t \in Opening' => t \in Opening) /\ (t \in Granting' => t \in Granting)
  <2>1. store'[t] = store[t]
    BY <1>1 DEF StaffTypes, Mint, Tokens
  <2>2. Live(t)' <=> Live(t)
    BY <2>1 DEF Live
  <2> QED
    BY <2>1, <2>2 DEF Opening, Granting
<1> QED
  BY <1>1, <1>3, <1>4

(* A request that carries a sent, identified or admitted mark is pending.  *)
LEMMA PendingNow ==
    ASSUME StaffInv, NEW tab \in Tabs, reqs[tab] # Idle,
           reqs[tab].at \in {"sent", "identified", "admitted"}
    PROVE  Pending(reqs[tab], minted, Opening, Granting, grants)
BY DEF StaffInv, RequestsFit, Fits, Replied

(* Whatever has a kind other than "idle" is not Idle. *)
LEMMA NotIdle ==
    ASSUME NEW tab \in Tabs, reqs[tab].kind # "idle"
    PROVE  reqs[tab] # Idle
BY DEF Idle

(* Answering a pending request leaves an answer, and the other requests    *)
(* alone, when what the answer sets is what its status allows.             *)
LEMMA AnswerFits ==
    ASSUME StaffInv, NEW tab \in Tabs, NEW sets, Answer(tab, sets),
           Pending(reqs[tab], minted, Opening, Granting, grants),
           minted' \in Nat, minted <= minted',
           sets.status \in {"refused", "done", "profile", "signed_out", "redirect"},
           sets.session # Missing => sets.session \in 1 .. minted',
           sets.status = "profile" =>
              \/ reqs[tab].kind = "login" /\ sets.session # Missing /\ sets.csrf = Csrf(sets.session)
              \/ /\ reqs[tab].kind = "me" /\ sets.session = Missing /\ reqs[tab].cookie # Missing
                 /\ sets.csrf = Csrf(reqs[tab].cookie),
           sets.status # "profile" => sets.csrf = Missing,
           sets.status \notin {"profile", "redirect"} => sets.session = Missing,
           sets.status = "redirect" => reqs[tab].kind = "callback",
           sets.status = "signed_out" => reqs[tab].kind = "logout"
    PROVE  /\ DOMAIN reqs' = Tabs
           /\ \A other \in Tabs \ {tab} : reqs'[other] = reqs[other]
           /\ Fits(reqs'[tab], minted', Opening', Granting', grants')
<1> DEFINE old == reqs[tab]
<1> DEFINE new == [kind |-> old.kind, at |-> "answered", cookie |-> old.cookie, sets |-> sets]
<1>1. reqs'[tab] = new /\ DOMAIN reqs' = Tabs /\ \A other \in Tabs \ {tab} : reqs'[other] = reqs[other]
  BY DEF StaffInv, StaffTypes, Answer
<1>2. minted \in Nat
  BY DEF StaffInv, StaffTypes
<1>3. old.kind \in Kinds /\ (old.cookie # Missing => old.cookie \in 1 .. minted')
  BY <1>2 DEF Pending
<1>4. /\ DOMAIN new = {"kind", "at", "cookie", "sets"}
      /\ new.kind = old.kind /\ new.at = "answered" /\ new.cookie = old.cookie /\ new.sets = sets
  OBVIOUS
<1> HIDE DEF new
<1>5. Replied(new, minted')
  BY <1>3, <1>4 DEF Replied
<1> QED
  BY <1>1, <1>5 DEF Fits

(* A refusal sets nothing. *)
LEMMA RefusalFits ==
    ASSUME StaffInv, NEW tab \in Tabs, Answer(tab, Refusal),
           Pending(reqs[tab], minted, Opening, Granting, grants),
           minted' \in Nat, minted <= minted'
    PROVE  /\ DOMAIN reqs' = Tabs
           /\ \A other \in Tabs \ {tab} : reqs'[other] = reqs[other]
           /\ Fits(reqs'[tab], minted', Opening', Granting', grants')
<1>1. Refusal.status = "refused" /\ Refusal.session = Missing /\ Refusal.csrf = Missing
  BY DEF Refusal
<1> HIDE DEF Refusal
<1> QED
  BY <1>1, AnswerFits

(* An identified request was live when it was sent, and held the permission *)
(* then or since if its user has it now: the store that identified it       *)
(* opened no session the request's cookie did not open all along.           *)
LEMMA IdentifyStep ==
    ASSUME StaffInv, NEW tab \in Tabs, Identify(tab)
    PROVE  StaffInv'
<1> USE StaffConstants
<1> DEFINE r == reqs[tab]
<1>1. Pending(r, minted, Opening, Granting, grants) /\ r.at = "sent" /\ r.cookie \in 1 .. minted \cup {Missing}
  <2>1. r # Idle
    BY NotIdle DEF Identify
  <2>2. r.at = "sent"
    BY DEF Identify
  <2> QED
    BY <2>1, <2>2, PendingNow DEF Pending
<1>2. Live(r.cookie) => r.cookie \in Tokens /\ r.cookie \in 1 .. minted /\ r.cookie \in Opening
  BY <1>1 DEF Live, Opening, Tokens, StaffInv, StaffTypes
<1>3. /\ store' \in [Tokens -> [user : Users \cup {Missing}, expires : Nat, renewed : Nat]]
      /\ \A t \in Tokens : store'[t].user = store[t].user /\ (store'[t].expires > clock => store[t].expires > clock)
  <2>1. CASE Live(r.cookie) /\ clock >= store[r.cookie].renewed + UpdateAge
    <3>1. store' = [store EXCEPT ![r.cookie].expires = clock + SessionTTL, ![r.cookie].renewed = clock]
      BY <2>1 DEF Identify, Touched
    <3>2. /\ store[r.cookie].expires > clock
          /\ store[r.cookie] \in [user : Users \cup {Missing}, expires : Nat, renewed : Nat]
          /\ clock \in Nat /\ clock + SessionTTL \in Nat
      BY <1>2, <2>1 DEF Live, StaffInv, StaffTypes
    <3>3. store'[r.cookie] = [user |-> store[r.cookie].user, expires |-> clock + SessionTTL, renewed |-> clock]
      BY <1>2, <2>1, <3>1, <3>2 DEF StaffInv, StaffTypes
    <3>4. \A t \in Tokens \ {r.cookie} : store'[t] = store[t]
      BY <3>1 DEF StaffInv, StaffTypes
    <3>5. DOMAIN store' = Tokens /\ store' = [t \in Tokens |-> store'[t]]
      BY <3>1 DEF StaffInv, StaffTypes
    <3>6. \A t \in Tokens : store'[t] \in [user : Users \cup {Missing}, expires : Nat, renewed : Nat]
      BY <3>2, <3>3, <3>4 DEF StaffInv, StaffTypes
    <3> QED
      BY <3>2, <3>3, <3>4, <3>5, <3>6
  <2>2. CASE ~(Live(r.cookie) /\ clock >= store[r.cookie].renewed + UpdateAge)
    BY <2>2 DEF Identify, Touched, StaffInv, StaffTypes
  <2> QED
    BY <2>1, <2>2
<1>4. UNCHANGED <<clock, grants, minted, jar, exercised>>
  BY DEF Identify
<1>5. /\ \A t \in 1 .. minted : (t \in Opening' => t \in Opening) /\ (t \in Granting' => t \in Granting)
      /\ minted \in Nat
  <2> SUFFICES ASSUME NEW t \in 1 .. minted
               PROVE  (t \in Opening' => t \in Opening) /\ (t \in Granting' => t \in Granting)
    BY DEF StaffInv, StaffTypes
  <2>1. t \in Tokens
    BY DEF StaffInv, StaffTypes, Tokens
  <2>2. Live(t)' => Live(t)
    BY <1>3, <1>4, <2>1 DEF Live
  <2> QED
    BY <1>3, <1>4, <2>1, <2>2 DEF Opening, Granting
<1>6. /\ DOMAIN reqs' = Tabs
      /\ \A other \in Tabs \ {tab} : reqs'[other] = reqs[other]
      /\ Fits(reqs'[tab], minted', Opening', Granting', grants')
  <2>1. CASE ~Live(r.cookie)
    BY <1>1, <1>4, <1>5, <2>1, RefusalFits DEF Identify
  <2>2. CASE Live(r.cookie)
    <3>1. reqs' = [reqs EXCEPT ![tab].at = "identified", ![tab].user = store[r.cookie].user]
      BY <2>2 DEF Identify
    <3>2. /\ DOMAIN reqs' = Tabs /\ \A other \in Tabs \ {tab} : reqs'[other] = reqs[other]
          /\ reqs'[tab] = [r EXCEPT !.at = "identified", !.user = store[r.cookie].user]
      BY <3>1 DEF StaffInv, StaffTypes
    <3> DEFINE new == [r EXCEPT !.at = "identified", !.user = store[r.cookie].user]
    <3>3. /\ DOMAIN new = DOMAIN r /\ new.kind = r.kind /\ new.arg = r.arg /\ new.cookie = r.cookie
          /\ new.live = r.live /\ new.held = r.held
          /\ new.at = "identified" /\ new.user = store[r.cookie].user
      BY <1>1 DEF Pending
    <3>4. r.cookie # Missing /\ r.live = TRUE
      BY <1>1, <1>2, <2>2 DEF Live, Pending
    <3>5. store[r.cookie].user \in grants => r.held = TRUE
      BY <1>1, <1>2, <2>2 DEF Pending, Granting
    <3> HIDE DEF new
    <3>6. Pending(new, minted, Opening', Granting', grants)
      BY <1>1, <3>3, <3>4, <3>5 DEF Pending
    <3> QED
      BY <1>4, <3>2, <3>6 DEF Fits, new
  <2> QED
    BY <2>1, <2>2
<1>7. StaffTypes'
  BY <1>3, <1>4, <1>6 DEF StaffInv, StaffTypes
<1>8. RequestsFit'
  BY <1>4, <1>5, <1>6, <1>7, OthersFit
<1> QED
  BY <1>4, <1>7, <1>8 DEF StaffInv

(* A step that answers one request and touches neither the session store,  *)
(* the roles, the clock nor the browser's jar.                             *)
LEMMA AnswerStep ==
    ASSUME StaffInv, NEW tab \in Tabs,
           UNCHANGED <<clock, grants, store, minted, jar>>,
           DOMAIN reqs' = Tabs,
           \A other \in Tabs \ {tab} : reqs'[other] = reqs[other],
           Fits(reqs'[tab], minted', Opening', Granting', grants')
    PROVE  StaffTypes' /\ RequestsFit'
<1>1. StaffTypes'
  BY DEF StaffInv, StaffTypes
<1>2. clock <= clock' /\ minted <= minted'
  BY DEF StaffInv, StaffTypes
<1>3. \A t \in 1 .. minted : (t \in Opening' => t \in Opening) /\ (t \in Granting' => t \in Granting)
  BY <1>1, <1>2, SameStore DEF StaffInv
<1> QED
  BY <1>1, <1>2, <1>3, OthersFit

LEMMA MintedNat ==
    ASSUME StaffTypes
    PROVE  minted \in Nat /\ minted <= minted /\ clock \in Nat
BY DEF StaffTypes

(* A request leaves with what the jar holds; whether its cookie opens a    *)
(* session then is what it is later held to.                               *)
LEMMA SendStep ==
    ASSUME StaffInv, NEW tab \in Tabs, NEW kind \in Kinds, NEW arg,
           kind = "login" => arg \in Users, Send(tab, kind, arg)
    PROVE  StaffInv'
<1> USE StaffConstants
<1>1. UNCHANGED <<clock, grants, store, minted, jar, exercised>>
  BY DEF Send
<1> DEFINE carried == IF kind = "callback" THEN jar.oidc ELSE Missing
<1> DEFINE holds == Live(Cookies) /\ store[Cookies].user \in grants
<1> DEFINE new == [kind |-> kind, arg |-> arg, at |-> "sent", cookie |-> Cookies, csrf |-> jar.csrf,
                   oidc |-> carried, user |-> Missing, sets |-> Missing,
                   live |-> Live(Cookies), held |-> holds]
<1>2. DOMAIN reqs' = Tabs /\ reqs'[tab] = new /\ \A other \in Tabs \ {tab} : reqs'[other] = reqs[other]
  BY DEF Send, StaffInv, StaffTypes
<1>3. Cookies # Missing => Cookies \in 1 .. minted
  BY DEF Cookies, StaffInv, StaffTypes
<1>4. Cookies \in Opening' => Live(Cookies)
  BY <1>1 DEF Opening, Live
<1>5. Cookies \in Granting' => holds
  BY <1>1, <1>4 DEF Opening, Granting, Live
<1>6. /\ DOMAIN new = {"kind", "arg", "at", "cookie", "csrf", "oidc", "user", "sets", "live", "held"}
      /\ new.kind = kind /\ new.arg = arg /\ new.at = "sent" /\ new.cookie = Cookies
      /\ (Live(Cookies) => new.live = TRUE) /\ (holds => new.held = TRUE)
  OBVIOUS
<1> HIDE DEF new, holds
<1>7. Pending(new, minted', Opening', Granting', grants')
  BY <1>1, <1>3, <1>4, <1>5, <1>6 DEF Pending
<1>8. StaffTypes' /\ RequestsFit'
  BY <1>1, <1>2, <1>7, AnswerStep DEF Fits
<1> QED
  BY <1>1, <1>8 DEF StaffInv

(* Only a caller who has the permission now passes a permission check. *)
LEMMA PermissionChecked ==
    ASSUME NEW permissions,
           Enforce([kind |-> "permission", permission |-> WritePermission],
                   [kind |-> "staff", permissions |-> permissions]) = Missing
    PROVE  WritePermission \in permissions
<1> DEFINE d == [kind |-> "permission", permission |-> WritePermission]
<1> DEFINE p == [kind |-> "staff", permissions |-> permissions]
<1>1. d.kind = "permission" /\ d.permission = WritePermission
  OBVIOUS
<1>2. p.permissions = permissions
  OBVIOUS
<1>3. Enforce(d, p) = Missing
  OBVIOUS
<1> HIDE DEF d, p
<1>4. Enforce(d, p) = IF p = Missing THEN "unauthenticated"
                      ELSE IF Can(p, WritePermission) THEN Missing ELSE "permission"
  BY <1>1 DEF Enforce
<1>5. Can(p, WritePermission)
  BY <1>3, <1>4, StaffConstants
<1> QED
  BY <1>2, <1>5 DEF Can

(* An admitted write is one whose user has the permission at the check. *)
LEMMA AuthoriseStep ==
    ASSUME StaffInv, NEW tab \in Tabs, Authorise(tab)
    PROVE  StaffInv'
<1> USE StaffConstants
<1> DEFINE r == reqs[tab]
<1> DEFINE declaration == IF r.kind = "write" THEN [kind |-> "permission", permission |-> WritePermission]
                          ELSE [kind |-> "public", credential |-> "session"]
<1> DEFINE allowed == IF r.user \in grants THEN {WritePermission} ELSE {}
<1> DEFINE principal == [kind |-> "staff", permissions |-> allowed]
<1>1. r.kind \in {"me", "logout", "write"} /\ r.at = "identified"
  BY DEF Authorise, AuthoriseFrom
<1>2. Pending(r, minted, Opening, Granting, grants)
  BY <1>1, NotIdle, PendingNow
<1>3. UNCHANGED <<clock, grants, store, minted, jar, exercised>>
  BY DEF Authorise, AuthoriseFrom
<1>4. /\ DOMAIN reqs' = Tabs
      /\ \A other \in Tabs \ {tab} : reqs'[other] = reqs[other]
      /\ Fits(reqs'[tab], minted', Opening', Granting', grants')
  <2>1. CASE Enforce(declaration, principal) # Missing
    <3>1. Answer(tab, Refusal)
      BY <2>1 DEF Authorise, AuthoriseFrom
    <3>2. minted' \in Nat /\ minted <= minted'
      BY <1>3, MintedNat DEF StaffInv
    <3> QED
      BY <1>2, <3>1, <3>2, RefusalFits
  <2>2. CASE Enforce(declaration, principal) = Missing
    <3>1. reqs' = [reqs EXCEPT ![tab].at = "admitted"]
      BY <2>2 DEF Authorise, AuthoriseFrom
    <3>2. /\ DOMAIN reqs' = Tabs /\ \A other \in Tabs \ {tab} : reqs'[other] = reqs[other]
          /\ reqs'[tab] = [r EXCEPT !.at = "admitted"]
      BY <3>1 DEF StaffInv, StaffTypes
    <3> DEFINE new == [r EXCEPT !.at = "admitted"]
    <3>3. /\ DOMAIN new = DOMAIN r /\ new.kind = r.kind /\ new.arg = r.arg /\ new.cookie = r.cookie
          /\ new.live = r.live /\ new.held = r.held /\ new.at = "admitted"
      BY <1>2 DEF Pending
    <3>4. r.kind = "write" => r.held = TRUE
      <4> SUFFICES ASSUME r.kind = "write" PROVE r.held = TRUE
        OBVIOUS
      <4>1. WritePermission \in allowed
        <5>1. declaration = [kind |-> "permission", permission |-> WritePermission]
          OBVIOUS
        <5> QED
          BY <2>2, <5>1, PermissionChecked
      <4>2. r.user \in grants
        BY <4>1
      <4> QED
        BY <1>1, <1>2, <4>2 DEF Pending
    <3> HIDE DEF new
    <3>5. Pending(new, minted', Opening', Granting', grants')
      BY <1>1, <1>2, <1>3, <3>3, <3>4 DEF Pending
    <3> QED
      BY <3>2, <3>5 DEF Fits, new
  <2> QED
    BY <2>1, <2>2
<1>5. StaffTypes' /\ RequestsFit'
  BY <1>3, <1>4, AnswerStep
<1> QED
  BY <1>3, <1>5 DEF StaffInv

(* The handlers that only answer. *)
LEMMA HandlerSteps ==
    ASSUME StaffInv, NEW tab \in Tabs,
           Write(tab) \/ Me(tab) \/ RefuseForged(tab) \/ LoginRefused(tab)
    PROVE  StaffInv'
<1> USE StaffConstants
<1> DEFINE r == reqs[tab]
<1>0. UNCHANGED <<clock, grants, store, minted, jar>> /\ minted' \in Nat /\ minted <= minted'
  BY MintedNat DEF Write, Me, RefuseForged, LoginRefused, StaffInv
<1>1. Pending(r, minted, Opening, Granting, grants)
  BY NotIdle, PendingNow DEF Write, Me, RefuseForged, LoginRefused, LoggingIn
<1>2. CASE Write(tab)
  <2> DEFINE sets == [status |-> "done", session |-> Missing, csrf |-> Missing]
  <2>1. Answer(tab, sets)
    BY <1>2 DEF Write
  <2>2. sets.status = "done" /\ sets.session = Missing /\ sets.csrf = Missing
    OBVIOUS
  <2> HIDE DEF sets
  <2>3. StaffTypes' /\ RequestsFit'
    BY <1>0, <1>1, <2>1, <2>2, AnswerFits, AnswerStep
  <2>4. r.live = TRUE /\ r.held = TRUE
    BY <1>1, <1>2 DEF Write, Pending
  <2>5. exercised' \subseteq {[live |-> TRUE, held |-> TRUE]}
    BY <1>2, <2>4 DEF Write, StaffInv
  <2> QED
    BY <2>3, <2>5 DEF StaffInv
<1>3. CASE Me(tab)
  <2> DEFINE sets == [status |-> "profile", session |-> Missing, csrf |-> Csrf(r.cookie)]
  <2>1. Answer(tab, sets) /\ exercised' = exercised
    BY <1>3 DEF Me
  <2>2. sets.status = "profile" /\ sets.session = Missing /\ sets.csrf = Csrf(r.cookie)
    OBVIOUS
  <2>3. r.kind = "me" /\ r.cookie # Missing
    BY <1>1, <1>3 DEF Me, Pending
  <2> HIDE DEF sets
  <2>4. StaffTypes' /\ RequestsFit'
    BY <1>0, <1>1, <2>1, <2>2, <2>3, AnswerFits, AnswerStep
  <2> QED
    BY <2>1, <2>4 DEF StaffInv
<1>4. CASE RefuseForged(tab) \/ LoginRefused(tab)
  <2>1. Answer(tab, Refusal) /\ exercised' = exercised
    BY <1>4 DEF RefuseForged, LoginRefused
  <2>2. StaffTypes' /\ RequestsFit'
    BY <1>0, <1>1, <2>1, RefusalFits, AnswerStep
  <2> QED
    BY <2>1, <2>2 DEF StaffInv
<1> QED
  BY <1>2, <1>3, <1>4

(* Signing out ends a session and begins none. *)
LEMMA LogoutStep ==
    ASSUME StaffInv, NEW tab \in Tabs, Logout(tab)
    PROVE  StaffInv'
<1> USE StaffConstants
<1> DEFINE r == reqs[tab]
<1> DEFINE sets == [status |-> "signed_out", session |-> Missing, csrf |-> Missing]
<1>1. UNCHANGED <<clock, grants, minted, jar, exercised>> /\ minted \in Nat /\ clock \in Nat
  BY MintedNat DEF Logout, StaffInv
<1>2. Answer(tab, sets) /\ store' = [store EXCEPT ![r.cookie] = NoSession]
  BY DEF Logout
<1>3. sets.status = "signed_out" /\ sets.session = Missing /\ sets.csrf = Missing
  OBVIOUS
<1> HIDE DEF sets
<1>4. Pending(r, minted, Opening, Granting, grants)
  BY NotIdle, PendingNow DEF Logout
<1>5. /\ DOMAIN reqs' = Tabs
      /\ \A other \in Tabs \ {tab} : reqs'[other] = reqs[other]
      /\ Fits(reqs'[tab], minted', Opening', Granting', grants')
  BY <1>1, <1>2, <1>3, <1>4, AnswerFits DEF Logout
<1>6. /\ store' \in [Tokens -> [user : Users \cup {Missing}, expires : Nat, renewed : Nat]]
      /\ \A t \in Tokens : store'[t] = store[t] \/ store'[t] = NoSession
  BY <1>2 DEF NoSession, StaffInv, StaffTypes
<1>7. ASSUME NEW t \in 1 .. minted
      PROVE  (t \in Opening' => t \in Opening) /\ (t \in Granting' => t \in Granting)
  <2>1. t \in Tokens
    BY DEF StaffInv, StaffTypes, Tokens
  <2>2. Live(t)' => store'[t] = store[t]
    BY <1>6, <2>1 DEF Live, NoSession
  <2> QED
    BY <1>1, <2>2 DEF Live, Opening, Granting
<1>8. StaffTypes'
  BY <1>1, <1>5, <1>6 DEF StaffInv, StaffTypes
<1>9. RequestsFit'
  BY <1>1, <1>5, <1>7, <1>8, OthersFit
<1> QED
  BY <1>1, <1>8, <1>9 DEF StaffInv

(* A step that mints a token and answers with it, or with nothing. *)
LEMMA MintStep ==
    ASSUME StaffInv, NEW tab \in Tabs, NEW user \in Users, Mint(user), NEW sets, Answer(tab, sets),
           Pending(reqs[tab], minted, Opening, Granting, grants),
           UNCHANGED <<clock, grants, jar, exercised>>,
           \/ sets = Refusal
           \/ /\ reqs[tab].kind = "login"
              /\ sets = [status |-> "profile", session |-> minted + 1, csrf |-> Csrf(minted + 1)]
           \/ /\ reqs[tab].kind = "callback"
              /\ sets = [status |-> "redirect", session |-> minted + 1, csrf |-> Missing]
    PROVE  StaffInv'
<1> USE StaffConstants
<1>1. /\ minted' \in 0 .. MaxTokens /\ minted' = minted + 1
      /\ store' \in [Tokens -> [user : Users \cup {Missing}, expires : Nat, renewed : Nat]]
      /\ \A t \in 1 .. minted : (t \in Opening' => t \in Opening) /\ (t \in Granting' => t \in Granting)
  BY MintedStore DEF StaffInv
<1>2. minted \in Nat /\ minted' \in Nat /\ minted <= minted' /\ minted + 1 \in 1 .. minted'
      /\ minted + 1 # Missing
  BY <1>1, MintedNat DEF StaffInv
<1>3. /\ DOMAIN reqs' = Tabs
      /\ \A other \in Tabs \ {tab} : reqs'[other] = reqs[other]
      /\ Fits(reqs'[tab], minted', Opening', Granting', grants')
  <2>1. CASE sets = Refusal
    BY <1>2, <2>1, RefusalFits
  <2>2. CASE /\ reqs[tab].kind = "login"
             /\ sets = [status |-> "profile", session |-> minted + 1, csrf |-> Csrf(minted + 1)]
    <3>1. sets.status = "profile" /\ sets.session = minted + 1 /\ sets.csrf = Csrf(sets.session)
      BY <2>2
    <3> QED
      BY <1>2, <2>2, <3>1, AnswerFits
  <2>3. CASE /\ reqs[tab].kind = "callback"
             /\ sets = [status |-> "redirect", session |-> minted + 1, csrf |-> Missing]
    <3>1. sets.status = "redirect" /\ sets.session = minted + 1 /\ sets.csrf = Missing
      BY <2>3
    <3> QED
      BY <1>2, <2>3, <3>1, AnswerFits
  <2> QED
    BY <2>1, <2>2, <2>3
<1>4. jar.session # Missing => jar.session \in 1 .. minted'
  BY <1>2 DEF StaffInv, StaffTypes
<1>5. StaffTypes'
  BY <1>1, <1>3, <1>4 DEF StaffInv, StaffTypes
<1>6. RequestsFit'
  BY <1>1, <1>2, <1>3, <1>5, OthersFit
<1> QED
  BY <1>5, <1>6 DEF StaffInv

(* Signing in by password. *)
LEMMA LoginSteps ==
    ASSUME StaffInv, NEW tab \in Tabs, Login(tab) \/ LoginThrows(tab)
    PROVE  StaffInv'
<1>1. Pending(reqs[tab], minted, Opening, Granting, grants) /\ reqs[tab].kind = "login"
  BY NotIdle, PendingNow DEF Login, LoginThrows, LoggingIn
<1>2. PICK user \in Users : user = reqs[tab].arg
  BY <1>1 DEF Pending
<1>3. Mint(user) /\ UNCHANGED <<clock, grants, jar, exercised>>
  BY <1>2 DEF Login, LoginThrows
<1>4. CASE Login(tab)
  <2>1. Answer(tab, [status |-> "profile", session |-> minted + 1, csrf |-> Csrf(minted + 1)])
    BY <1>4 DEF Login
  <2> QED
    BY <1>1, <1>3, <2>1, MintStep
<1>5. CASE LoginThrows(tab)
  <2>1. Answer(tab, Refusal)
    BY <1>5 DEF LoginThrows
  <2> QED
    BY <1>1, <1>3, <2>1, MintStep
<1> QED
  BY <1>4, <1>5

(* Signing in through an identity provider. *)
LEMMA CallbackStep ==
    ASSUME StaffInv, NEW tab \in Tabs, OidcCallback(tab)
    PROVE  StaffInv'
<1> DEFINE r == reqs[tab]
<1> DEFINE org == IF r.kind = "callback" /\ r.at = "sent" THEN VerifyOidcOrgCookie(r.oidc, r.arg) ELSE Missing
<1>1. Pending(r, minted, Opening, Granting, grants) /\ r.kind = "callback"
  BY NotIdle, PendingNow DEF OidcCallback
<1>2. UNCHANGED <<clock, grants, jar, exercised>>
  BY DEF OidcCallback
<1>3. ASSUME NEW u \in Users, Mint(u),
             Answer(tab, [status |-> "redirect", session |-> minted + 1, csrf |-> Missing])
      PROVE  StaffInv'
  BY <1>1, <1>2, <1>3, MintStep
<1>4. ASSUME NEW status \in {"refused", "redirect"},
             Answer(tab, [status |-> status, session |-> Missing, csrf |-> Missing]),
             UNCHANGED <<minted, store>>
      PROVE  StaffInv'
  <2> DEFINE sets == [status |-> status, session |-> Missing, csrf |-> Missing]
  <2>1. sets.status = status /\ sets.session = Missing /\ sets.csrf = Missing /\ Answer(tab, sets)
    BY <1>4
  <2>2. minted' \in Nat /\ minted <= minted'
    BY <1>4, MintedNat DEF StaffInv
  <2> HIDE DEF sets
  <2>3. /\ DOMAIN reqs' = Tabs
        /\ \A other \in Tabs \ {tab} : reqs'[other] = reqs[other]
        /\ Fits(reqs'[tab], minted', Opening', Granting', grants')
    BY <1>1, <2>1, <2>2, AnswerFits
  <2>4. StaffTypes' /\ RequestsFit'
    BY <1>2, <1>4, <2>3, AnswerStep
  <2> QED
    BY <1>2, <2>4 DEF StaffInv
<1>5. \/ \E u \in Users : /\ Mint(u)
                          /\ Answer(tab, [status |-> "redirect", session |-> minted + 1, csrf |-> Missing])
      \/ /\ Answer(tab, [status |-> IF org = Missing THEN "refused" ELSE "redirect",
                         session |-> Missing, csrf |-> Missing])
         /\ UNCHANGED <<minted, store>>
  BY DEF OidcCallback
<1>6. (IF org = Missing THEN "refused" ELSE "redirect") \in {"refused", "redirect"}
  OBVIOUS
<1> QED
  BY <1>3, <1>4, <1>5, <1>6

(* An answer changes the browser's jar only. *)
LEMMA DeliverStep ==
    ASSUME StaffInv, NEW tab \in Tabs, DeliverAnswer(tab)
    PROVE  StaffInv' /\ Replied(reqs[tab], minted)
<1> DEFINE r == reqs[tab]
<1>1. UNCHANGED <<clock, grants, store, minted, exercised>> /\ minted \in Nat /\ clock \in Nat
  BY MintedNat DEF DeliverAnswer, StaffInv
<1>2. Replied(r, minted)
  BY NotIdle DEF DeliverAnswer, StaffInv, RequestsFit, Fits, Pending
<1>3. /\ DOMAIN reqs' = Tabs
      /\ \A other \in Tabs \ {tab} : reqs'[other] = reqs[other]
      /\ Fits(reqs'[tab], minted', Opening', Granting', grants')
  BY DEF DeliverAnswer, StaffInv, StaffTypes, Fits
<1>4. /\ DOMAIN jar' = {"session", "dies", "csrf", "oidc"}
      /\ jar'.session \in {jar.session, Missing, r.sets.session}
  BY DEF DeliverAnswer, StaffInv, StaffTypes
<1>5. jar'.session # Missing => jar'.session \in 1 .. minted'
  BY <1>1, <1>2, <1>4 DEF StaffInv, StaffTypes, Replied
<1>6. StaffTypes'
  BY <1>1, <1>3, <1>4, <1>5 DEF StaffInv, StaffTypes
<1>7. \A t \in 1 .. minted : (t \in Opening' => t \in Opening) /\ (t \in Granting' => t \in Granting)
  BY <1>1, <1>6, SameStore DEF StaffInv
<1>8. RequestsFit'
  BY <1>1, <1>3, <1>6, <1>7, OthersFit
<1> QED
  BY <1>1, <1>2, <1>6, <1>8 DEF StaffInv

(* A role edit gives a permission to a user, and a request in flight for   *)
(* that user has then held it.                                             *)
LEMMA ChangeRolesStep ==
    ASSUME StaffInv, NEW user \in Users, ChangeRoles(user)
    PROVE  StaffInv'
<1> USE StaffConstants
<1>1. UNCHANGED <<clock, store, minted, jar, exercised>> /\ DOMAIN reqs' = Tabs
  BY DEF ChangeRoles
<1>2. StaffTypes'
  BY <1>1 DEF StaffInv, StaffTypes
<1>3. grants' \subseteq grants \cup {user}
  BY DEF ChangeRoles
<1>4. ASSUME NEW tab \in Tabs
      PROVE  Fits(reqs'[tab], minted', Opening', Granting', grants')
  <2> DEFINE r == reqs[tab]
  <2> DEFINE gains == /\ r # Idle /\ r.at # "answered" /\ r.cookie # Missing
                      /\ user \in {store[r.cookie].user, r.user} \cap grants'
  <2>1. reqs'[tab] = IF gains THEN [r EXCEPT !.held = TRUE] ELSE r
    BY DEF ChangeRoles
  <2>2. CASE r = Idle \/ Replied(r, minted)
    <3>1. ~gains
      BY <2>2 DEF Replied
    <3> QED
      BY <1>1, <2>1, <2>2, <3>1 DEF Fits
  <2>3. CASE Pending(r, minted, Opening, Granting, grants)
    <3>1. r # Idle
      BY <2>3 DEF Pending, Idle, Kinds
    <3>2. Opening' = Opening
      BY <1>1 DEF Opening, Live
    <3>3. CASE gains
      <4> DEFINE new == [r EXCEPT !.held = TRUE]
      <4>1. /\ DOMAIN new = DOMAIN r /\ new.kind = r.kind /\ new.arg = r.arg /\ new.cookie = r.cookie
            /\ new.live = r.live /\ new.held = TRUE /\ new.at = r.at /\ new.user = r.user
        BY <2>3 DEF Pending
      <4> HIDE DEF new
      <4>2. Pending(new, minted', Opening', Granting', grants')
        BY <1>1, <2>3, <3>2, <4>1 DEF Pending
      <4> QED
        BY <2>1, <3>3, <4>2 DEF Fits, new
    <3>4. CASE ~gains
      <4>1. reqs'[tab] = r
        BY <2>1, <3>4
      <4>2. r.at = "sent" /\ r.cookie \in Granting' => r.held = TRUE
        <5> SUFFICES ASSUME r.at = "sent", r.cookie \in Granting' PROVE r.held = TRUE
          OBVIOUS
        <5>1. r.cookie \in Opening /\ store[r.cookie].user \in grants' /\ r.cookie # Missing
          BY <1>1, <3>2 DEF Granting, Opening, Live
        <5>2. store[r.cookie].user # user
          BY <3>1, <3>4, <5>1
        <5>3. r.cookie \in Granting
          BY <1>3, <5>1, <5>2 DEF Granting
        <5> QED
          BY <2>3, <5>3 DEF Pending
      <4>3. r.at = "identified" /\ r.user \in grants' => r.held = TRUE
        <5> SUFFICES ASSUME r.at = "identified", r.user \in grants' PROVE r.held = TRUE
          OBVIOUS
        <5>1. r.cookie # Missing
          BY <2>3 DEF Pending
        <5>2. r.user # user
          BY <3>1, <3>4, <5>1
        <5>3. r.user \in grants
          BY <1>3, <5>2
        <5> QED
          BY <2>3, <5>3 DEF Pending
      <4>4. Pending(r, minted', Opening', Granting', grants')
        BY <1>1, <2>3, <3>2, <4>2, <4>3 DEF Pending
      <4> QED
        BY <4>1, <4>4 DEF Fits
    <3> QED
      BY <3>3, <3>4
  <2> QED
    BY <2>2, <2>3 DEF StaffInv, RequestsFit, Fits
<1>5. RequestsFit'
  BY <1>4 DEF RequestsFit
<1> QED
  BY <1>1, <1>2, <1>5 DEF StaffInv

(* Requests go on fitting when no token and no role is added, whichever of *)
(* them are dropped.                                                       *)
LEMMA QuietStep ==
    ASSUME StaffInv, UNCHANGED <<store, grants, minted, exercised>>,
           clock' \in Nat, clock <= clock',
           DOMAIN jar' = DOMAIN jar, jar'.session = jar.session,
           DOMAIN reqs' = Tabs, \A tab \in Tabs : reqs'[tab] \in {reqs[tab], Idle}
    PROVE  StaffInv'
<1>1. StaffTypes'
  BY DEF StaffInv, StaffTypes
<1>2. /\ minted \in Nat /\ minted' = minted
      /\ \A t \in 1 .. minted : (t \in Opening' => t \in Opening) /\ (t \in Granting' => t \in Granting)
  BY <1>1, SameStore, MintedNat DEF StaffInv
<1>3. \A t \in Opening' \cup Granting' : t # Missing
  BY DEF Opening, Granting, Live
<1>4. ASSUME NEW tab \in Tabs PROVE Fits(reqs'[tab], minted', Opening', Granting', grants')
  <2>1. Fits(reqs[tab], minted, Opening, Granting, grants)
    BY DEF StaffInv, RequestsFit
  <2>2. Fits(reqs[tab], minted', Opening', Granting', grants)
    BY <1>2, <1>3, <2>1, FitsOn
  <2> QED
    BY <2>2 DEF Fits
<1> QED
  BY <1>1, <1>4 DEF StaffInv, RequestsFit

(* Every step of the API and of the browser keeps the invariant. *)
LEMMA StaffStep ==
    ASSUME StaffInv, [StaffNext]_staffVars
    PROVE  StaffInv'
<1>1. ASSUME NEW tab \in Tabs, NEW kind \in {"me", "logout", "write"}, Send(tab, kind, Missing)
      PROVE  StaffInv'
  BY <1>1, SendStep DEF Kinds
<1>2. ASSUME NEW tab \in Tabs, NEW user \in Users, Send(tab, "login", user)
      PROVE  StaffInv'
  BY <1>2, SendStep DEF Kinds
<1>3. ASSUME NEW tab \in Tabs, NEW f \in Flows, Send(tab, "callback", f)
      PROVE  StaffInv'
  BY <1>3, SendStep DEF Kinds
<1>4. ASSUME NEW tab \in Tabs, NEW org, OidcStart(tab, org)
      PROVE  StaffInv'
  <2>1. DOMAIN jar' = DOMAIN jar /\ jar'.session = jar.session
    BY <1>4 DEF OidcStart, StaffInv, StaffTypes
  <2>2. UNCHANGED <<clock, grants, store, minted, reqs, exercised>>
    BY <1>4 DEF OidcStart
  <2> QED
    BY <2>1, <2>2, QuietStep, MintedNat DEF StaffInv, StaffTypes
<1>5. ASSUME NEW tab \in Tabs,
             \/ RefuseForged(tab) \/ Identify(tab) \/ Authorise(tab) \/ Write(tab) \/ Me(tab) \/ Logout(tab)
             \/ LoginRefused(tab) \/ Login(tab) \/ LoginThrows(tab) \/ OidcCallback(tab) \/ DeliverAnswer(tab)
      PROVE  StaffInv'
  BY <1>5, HandlerSteps, IdentifyStep, AuthoriseStep, LogoutStep, LoginSteps, CallbackStep, DeliverStep
<1>6. ASSUME NEW user \in Users, ChangeRoles(user)
      PROVE  StaffInv'
  BY <1>6, ChangeRolesStep
<1>7. CASE StaffTick
  BY <1>7, QuietStep DEF StaffTick, StaffInv, StaffTypes
<1>8. CASE BeginDrain \/ CloseListener \/ UNCHANGED staffVars
  BY <1>8, QuietStep, MintedNat DEF BeginDrain, CloseListener, staffVars, StaffInv, StaffTypes
<1>9. CASE ExitProcess
  <2>1. DOMAIN reqs' = Tabs /\ \A tab \in Tabs : reqs'[tab] \in {reqs[tab], Idle}
    BY <1>9 DEF ExitProcess
  <2> QED
    BY <1>9, <2>1, QuietStep, MintedNat DEF ExitProcess, StaffInv, StaffTypes
<1> QED
  BY <1>1, <1>2, <1>3, <1>4, <1>5, <1>6, <1>7, <1>8, <1>9 DEF StaffNext

LEMMA StaffStart ==
    ASSUME StaffInit
    PROVE  StaffInv
<1>1. /\ clock = 0 /\ minted = 0 /\ jar = EmptyJar /\ reqs = [tab \in Tabs |-> Idle]
      /\ store = [t \in Tokens |-> NoSession] /\ exercised = {}
  BY DEF StaffInit
<1>2. StaffTypes
  BY <1>1, StaffConstants DEF StaffTypes, EmptyJar, NoSession
<1>3. RequestsFit
  BY <1>1 DEF RequestsFit, Fits
<1> QED
  BY <1>1, <1>2, <1>3 DEF StaffInv

(* A write runs only for a request whose session was live when it was sent *)
(* and whose user held the permission at some instant since, for any       *)
(* number of users, tabs, sessions and requests: the order of the checks   *)
(* in the request's hooks leaves no room for a role taken away or a        *)
(* session ended before it was sent.                                       *)
THEOREM WithdrawalHolds == StaffSpec => []WithdrawnMeansRefused
<1>1. StaffInv => WithdrawnMeansRefused
  BY DEF StaffInv, WithdrawnMeansRefused
<1> QED
  BY <1>1, StaffStart, StaffStep, PTL DEF StaffSpec

(***************************************************************************)
(* The browser's token.  While answers that set cookies do not cross, one  *)
(* such request at most is in flight, and the session it was sent with is  *)
(* still the jar's when its answer arrives.                                *)
(***************************************************************************)
OneSetter ==
    \A a, b \in Tabs : SetsCookies(reqs[a].kind) /\ SetsCookies(reqs[b].kind) => a = b

SentAsKept ==
    \A tab \in Tabs :
        SetsCookies(reqs[tab].kind) /\ reqs[tab].cookie # Missing => jar.session = reqs[tab].cookie

TokenInv == (~overlapped => OneSetter /\ SentAsKept) /\ TokenFollowsSession

(* Steps that leave the jar's session and token alone, and of each request *)
(* its kind and its cookie.                                                *)
LEMMA SameCookies ==
    ASSUME TokenInv, UNCHANGED <<overlapped, loaded>>,
           jar'.session = jar.session, jar'.csrf = jar.csrf,
           \A tab \in Tabs : \/ reqs'[tab] = Idle
                             \/ reqs'[tab].kind = reqs[tab].kind /\ reqs'[tab].cookie = reqs[tab].cookie
    PROVE  TokenInv'
<1>1. \A tab \in Tabs : SetsCookies(reqs'[tab].kind) =>
          SetsCookies(reqs[tab].kind) /\ reqs'[tab].cookie = reqs[tab].cookie
  BY DEF Idle, SetsCookies
<1>2. OneSetter => OneSetter'
  BY <1>1 DEF OneSetter, SetsCookies
<1>3. SentAsKept => SentAsKept'
  BY <1>1 DEF SentAsKept, SetsCookies
<1>4. TokenFollowsSession'
  BY DEF TokenInv, TokenFollowsSession
<1> QED
  BY <1>2, <1>3, <1>4 DEF TokenInv

(* An answer, and a mark set on a pending request, keep kind and cookie. *)
LEMMA AnswerKeepsCookie ==
    ASSUME StaffInv, NEW tab \in Tabs, NEW sets, Answer(tab, sets)
    PROVE  \A other \in Tabs : reqs'[other].kind = reqs[other].kind /\ reqs'[other].cookie = reqs[other].cookie
<1>1. reqs'[tab] = [kind |-> reqs[tab].kind, at |-> "answered", cookie |-> reqs[tab].cookie, sets |-> sets]
      /\ \A other \in Tabs \ {tab} : reqs'[other] = reqs[other]
  BY DEF StaffInv, StaffTypes, Answer
<1> QED
  BY <1>1

LEMMA MarksKeepCookie ==
    ASSUME StaffInv, NEW tab \in Tabs, Identify(tab) \/ Authorise(tab)
    PROVE  \A other \in Tabs : reqs'[other].kind = reqs[other].kind /\ reqs'[other].cookie = reqs[other].cookie
<1> DEFINE r == reqs[tab]
<1>1. Pending(r, minted, Opening, Granting, grants)
  BY NotIdle, PendingNow DEF Identify, Authorise, AuthoriseFrom
<1>2. \/ Answer(tab, Refusal)
      \/ reqs' = [reqs EXCEPT ![tab].at = "identified", ![tab].user = store[r.cookie].user]
      \/ reqs' = [reqs EXCEPT ![tab].at = "admitted"]
  BY DEF Identify, Authorise, AuthoriseFrom
<1>3. CASE Answer(tab, Refusal)
  BY <1>3, AnswerKeepsCookie
<1>4. CASE reqs' = [reqs EXCEPT ![tab].at = "identified", ![tab].user = store[r.cookie].user]
  <2>1. reqs'[tab] = [r EXCEPT !.at = "identified", !.user = store[r.cookie].user]
        /\ \A other \in Tabs \ {tab} : reqs'[other] = reqs[other]
    BY <1>4 DEF StaffInv, StaffTypes
  <2>2. /\ [r EXCEPT !.at = "identified", !.user = store[r.cookie].user].kind = r.kind
        /\ [r EXCEPT !.at = "identified", !.user = store[r.cookie].user].cookie = r.cookie
    BY <1>1 DEF Pending
  <2> QED
    BY <2>1, <2>2
<1>5. CASE reqs' = [reqs EXCEPT ![tab].at = "admitted"]
  <2>1. reqs'[tab] = [r EXCEPT !.at = "admitted"] /\ \A other \in Tabs \ {tab} : reqs'[other] = reqs[other]
    BY <1>5 DEF StaffInv, StaffTypes
  <2> QED
    BY <1>1, <2>1 DEF Pending
<1> QED
  BY <1>2, <1>3, <1>4, <1>5

(* A request that leaves while another that sets cookies is in flight      *)
(* marks the overlap; alone, it carries the jar's session.                 *)
LEMMA SendKeepsToken ==
    ASSUME StaffInv, TokenInv, NEW tab \in Tabs, NEW kind \in Kinds, NEW arg, Send(tab, kind, arg)
    PROVE  TokenInv'
<1>1. /\ reqs'[tab].kind = kind /\ reqs'[tab].cookie = Cookies
      /\ \A other \in Tabs \ {tab} : reqs'[other] = reqs[other]
  BY DEF Send, StaffInv, StaffTypes
<1>2. jar' = jar /\ loaded' = loaded /\ (overlapped => overlapped')
      /\ (SetsCookies(kind) /\ (\E other \in Tabs \ {tab} : SetsCookies(reqs[other].kind)) => overlapped')
  BY DEF Send
<1>3. ASSUME ~overlapped' PROVE OneSetter' /\ SentAsKept'
  <2>1. OneSetter /\ SentAsKept
    BY <1>2, <1>3 DEF TokenInv
  <2>2. OneSetter'
    BY <1>1, <1>2, <1>3, <2>1 DEF OneSetter, SetsCookies
  <2>3. Cookies # Missing => jar.session = Cookies
    BY DEF Cookies
  <2>4. SentAsKept'
    BY <1>1, <1>2, <2>1, <2>3 DEF SentAsKept, SetsCookies
  <2> QED
    BY <2>2, <2>4
<1>4. TokenFollowsSession'
  BY <1>2 DEF TokenInv, TokenFollowsSession
<1> QED
  BY <1>3, <1>4 DEF TokenInv

(* An answer that sets a session brings its token or unloads the page, and *)
(* one that sets a token alone is for the session the jar holds.           *)
LEMMA DeliverKeepsToken ==
    ASSUME StaffInv, TokenInv, NEW tab \in Tabs, DeliverAnswer(tab)
    PROVE  TokenInv'
<1> USE StaffConstants
<1> DEFINE r == reqs[tab]
<1>1. Replied(r, minted) /\ minted \in 0 .. MaxTokens
  BY DeliverStep DEF StaffInv, StaffTypes
<1>2. reqs'[tab] = Idle /\ \A other \in Tabs \ {tab} : reqs'[other] = reqs[other]
  BY DEF DeliverAnswer, StaffInv, StaffTypes
<1>3. DOMAIN jar = {"session", "dies", "csrf", "oidc"}
  BY DEF StaffInv, StaffTypes
<1>4. \A t \in 1 .. minted : t # Missing /\ Csrf(t) # Missing /\ Csrf(t).boundTo = t
  BY <1>1 DEF Csrf
<1>5. ~SetsCookies(reqs'[tab].kind)
  BY <1>2 DEF Idle, SetsCookies
<1>6. CASE r.sets.status = "profile"
  <2>1. /\ jar'.session = (IF r.sets.session = Missing THEN jar.session ELSE r.sets.session)
        /\ jar'.csrf = (IF r.sets.csrf = Missing THEN jar.csrf ELSE r.sets.csrf)
    BY <1>3, <1>6 DEF DeliverAnswer
  <2>2. SetsCookies(r.kind)
    BY <1>1, <1>6 DEF Replied, SetsCookies
  <2>3. ASSUME ~overlapped' PROVE OneSetter' /\ SentAsKept'
    <3>1. \A other \in Tabs \ {tab} : ~SetsCookies(reqs[other].kind)
      BY <2>2, <2>3 DEF DeliverAnswer, TokenInv, OneSetter
    <3>2. \A other \in Tabs : ~SetsCookies(reqs'[other].kind)
      BY <1>2, <1>5, <3>1
    <3> QED
      BY <3>2 DEF OneSetter, SentAsKept
  <2>4. ASSUME ~overlapped' PROVE jar'.csrf # Missing /\ jar'.csrf.boundTo = jar'.session
    <3>1. CASE r.kind = "login"
      BY <1>1, <1>4, <1>6, <2>1, <3>1 DEF Replied
    <3>2. CASE r.kind = "me"
      <4>1. r.sets.session = Missing /\ r.cookie \in 1 .. minted /\ r.sets.csrf = Csrf(r.cookie)
        BY <1>1, <1>6, <3>2 DEF Replied
      <4>2. jar.session = r.cookie
        <5>1. CASE ~overlapped
          BY <1>4, <2>2, <4>1, <5>1 DEF TokenInv, SentAsKept
        <5>2. CASE overlapped
          <6>1. Cookies = r.cookie
            BY <2>4, <5>2 DEF DeliverAnswer
          <6> QED
            BY <1>4, <4>1, <6>1 DEF Cookies
        <5> QED
          BY <5>1, <5>2
      <4> QED
        BY <1>4, <2>1, <4>1, <4>2
    <3> QED
      BY <1>1, <1>6, <3>1, <3>2 DEF Replied
  <2>5. TokenFollowsSession'
    BY <2>4 DEF TokenFollowsSession
  <2> QED
    BY <2>3, <2>5 DEF TokenInv
<1>7. CASE r.sets.status # "profile"
  <2>1. overlapped => overlapped'
    BY <1>7 DEF DeliverAnswer
  <2>2. ASSUME ~overlapped PROVE OneSetter' /\ SentAsKept'
    <3>1. OneSetter /\ SentAsKept
      BY <2>2 DEF TokenInv
    <3>2. OneSetter'
      BY <1>2, <1>5, <3>1 DEF OneSetter, SetsCookies
    <3>3. CASE SetsCookies(r.kind)
      BY <1>2, <1>5, <3>1, <3>3 DEF OneSetter, SentAsKept, SetsCookies
    <3>4. CASE ~SetsCookies(r.kind)
      <4>1. r.kind = "write"
        BY <1>1, <3>4 DEF Replied, Kinds, SetsCookies
      <4>2. jar'.session = jar.session
        <5>1. r.sets.session = Missing /\ r.sets.status \notin {"redirect", "signed_out"}
          BY <1>1, <1>7, <4>1 DEF Replied
        <5> QED
          BY <1>3, <4>1, <5>1 DEF DeliverAnswer
      <4> QED
        BY <1>2, <1>5, <3>1, <3>2, <4>2 DEF SentAsKept, SetsCookies
    <3> QED
      BY <3>2, <3>3, <3>4
  <2>3. TokenFollowsSession'
    <3>1. r.sets.csrf = Missing
      BY <1>1, <1>7 DEF Replied
    <3>2. CASE r.sets.status = "signed_out"
      <4>1. jar'.session = Missing
        BY <1>3, <3>2 DEF DeliverAnswer
      <4> QED
        BY <4>1 DEF TokenFollowsSession
    <3>3. CASE r.sets.status # "signed_out" /\ r.sets.session = Missing
      <4>1. jar'.session = jar.session /\ jar'.csrf = jar.csrf
        BY <1>3, <3>1, <3>3 DEF DeliverAnswer
      <4>2. loaded' = loaded
        BY <1>7, <3>3 DEF DeliverAnswer
      <4> QED
        BY <2>1, <4>1, <4>2 DEF TokenInv, TokenFollowsSession
    <3>4. CASE r.sets.session # Missing
      <4>1. r.kind = "callback"
        BY <1>1, <1>7, <3>4 DEF Replied
      <4>2. loaded' = FALSE
        BY <1>7, <3>4, <4>1 DEF DeliverAnswer
      <4> QED
        BY <4>2 DEF TokenFollowsSession
    <3> QED
      BY <3>2, <3>3, <3>4
  <2> QED
    BY <2>1, <2>2, <2>3 DEF TokenInv
<1> QED
  BY <1>6, <1>7

LEMMA TokenStep ==
    ASSUME StaffInv, TokenInv, [StaffNext]_staffVars
    PROVE  TokenInv'
<1>1. ASSUME NEW tab \in Tabs, NEW kind \in {"me", "logout", "write"}, Send(tab, kind, Missing)
      PROVE  TokenInv'
  BY <1>1, SendKeepsToken DEF Kinds
<1>2. ASSUME NEW tab \in Tabs, NEW user \in Users, Send(tab, "login", user)
      PROVE  TokenInv'
  BY <1>2, SendKeepsToken DEF Kinds
<1>3. ASSUME NEW tab \in Tabs, NEW f \in Flows, Send(tab, "callback", f)
      PROVE  TokenInv'
  BY <1>3, SendKeepsToken DEF Kinds
<1>4. ASSUME NEW tab \in Tabs, NEW org, OidcStart(tab, org)
      PROVE  TokenInv'
  <2>1. jar'.session = jar.session /\ jar'.csrf = jar.csrf
    BY <1>4 DEF OidcStart, StaffInv, StaffTypes
  <2> QED
    BY <1>4, <2>1, SameCookies DEF OidcStart
<1>5. ASSUME NEW tab \in Tabs, Identify(tab) \/ Authorise(tab)
      PROVE  TokenInv'
  BY <1>5, MarksKeepCookie, SameCookies DEF Identify, Authorise, AuthoriseFrom
<1>6. ASSUME NEW tab \in Tabs,
             \/ RefuseForged(tab) \/ Write(tab) \/ Me(tab) \/ Logout(tab)
             \/ LoginRefused(tab) \/ Login(tab) \/ LoginThrows(tab) \/ OidcCallback(tab)
      PROVE  TokenInv'
  <2>1. \E sets : Answer(tab, sets)
    BY <1>6 DEF RefuseForged, Write, Me, Logout, LoginRefused, Login, LoginThrows, OidcCallback
  <2>2. UNCHANGED <<jar, loaded, overlapped>>
    BY <1>6 DEF RefuseForged, Write, Me, Logout, LoginRefused, Login, LoginThrows, OidcCallback
  <2> QED
    BY <2>1, <2>2, AnswerKeepsCookie, SameCookies
<1>7. ASSUME NEW tab \in Tabs, DeliverAnswer(tab)
      PROVE  TokenInv'
  BY <1>7, DeliverKeepsToken
<1>8. ASSUME NEW user \in Users, ChangeRoles(user)
      PROVE  TokenInv'
  <2>1. ASSUME NEW tab \in Tabs
        PROVE  reqs'[tab].kind = reqs[tab].kind /\ reqs'[tab].cookie = reqs[tab].cookie
    <3>1. reqs'[tab] = reqs[tab] \/ (/\ reqs[tab] # Idle /\ reqs[tab].at # "answered"
                                     /\ reqs'[tab] = [reqs[tab] EXCEPT !.held = TRUE])
      BY <1>8 DEF ChangeRoles
    <3>2. CASE reqs[tab] # Idle /\ reqs[tab].at # "answered"
      <4>1. Pending(reqs[tab], minted, Opening, Granting, grants)
        BY <3>2 DEF StaffInv, RequestsFit, Fits, Replied
      <4>2. /\ [reqs[tab] EXCEPT !.held = TRUE].kind = reqs[tab].kind
            /\ [reqs[tab] EXCEPT !.held = TRUE].cookie = reqs[tab].cookie
        BY <4>1 DEF Pending
      <4> QED
        BY <3>1, <4>2
    <3> QED
      BY <3>1, <3>2
  <2> QED
    BY <1>8, <2>1, SameCookies DEF ChangeRoles
<1>9. CASE StaffTick \/ BeginDrain \/ CloseListener \/ UNCHANGED staffVars
  BY <1>9, SameCookies DEF StaffTick, BeginDrain, CloseListener, staffVars
<1>10. CASE ExitProcess
  <2>1. \A tab \in Tabs : reqs'[tab] = Idle \/ reqs'[tab] = reqs[tab]
    BY <1>10 DEF ExitProcess
  <2> QED
    BY <1>10, <2>1, SameCookies DEF ExitProcess
<1> QED
  BY <1>1, <1>2, <1>3, <1>4, <1>5, <1>6, <1>7, <1>8, <1>9, <1>10 DEF StaffNext

(* Once a page has loaded, the token the console echoes is the one of the  *)
(* session the browser sends, unless answers that set cookies crossed: no  *)
(* order of sign-ins, sign-outs, page loads and single sign-on in any      *)
(* number of tabs leaves the console with a token of another session.      *)
THEOREM TokensMatch == StaffSpec => []TokenFollowsSession
<1>1. StaffInit => TokenInv
  <2> SUFFICES ASSUME StaffInit PROVE TokenInv
    OBVIOUS
  <2>1. loaded = FALSE /\ \A tab \in Tabs : ~SetsCookies(reqs[tab].kind)
    BY DEF StaffInit, Idle, SetsCookies
  <2> QED
    BY <2>1 DEF TokenInv, OneSetter, SentAsKept, TokenFollowsSession
<1>2. TokenInv => TokenFollowsSession
  BY DEF TokenInv
<1>3. StaffInv /\ TokenInv /\ [StaffNext]_staffVars => StaffInv' /\ TokenInv'
  BY StaffStep, TokenStep
<1> QED
  BY <1>1, <1>2, <1>3, StaffStart, PTL DEF StaffSpec

(***************************************************************************)
(* Interview rooms.  A frame asks for what the other side lacks, carries   *)
(* edits, or does neither.                                                 *)
(***************************************************************************)
FrameKinds == {"sync_step_1", "sync_step_2", "sync_update", "awareness"} \cup OddKinds
Frames == {f \in [kind : FrameKinds, edits : SUBSET Clients] :
              f.kind \notin {"sync_step_1", "sync_step_2", "sync_update"} => f.edits = {}}

Asks(queue) == \E n \in DOMAIN queue : queue[n].kind = "sync_step_1"
Carries(queue, edit) ==
    \E n \in DOMAIN queue : queue[n].kind # "sync_step_1" /\ edit \in queue[n].edits
Within(queue, doc) == \A n \in DOMAIN queue : queue[n].edits \subseteq doc

(* What a queue holds after a frame is put at its end ... *)
LEMMA Appended ==
    ASSUME NEW q \in Seq(Frames), NEW f \in Frames
    PROVE  /\ Append(q, f) \in Seq(Frames)
           /\ Asks(Append(q, f)) <=> Asks(q) \/ f.kind = "sync_step_1"
           /\ \A e : Carries(Append(q, f), e) <=>
                        Carries(q, e) \/ (f.kind # "sync_step_1" /\ e \in f.edits)
           /\ \A doc : Within(Append(q, f), doc) <=> Within(q, doc) /\ f.edits \subseteq doc
<1>1. /\ Append(q, f) \in Seq(Frames)
      /\ Len(q) \in Nat /\ DOMAIN q = 1 .. Len(q) /\ DOMAIN Append(q, f) = 1 .. Len(q) + 1
      /\ Append(q, f)[Len(q) + 1] = f /\ \A n \in 1 .. Len(q) : Append(q, f)[n] = q[n]
  OBVIOUS
<1> DEFINE z == Append(q, f)
<1>2. \A n \in DOMAIN z : n \in DOMAIN q \/ z[n] = f
  BY <1>1
<1>3. /\ \A n \in DOMAIN q : n \in DOMAIN z /\ z[n] = q[n]
      /\ \E n \in DOMAIN z : z[n] = f
  <2>1. Len(q) + 1 \in DOMAIN z
    BY <1>1
  <2> QED
    BY <1>1, <2>1
<1>4. z \in Seq(Frames)
  BY <1>1
<1> HIDE DEF z
<1>5. Asks(z) <=> Asks(q) \/ f.kind = "sync_step_1"
  BY <1>2, <1>3 DEF Asks
<1>6. \A e : Carries(z, e) <=> Carries(q, e) \/ (f.kind # "sync_step_1" /\ e \in f.edits)
  BY <1>2, <1>3 DEF Carries
<1>7. \A doc : Within(z, doc) <=> Within(q, doc) /\ f.edits \subseteq doc
  BY <1>2, <1>3 DEF Within
<1> QED
  BY <1>4, <1>5, <1>6, <1>7 DEF z

(* ... after its first one is taken away ... *)
LEMMA Taken ==
    ASSUME NEW q \in Seq(Frames), q # <<>>
    PROVE  /\ Head(q) \in Frames /\ Tail(q) \in Seq(Frames)
           /\ Asks(q) <=> Asks(Tail(q)) \/ Head(q).kind = "sync_step_1"
           /\ \A e : Carries(q, e) <=>
                        Carries(Tail(q), e) \/ (Head(q).kind # "sync_step_1" /\ e \in Head(q).edits)
           /\ \A doc : Within(q, doc) <=> Within(Tail(q), doc) /\ Head(q).edits \subseteq doc
<1> DEFINE z == Tail(q)
<1> DEFINE f == Head(q)
<1>1. /\ f \in Frames /\ z \in Seq(Frames) /\ Len(z) = Len(q) - 1
      /\ \A i \in 1 .. Len(z) : z[i] = q[i + 1]
  BY HeadTailProperties
<1>2. /\ Len(q) \in Nat \ {0} /\ DOMAIN q = 1 .. Len(q) /\ Len(z) \in Nat /\ DOMAIN z = 1 .. Len(z)
      /\ f = q[1]
  BY <1>1, EmptySeq, LenProperties
<1>3. \A n \in DOMAIN q : q[n] = f \/ (n - 1 \in DOMAIN z /\ z[n - 1] = q[n])
  <2> SUFFICES ASSUME NEW n \in DOMAIN q, n # 1 PROVE n - 1 \in DOMAIN z /\ z[n - 1] = q[n]
    BY <1>2
  <2>1. n - 1 \in 1 .. Len(z) /\ n \in Int
    BY <1>1, <1>2
  <2>2. z[n - 1] = q[(n - 1) + 1] /\ (n - 1) + 1 = n
    BY <1>1, <2>1
  <2> QED
    BY <1>2, <2>1, <2>2
<1>4. \A n \in DOMAIN z : n + 1 \in DOMAIN q /\ z[n] = q[n + 1]
  BY <1>1, <1>2
<1>5. \E n \in DOMAIN q : q[n] = f
  BY <1>2
<1> HIDE DEF z, f
<1>6. Asks(q) <=> Asks(z) \/ f.kind = "sync_step_1"
  BY <1>3, <1>4, <1>5 DEF Asks
<1>7. \A e : Carries(q, e) <=> Carries(z, e) \/ (f.kind # "sync_step_1" /\ e \in f.edits)
  BY <1>3, <1>4, <1>5 DEF Carries
<1>8. \A doc : Within(q, doc) <=> Within(z, doc) /\ f.edits \subseteq doc
  BY <1>3, <1>4, <1>5 DEF Within
<1> QED
  BY <1>1, <1>6, <1>7, <1>8 DEF z, f

(* ... and after others are put behind it. *)
LEMMA Joined ==
    ASSUME NEW q \in Seq(Frames), NEW s \in Seq(Frames)
    PROVE  /\ q \o s \in Seq(Frames)
           /\ Asks(q \o s) <=> Asks(q) \/ Asks(s)
           /\ \A e : Carries(q \o s, e) <=> Carries(q, e) \/ Carries(s, e)
           /\ \A doc : Within(q \o s, doc) <=> Within(q, doc) /\ Within(s, doc)
<1> DEFINE z == q \o s
<1>1. /\ z \in Seq(Frames) /\ Len(z) = Len(q) + Len(s)
      /\ \A i \in 1 .. Len(q) + Len(s) : z[i] = IF i <= Len(q) THEN q[i] ELSE s[i - Len(q)]
  BY ConcatProperties
<1>2. /\ Len(q) \in Nat /\ DOMAIN q = 1 .. Len(q) /\ Len(s) \in Nat /\ DOMAIN s = 1 .. Len(s)
      /\ DOMAIN z = 1 .. Len(q) + Len(s)
  BY <1>1, LenProperties
<1>3. \A n \in DOMAIN q : n \in DOMAIN z /\ z[n] = q[n]
  BY <1>1, <1>2
<1>4. \A n \in DOMAIN s : Len(q) + n \in DOMAIN z /\ z[Len(q) + n] = s[n]
  <2> SUFFICES ASSUME NEW n \in DOMAIN s PROVE Len(q) + n \in DOMAIN z /\ z[Len(q) + n] = s[n]
    OBVIOUS
  <2>1. n \in Nat /\ Len(q) + n \in DOMAIN z /\ ~(Len(q) + n <= Len(q)) /\ (Len(q) + n) - Len(q) = n
    BY <1>2
  <2> QED
    BY <1>1, <1>2, <2>1
<1>5. \A n \in DOMAIN z : \/ n \in DOMAIN q /\ z[n] = q[n]
                          \/ n - Len(q) \in DOMAIN s /\ z[n] = s[n - Len(q)]
  BY <1>1, <1>2
<1> HIDE DEF z
<1>6. Asks(z) <=> Asks(q) \/ Asks(s)
  BY <1>3, <1>4, <1>5 DEF Asks
<1>7. \A e : Carries(z, e) <=> Carries(q, e) \/ Carries(s, e)
  BY <1>3, <1>4, <1>5 DEF Carries
<1>8. \A doc : Within(z, doc) <=> Within(q, doc) /\ Within(s, doc)
  BY <1>3, <1>4, <1>5 DEF Within
<1> QED
  BY <1>1, <1>6, <1>7, <1>8 DEF z

LEMMA OneFrame ==
    ASSUME NEW f \in Frames
    PROVE  /\ <<f>> \in Seq(Frames)
           /\ Asks(<<f>>) <=> f.kind = "sync_step_1"
           /\ \A e : Carries(<<f>>, e) <=> f.kind # "sync_step_1" /\ e \in f.edits
           /\ \A doc : Within(<<f>>, doc) <=> f.edits \subseteq doc
BY DEF Asks, Carries, Within

LEMMA NoFrames ==
    /\ <<>> \in Seq(Frames) /\ ~Asks(<<>>)
    /\ \A e : ~Carries(<<>>, e)
    /\ \A doc : Within(<<>>, doc)
BY DEF Asks, Carries, Within

(***************************************************************************)
(* The invariant.  Both sides say what they have when a socket opens, and  *)
(* answer with what the other lacks.  Until such a question is read, the   *)
(* side it is going to may hold anything; from then on whatever one side   *)
(* has and the other lacks is in a frame on its way.                       *)
(***************************************************************************)
Level(up, down, mine, doc) ==
    /\ Asks(down) \/ \A e \in mine : e \in doc \/ Carries(up, e)
    /\ Asks(up) \/ \A e \in doc : e \in mine \/ Carries(down, e)

Standing == {"open", "closing", "terminated"}
SocketFields == {"st", "up", "down", "alive", "mute"}

RoomTypes ==
    /\ cur \in [Clients -> 0 .. MaxConnects]
    /\ used \in [Clients -> 0 .. MaxConnects]
    /\ docs \in [Clients -> SUBSET Clients]
    /\ DOMAIN sock = Conns
    /\ \A c \in Conns : /\ DOMAIN sock[c] = SocketFields
                        /\ sock[c].up \in Seq(Frames) /\ sock[c].down \in Seq(Frames)
    /\ DOMAIN room = {"held", "doc", "peers", "aware", "reaper", "joined"}
    /\ room.doc \subseteq Clients
    /\ IsFiniteSet(room.aware)

(* A standing socket is a peer of the room, and no other has frames. *)
Places ==
    /\ \A c \in Conns : sock[c].st \in Standing => c \in room.peers
    /\ \A c \in Conns : sock[c].st \notin Standing => sock[c].up = <<>> /\ sock[c].down = <<>>
    /\ \A c \in connections : c \in Conns /\ sock[c].st \in Standing
    /\ \A p \in Clients : \A n \in 1 .. MaxConnects : n > used[p] => sock[<<p, n>>].st = "none"

(* No frame speaks of an edit its sender does not have. *)
Honest ==
    \A c \in Conns : Within(sock[c].up, docs[Owner(c)]) /\ Within(sock[c].down, room.doc)

Levels ==
    \A p \in Clients :
        Talking(p) => /\ ~sock[Line(p)].mute
                      /\ Level(sock[Line(p)].up, sock[Line(p)].down, docs[p], room.doc)

RoomInv == RoomTypes /\ Places /\ Honest /\ Levels

(* A connection and a client's number for it. *)
LEMMA Lines ==
    /\ \A p \in Clients, n \in 1 .. MaxConnects :
          <<p, n>> \in Conns /\ Owner(<<p, n>>) = p /\ <<p, n>>[2] = n
    /\ \A c \in Conns : Owner(c) \in Clients /\ c[2] \in 1 .. MaxConnects /\ c = <<Owner(c), c[2]>>
BY DEF Conns, Owner

(* A queue that speaks only of what a document holds does so of a larger   *)
(* document.                                                               *)
LEMMA WithinMore ==
    ASSUME NEW q, NEW S, NEW T, Within(q, S), S \subseteq T
    PROVE  Within(q, T)
BY DEF Within

(* A step that changes one socket, and perhaps the document of the client  *)
(* whose socket it is.                                                     *)
LEMMA OneSocket ==
    ASSUME RoomInv, NEW c \in Conns,
           UNCHANGED <<used, room, connections>>,
           DOMAIN sock' = Conns, \A d \in Conns \ {c} : sock'[d] = sock[d],
           DOMAIN sock'[c] = SocketFields, sock'[c].up \in Seq(Frames), sock'[c].down \in Seq(Frames),
           sock'[c].st = sock[c].st \/ (sock[c].st = "open" /\ sock'[c].st = "closing"),
           sock'[c].st \in Standing \/ (sock'[c].up = <<>> /\ sock'[c].down = <<>>),
           cur' \in [Clients -> 0 .. MaxConnects], \A q \in Clients : cur'[q] \in {cur[q], 0},
           docs' \in [Clients -> SUBSET Clients],
           \A q \in Clients : docs[q] \subseteq docs'[q],
           \A q \in Clients : docs'[q] = docs[q] \/ c = <<q, cur[q]>>,
           Within(sock'[c].up, docs'[Owner(c)]), Within(sock'[c].down, room.doc),
           (sock'[c].st = "open" /\ cur'[Owner(c)] = c[2]) =>
               ~sock'[c].mute /\ Level(sock'[c].up, sock'[c].down, docs'[Owner(c)], room.doc)
    PROVE  RoomInv'
<1> DEFINE s == sock'[c]
<1>1. sock'[c] = s /\ DOMAIN sock' = Conns /\ \A d \in Conns \ {c} : sock'[d] = sock[d]
  OBVIOUS
<1>2. RoomTypes'
  BY <1>1 DEF RoomInv, RoomTypes
<1>3. s.st \in Standing <=> sock[c].st \in Standing
  BY DEF Standing
<1>4. Places'
  <2>1. \A d \in Conns : sock'[d].st \in Standing <=> sock[d].st \in Standing
    BY <1>1, <1>3
  <2>2. \A d \in Conns : sock[d].st = "none" => sock'[d].st = "none"
    BY <1>1
  <2>3. \A d \in Conns : sock'[d].st \notin Standing => sock'[d].up = <<>> /\ sock'[d].down = <<>>
    BY <1>1 DEF RoomInv, Places
  <2>4. \A p \in Clients : \A n \in 1 .. MaxConnects : n > used'[p] => sock'[<<p, n>>].st = "none"
    BY <2>2, Lines DEF RoomInv, Places
  <2> QED
    BY <2>1, <2>3, <2>4 DEF RoomInv, Places
<1>5. Honest'
  <2> SUFFICES ASSUME NEW d \in Conns
               PROVE  Within(sock'[d].up, docs'[Owner(d)]) /\ Within(sock'[d].down, room'.doc)
    BY DEF Honest
  <2>1. CASE d = c
    BY <1>1, <2>1
  <2>2. CASE d # c
    <3>1. Within(sock[d].up, docs[Owner(d)]) /\ Within(sock[d].down, room.doc)
      BY DEF RoomInv, Honest
    <3>2. docs[Owner(d)] \subseteq docs'[Owner(d)]
      BY Lines
    <3> QED
      BY <1>1, <2>2, <3>1, <3>2, WithinMore
  <2> QED
    BY <2>1, <2>2
<1>6. Levels'
  <2> SUFFICES ASSUME NEW q \in Clients, cur'[q] # 0, sock'[<<q, cur'[q]>>].st = "open"
               PROVE  /\ ~sock'[<<q, cur'[q]>>].mute
                      /\ Level(sock'[<<q, cur'[q]>>].up, sock'[<<q, cur'[q]>>].down, docs'[q], room'.doc)
    BY DEF Levels, Talking, Line
  <2>1. PICK d : d = <<q, cur'[q]>>
    OBVIOUS
  <2>2. cur'[q] = cur[q] /\ cur[q] \in 1 .. MaxConnects
    BY DEF RoomInv, RoomTypes
  <2>3. d \in Conns /\ Owner(d) = q /\ d[2] = cur'[q] /\ d = <<q, cur[q]>>
    BY <2>1, <2>2, Lines
  <2>4. CASE d = c
    BY <1>1, <2>1, <2>3, <2>4
  <2>5. CASE d # c
    <3>1. sock'[d] = sock[d] /\ docs'[q] = docs[q]
      BY <1>1, <2>3, <2>5
    <3>2. cur[q] # 0 /\ sock[<<q, cur[q]>>].st = "open"
      BY <2>1, <2>2, <2>3, <3>1
    <3>3. ~sock[d].mute /\ Level(sock[d].up, sock[d].down, docs[q], room.doc)
      BY <2>3, <3>2 DEF RoomInv, Levels, Talking, Line
    <3> QED
      BY <2>1, <3>1, <3>3
  <2> QED
    BY <2>4, <2>5
<1> QED
  BY <1>2, <1>4, <1>5, <1>6 DEF RoomInv

(* A client's line is one of its connections. *)
LEMMA LineOf ==
    ASSUME RoomInv, NEW p \in Clients, cur[p] # 0
    PROVE  Line(p) \in Conns /\ Owner(Line(p)) = p /\ Line(p)[2] = cur[p] /\ Line(p) = <<p, cur[p]>>
<1>1. cur[p] \in 1 .. MaxConnects
  BY DEF RoomInv, RoomTypes
<1> QED
  BY <1>1, Lines DEF Line

(* What the frames of this program are. *)
LEMMA FramesMade ==
    /\ \A S \in SUBSET Clients : /\ Step1(S) \in Frames /\ Step1(S).kind = "sync_step_1" /\ Step1(S).edits = S
                                 /\ Step2(S) \in Frames /\ Step2(S).kind = "sync_step_2" /\ Step2(S).edits = S
                                 /\ Update(S) \in Frames /\ Update(S).kind = "sync_update" /\ Update(S).edits = S
    /\ \A kind \in OddKinds \cup {"awareness"} :
          Bare(kind) \in Frames /\ Bare(kind).kind = kind /\ Bare(kind).edits = {} /\ kind # "sync_step_1"
BY DEF Frames, FrameKinds, OddKinds, Step1, Step2, Update, Bare

(* What is put on a line that is open leaves both sides level when it      *)
(* carries what the client adds to its document.                           *)
LEMMA SaysStep ==
    ASSUME RoomInv, NEW p \in Clients, Talking(p), NEW frame \in Frames, frame.kind # "sync_step_1",
           frame.edits \subseteq docs'[p], Says(p, frame),
           UNCHANGED <<used, room, connections, cur>>,
           docs' = [docs EXCEPT ![p] = @ \cup frame.edits]
    PROVE  RoomInv'
<1> DEFINE c == Line(p)
<1> DEFINE s == [sock[c] EXCEPT !.up = Append(@, frame)]
<1>1. cur[p] # 0 /\ sock[c].st = "open"
  BY DEF Talking, Line
<1>2. c \in Conns /\ Owner(c) = p /\ c[2] = cur[p] /\ c = <<p, cur[p]>>
  BY <1>1, LineOf
<1>3. /\ ~sock[c].mute /\ Level(sock[c].up, sock[c].down, docs[p], room.doc)
      /\ sock[c].up \in Seq(Frames) /\ sock[c].down \in Seq(Frames) /\ DOMAIN sock[c] = SocketFields
      /\ Within(sock[c].up, docs[p]) /\ Within(sock[c].down, room.doc)
  BY <1>2 DEF RoomInv, Levels, RoomTypes, Honest
<1>4. /\ docs' \in [Clients -> SUBSET Clients] /\ docs'[p] = docs[p] \cup frame.edits
      /\ \A q \in Clients : docs[q] \subseteq docs'[q] /\ (docs'[q] = docs[q] \/ q = p)
  BY DEF RoomInv, RoomTypes, Frames
<1>5. DOMAIN sock' = Conns /\ sock'[c] = s /\ \A d \in Conns \ {c} : sock'[d] = sock[d]
  BY <1>2 DEF Says, RoomInv, RoomTypes
<1>6. /\ DOMAIN s = SocketFields /\ s.st = sock[c].st /\ s.mute = sock[c].mute
      /\ s.up = Append(sock[c].up, frame) /\ s.down = sock[c].down
  BY <1>3 DEF SocketFields
<1> DEFINE up == sock[c].up
<1>7. /\ s.up \in Seq(Frames)
      /\ Asks(up) => Asks(s.up)
      /\ \A e : Carries(s.up, e) <=> Carries(up, e) \/ e \in frame.edits
      /\ Within(s.up, docs'[p])
  <2>1. Within(up, docs'[p])
    BY <1>3, <1>4, WithinMore
  <2> QED
    BY <1>3, <1>6, <2>1, Appended
<1> HIDE DEF s, c
<1>8. Level(s.up, s.down, docs'[p], room.doc)
  BY <1>3, <1>4, <1>6, <1>7 DEF Level
<1>9. s.st \in Standing
  BY <1>1, <1>6 DEF Standing
<1>10. cur' \in [Clients -> 0 .. MaxConnects] /\ \A q \in Clients : cur'[q] \in {cur[q], 0}
  BY DEF RoomInv, RoomTypes
<1> QED
  BY <1>2, <1>3, <1>4, <1>5, <1>6, <1>7, <1>8, <1>9, <1>10, OneSocket

(* A client that edits with no line keeps the edit for the next one. *)
LEMMA EditStep ==
    ASSUME RoomInv, NEW p \in Clients, Edit(p)
    PROVE  RoomInv'
<1>1. CASE Talking(p)
  <2>1. Update({p}) \in Frames /\ Update({p}).kind = "sync_update" /\ Update({p}).edits = {p}
    BY FramesMade
  <2>2. docs' = [docs EXCEPT ![p] = @ \cup {p}] /\ Says(p, Update({p}))
    BY <1>1 DEF Edit
  <2>3. {p} \subseteq docs'[p]
    BY <2>2 DEF RoomInv, RoomTypes
  <2> QED
    BY <1>1, <2>1, <2>2, <2>3, SaysStep DEF Edit
<1>2. CASE ~Talking(p)
  <2>1. UNCHANGED <<sock, cur, used, room, connections>> /\ docs' = [docs EXCEPT ![p] = @ \cup {p}]
    BY <1>2 DEF Edit
  <2>2. /\ docs' \in [Clients -> SUBSET Clients]
        /\ \A q \in Clients : docs[q] \subseteq docs'[q] /\ (q # p => docs'[q] = docs[q])
    BY <2>1 DEF RoomInv, RoomTypes
  <2>3. RoomTypes' /\ Places'
    BY <2>1, <2>2 DEF RoomInv, RoomTypes, Places
  <2>4. Honest'
    <3> SUFFICES ASSUME NEW d \in Conns
                 PROVE  Within(sock[d].up, docs'[Owner(d)]) /\ Within(sock[d].down, room.doc)
      BY <2>1 DEF Honest
    <3>1. docs[Owner(d)] \subseteq docs'[Owner(d)]
      BY <2>2, Lines
    <3> QED
      BY <3>1, WithinMore DEF RoomInv, Honest
  <2>5. Levels'
    BY <1>2, <2>1, <2>2 DEF RoomInv, Levels, Talking, Line
  <2> QED
    BY <2>3, <2>4, <2>5 DEF RoomInv
<1> QED
  BY <1>1, <1>2

(* Presence and stray frames carry nothing. *)
LEMMA OddStep ==
    ASSUME RoomInv, NEW p \in Clients, NEW kind \in OddKinds \cup {"awareness"}, Talking(p),
           Says(p, Bare(kind)), UNCHANGED <<cur, used, docs, room, connections>>
    PROVE  RoomInv'
<1>1. Bare(kind) \in Frames /\ Bare(kind).kind # "sync_step_1" /\ Bare(kind).edits = {}
  BY FramesMade
<1>2. docs' = [docs EXCEPT ![p] = @ \cup Bare(kind).edits]
  BY <1>1 DEF RoomInv, RoomTypes
<1> QED
  BY <1>1, <1>2, SaysStep

(* A client answers the room's question with what the room lacked when it  *)
(* asked, and takes in everything else it reads.                           *)
LEMMA ReadStep ==
    ASSUME RoomInv, NEW p \in Clients, ClientReads(p)
    PROVE  RoomInv'
<1> DEFINE c == Line(p)
<1> DEFINE frame == Head(sock[c].down)
<1> DEFINE rest == [sock[c] EXCEPT !.down = Tail(@)]
<1> DEFINE s == IF frame.kind = "sync_step_1"
                THEN [rest EXCEPT !.up = Append(@, Step2(docs[p] \ frame.edits))] ELSE rest
<1>1. cur[p] # 0 /\ sock[c].down # <<>>
  BY DEF ClientReads
<1>2. c \in Conns /\ Owner(c) = p /\ c[2] = cur[p] /\ c = <<p, cur[p]>>
  BY <1>1, LineOf
<1>3. /\ sock[c].up \in Seq(Frames) /\ sock[c].down \in Seq(Frames) /\ DOMAIN sock[c] = SocketFields
      /\ Within(sock[c].up, docs[p]) /\ Within(sock[c].down, room.doc) /\ docs[p] \in SUBSET Clients
      /\ sock[c].st \in Standing
  BY <1>1, <1>2 DEF RoomInv, RoomTypes, Honest, Places
<1>4. sock[c].st = "open" => ~sock[c].mute /\ Level(sock[c].up, sock[c].down, docs[p], room.doc)
  BY <1>1 DEF RoomInv, Levels, Talking, Line
<1>5. /\ UNCHANGED <<cur, used, room, connections>>
      /\ DOMAIN sock' = Conns /\ sock'[c] = s /\ \A d \in Conns \ {c} : sock'[d] = sock[d]
      /\ docs' = [docs EXCEPT ![p] = IF frame.kind = "sync_step_1" THEN @ ELSE @ \cup frame.edits]
  BY <1>2 DEF ClientReads, RoomInv, RoomTypes
<1> DEFINE down == Tail(sock[c].down)
<1>6. /\ frame \in Frames /\ down \in Seq(Frames) /\ frame.edits \subseteq Clients
      /\ Asks(sock[c].down) <=> Asks(down) \/ frame.kind = "sync_step_1"
      /\ \A e : Carries(sock[c].down, e) <=>
                   Carries(down, e) \/ (frame.kind # "sync_step_1" /\ e \in frame.edits)
      /\ Within(down, room.doc) /\ frame.edits \subseteq room.doc
  BY <1>1, <1>3, Taken DEF Frames
<1>7. /\ docs' \in [Clients -> SUBSET Clients]
      /\ docs'[p] = (IF frame.kind = "sync_step_1" THEN docs[p] ELSE docs[p] \cup frame.edits)
      /\ \A q \in Clients : docs[q] \subseteq docs'[q] /\ (docs'[q] = docs[q] \/ q = p)
  BY <1>5, <1>6 DEF RoomInv, RoomTypes
<1>8. cur' \in [Clients -> 0 .. MaxConnects] /\ \A q \in Clients : cur'[q] \in {cur[q], 0}
  BY <1>5 DEF RoomInv, RoomTypes
<1>9. /\ DOMAIN rest = SocketFields /\ rest.st = sock[c].st /\ rest.mute = sock[c].mute
      /\ rest.up = sock[c].up /\ rest.down = down
  BY <1>3 DEF SocketFields
<1> HIDE DEF down, rest
<1>10. CASE frame.kind = "sync_step_1"
  <2> DEFINE reply == Step2(docs[p] \ frame.edits)
  <2>1. /\ DOMAIN s = SocketFields /\ s.st = sock[c].st /\ s.mute = sock[c].mute
        /\ s.up = Append(sock[c].up, reply) /\ s.down = down
    BY <1>9, <1>10 DEF SocketFields
  <2>2. reply \in Frames /\ reply.kind # "sync_step_1" /\ reply.edits = docs[p] \ frame.edits
    <3>1. docs[p] \ frame.edits \in SUBSET Clients
      BY <1>3
    <3> QED
      BY <3>1, FramesMade
  <2> HIDE DEF reply, s
  <2>3. /\ s.up \in Seq(Frames) /\ (Asks(sock[c].up) => Asks(s.up))
        /\ \A e : Carries(s.up, e) <=> Carries(sock[c].up, e) \/ e \in docs[p] \ frame.edits
        /\ Within(s.up, docs[p])
    <3>1. docs[p] \ frame.edits \subseteq docs[p]
      OBVIOUS
    <3> QED
      BY <1>3, <2>1, <2>2, <3>1, Appended
  <2>4. s.st = "open" => ~s.mute /\ Level(s.up, s.down, docs'[p], room.doc)
    BY <1>4, <1>6, <1>7, <1>10, <2>1, <2>3 DEF Level
  <2>5. docs'[p] = docs[p]
    BY <1>7, <1>10
  <2> QED
    BY <1>2, <1>3, <1>5, <1>6, <1>7, <1>8, <2>1, <2>3, <2>4, <2>5, OneSocket
<1>11. CASE frame.kind # "sync_step_1"
  <2>1. s = rest
    BY <1>11
  <2> HIDE DEF s
  <2>2. s.st = "open" => ~s.mute /\ Level(s.up, s.down, docs'[p], room.doc)
    BY <1>4, <1>6, <1>7, <1>9, <1>11, <2>1 DEF Level
  <2>3. Within(s.up, docs'[p])
    BY <1>3, <1>7, <1>9, <2>1, WithinMore
  <2>4. /\ DOMAIN sock'[c] = SocketFields /\ sock'[c].up \in Seq(Frames) /\ sock'[c].down \in Seq(Frames)
        /\ sock'[c].st = sock[c].st /\ sock'[c].st \in Standing
        /\ Within(sock'[c].up, docs'[p]) /\ Within(sock'[c].down, room.doc)
        /\ sock'[c].st = "open" => ~sock'[c].mute /\ Level(sock'[c].up, sock'[c].down, docs'[p], room.doc)
    BY <1>3, <1>5, <1>6, <1>9, <2>1, <2>2, <2>3
  <2> QED
    BY <1>2, <1>5, <1>7, <1>8, <2>4, OneSocket
<1> QED
  BY <1>10, <1>11

(* A line that drops takes its frames with it and is no longer a line. *)
LEMMA VanishStep ==
    ASSUME RoomInv, NEW p \in Clients, Vanish(p)
    PROVE  RoomInv'
<1> DEFINE c == Line(p)
<1> DEFINE s == [sock[c] EXCEPT !.mute = TRUE, !.up = <<>>, !.down = <<>>]
<1>1. cur[p] # 0 /\ cur' = [cur EXCEPT ![p] = 0] /\ UNCHANGED <<used, docs, room, connections>>
  BY DEF Vanish
<1>2. c \in Conns /\ Owner(c) = p /\ c[2] = cur[p]
  BY <1>1, LineOf
<1>3. DOMAIN sock[c] = SocketFields /\ DOMAIN sock = Conns
  BY <1>2 DEF RoomInv, RoomTypes
<1>4. DOMAIN sock' = Conns /\ sock'[c] = s /\ \A d \in Conns \ {c} : sock'[d] = sock[d]
  BY <1>2, <1>3 DEF Vanish
<1>5. DOMAIN s = SocketFields /\ s.st = sock[c].st /\ s.up = <<>> /\ s.down = <<>>
  BY <1>3 DEF SocketFields
<1> HIDE DEF s
<1>6. cur' \in [Clients -> 0 .. MaxConnects] /\ (\A q \in Clients : cur'[q] \in {cur[q], 0})
      /\ cur'[p] # c[2]
  BY <1>1, <1>2, CollabBounds DEF RoomInv, RoomTypes
<1>7. docs' \in [Clients -> SUBSET Clients] /\ \A q \in Clients : docs[q] = docs'[q]
  BY <1>1 DEF RoomInv, RoomTypes
<1>8. /\ sock'[c].up \in Seq(Frames) /\ sock'[c].down \in Seq(Frames)
      /\ Within(sock'[c].up, docs'[p]) /\ Within(sock'[c].down, room.doc)
  BY <1>4, <1>5, NoFrames
<1> QED
  BY <1>1, <1>2, <1>4, <1>5, <1>6, <1>7, <1>8, OneSocket

(* A socket whose first frame the server takes up. *)
LEMMA Handled ==
    ASSUME RoomInv, NEW c \in Conns, sock[c].st \in {"open", "closing"}, sock[c].up # <<>>
    PROVE  /\ sock[c].up \in Seq(Frames) /\ sock[c].down \in Seq(Frames) /\ DOMAIN sock[c] = SocketFields
           /\ Head(sock[c].up) \in Frames /\ Tail(sock[c].up) \in Seq(Frames)
           /\ Asks(sock[c].up) <=> Asks(Tail(sock[c].up)) \/ Head(sock[c].up).kind = "sync_step_1"
           /\ \A e : Carries(sock[c].up, e) <=>
                 \/ Carries(Tail(sock[c].up), e)
                 \/ Head(sock[c].up).kind # "sync_step_1" /\ e \in Head(sock[c].up).edits
           /\ Within(Tail(sock[c].up), docs[Owner(c)]) /\ Head(sock[c].up).edits \subseteq docs[Owner(c)]
           /\ Within(sock[c].down, room.doc) /\ sock[c].st \in Standing /\ c \in room.peers
           /\ (sock[c].st = "open" /\ cur[Owner(c)] = c[2]) =>
                 ~sock[c].mute /\ Level(sock[c].up, sock[c].down, docs[Owner(c)], room.doc)
<1>1. /\ sock[c].up \in Seq(Frames) /\ sock[c].down \in Seq(Frames) /\ DOMAIN sock[c] = SocketFields
      /\ Within(sock[c].up, docs[Owner(c)]) /\ Within(sock[c].down, room.doc)
      /\ sock[c].st \in Standing /\ c \in room.peers
  BY DEF RoomInv, RoomTypes, Honest, Places, Standing
<1>2. ASSUME sock[c].st = "open", cur[Owner(c)] = c[2]
      PROVE  ~sock[c].mute /\ Level(sock[c].up, sock[c].down, docs[Owner(c)], room.doc)
  <2>1. Owner(c) \in Clients /\ c = <<Owner(c), cur[Owner(c)]>> /\ cur[Owner(c)] # 0
    BY <1>2, Lines
  <2>2. Talking(Owner(c)) /\ Line(Owner(c)) = c
    BY <1>2, <2>1 DEF Talking, Line
  <2> QED
    BY <2>1, <2>2 DEF RoomInv, Levels
<1> QED
  BY <1>1, <1>2, Taken

(* An answer to one socket: its first frame is taken up and what follows   *)
(* is put behind what it was already sent, if it can still be sent to.     *)
LEMMA AnswerSocket ==
    ASSUME RoomInv, NEW c \in Conns, sock[c].st \in {"open", "closing"}, sock[c].up # <<>>,
           NEW frames \in Seq(Frames), ~Asks(frames), Within(frames, room.doc),
           Head(sock[c].up).kind # "sync_step_1" => Head(sock[c].up).edits = {},
           Head(sock[c].up).kind = "sync_step_1" =>
               \A e \in room.doc : e \in Head(sock[c].up).edits \/ Carries(frames, e),
           sock' = [sock EXCEPT ![c] = Sent([sock[c] EXCEPT !.up = Tail(@)], frames)],
           UNCHANGED <<cur, used, docs, room, connections>>
    PROVE  RoomInv'
<1> DEFINE rest == [sock[c] EXCEPT !.up = Tail(@)]
<1> DEFINE up == Tail(sock[c].up)
<1> DEFINE frame == Head(sock[c].up)
<1>1. /\ sock[c].down \in Seq(Frames) /\ DOMAIN sock[c] = SocketFields /\ up \in Seq(Frames)
      /\ Asks(sock[c].up) <=> Asks(up) \/ frame.kind = "sync_step_1"
      /\ \A e : Carries(sock[c].up, e) <=> Carries(up, e) \/ (frame.kind # "sync_step_1" /\ e \in frame.edits)
      /\ Within(up, docs[Owner(c)]) /\ frame.edits \subseteq docs[Owner(c)]
      /\ Within(sock[c].down, room.doc) /\ sock[c].st \in Standing
      /\ (sock[c].st = "open" /\ cur[Owner(c)] = c[2]) =>
            ~sock[c].mute /\ Level(sock[c].up, sock[c].down, docs[Owner(c)], room.doc)
  BY Handled
<1>2. /\ DOMAIN rest = SocketFields /\ rest.st = sock[c].st /\ rest.mute = sock[c].mute
      /\ rest.up = up /\ rest.down = sock[c].down
  BY <1>1 DEF SocketFields
<1>3. DOMAIN sock' = Conns /\ sock'[c] = Sent(rest, frames) /\ \A d \in Conns \ {c} : sock'[d] = sock[d]
  <2>1. DOMAIN sock = Conns
    BY DEF RoomInv, RoomTypes
  <2>2. PICK new : new = Sent(rest, frames)
    OBVIOUS
  <2>3. sock' = [sock EXCEPT ![c] = new]
    BY <2>2
  <2> QED
    BY <2>1, <2>2, <2>3
<1>4. /\ cur' \in [Clients -> 0 .. MaxConnects] /\ docs' \in [Clients -> SUBSET Clients]
      /\ \A q \in Clients : cur'[q] = cur[q] /\ docs'[q] = docs[q]
  BY DEF RoomInv, RoomTypes
<1> HIDE DEF rest, up, frame
<1>5. CASE rest.st = "open" /\ ~rest.mute
  <2>1. sock'[c] = [rest EXCEPT !.down = @ \o frames]
    BY <1>3, <1>5 DEF Sent
  <2> DEFINE down == sock[c].down \o frames
  <2>2. /\ DOMAIN sock'[c] = SocketFields /\ sock'[c].st = sock[c].st /\ sock'[c].mute = sock[c].mute
        /\ sock'[c].up = up /\ sock'[c].down = down
    BY <1>2, <2>1 DEF SocketFields
  <2>3. /\ down \in Seq(Frames) /\ (Asks(down) <=> Asks(sock[c].down)) /\ Within(down, room.doc)
        /\ \A e : Carries(down, e) <=> Carries(sock[c].down, e) \/ Carries(frames, e)
    BY <1>1, Joined
  <2> HIDE DEF down
  <2>4. ASSUME cur[Owner(c)] = c[2] PROVE Level(up, down, docs[Owner(c)], room.doc)
    <3>1. Level(sock[c].up, sock[c].down, docs[Owner(c)], room.doc)
      BY <1>1, <1>2, <1>5, <2>4
    <3>2. CASE frame.kind = "sync_step_1"
      <4>1. \A e \in room.doc : e \in docs[Owner(c)] \/ Carries(down, e)
        BY <1>1, <2>3, <3>2 DEF frame
      <4>2. Asks(down) \/ \A e \in docs[Owner(c)] : e \in room.doc \/ Carries(up, e)
        BY <1>1, <2>3, <3>1, <3>2 DEF Level
      <4> QED
        BY <4>1, <4>2 DEF Level
    <3>3. CASE frame.kind # "sync_step_1"
      <4>1. frame.edits = {}
        BY <3>3 DEF frame
      <4> QED
        BY <1>1, <2>3, <3>1, <3>3, <4>1 DEF Level
    <3> QED
      BY <3>2, <3>3
  <2>5. ~sock'[c].mute /\ Owner(c) \in Clients
    BY <1>2, <1>5, <2>2, Lines
  <2> QED
    BY <1>1, <1>3, <1>4, <2>2, <2>3, <2>4, <2>5, OneSocket
<1>6. CASE ~(rest.st = "open" /\ ~rest.mute)
  <2>1. sock'[c] = rest
    BY <1>3, <1>6 DEF Sent
  <2>2. ~(sock'[c].st = "open" /\ cur[Owner(c)] = c[2]) /\ Owner(c) \in Clients
    BY <1>1, <1>2, <1>6, <2>1, Lines
  <2>3. /\ DOMAIN sock'[c] = SocketFields /\ sock'[c].st = sock[c].st /\ sock'[c].st \in Standing
        /\ sock'[c].up \in Seq(Frames) /\ sock'[c].down \in Seq(Frames)
        /\ Within(sock'[c].up, docs'[Owner(c)]) /\ Within(sock'[c].down, room.doc)
    BY <1>1, <1>2, <2>1
  <2> QED
    BY <1>3, <1>4, <2>2, <2>3, OneSocket
<1> QED
  BY <1>5, <1>6

(* The room's answer to a question is what the client lacked. *)
LEMMA AnswerStep1Keeps ==
    ASSUME RoomInv, NEW c \in Conns, sock[c].st \in {"open", "closing"}, sock[c].up # <<>>,
           Head(sock[c].up).kind = "sync_step_1", AnswerStep1(c, Head(sock[c].up)),
           UNCHANGED <<cur, used, docs, connections>>
    PROVE  RoomInv'
<1> DEFINE lacks == room.doc \ Head(sock[c].up).edits
<1>1. lacks \in SUBSET Clients /\ lacks \subseteq room.doc
  BY DEF RoomInv, RoomTypes
<1>2. Step2(lacks) \in Frames /\ Step2(lacks).kind # "sync_step_1" /\ Step2(lacks).edits = lacks
  BY <1>1, FramesMade
<1>3. /\ <<Step2(lacks)>> \in Seq(Frames) /\ ~Asks(<<Step2(lacks)>>)
      /\ \A e : Carries(<<Step2(lacks)>>, e) <=> e \in lacks
      /\ Within(<<Step2(lacks)>>, room.doc)
  BY <1>1, <1>2, OneFrame
<1>4. \A e \in room.doc : e \in Head(sock[c].up).edits \/ Carries(<<Step2(lacks)>>, e)
  BY <1>3
<1>5. sock' = [sock EXCEPT ![c] = Sent([sock[c] EXCEPT !.up = Tail(@)], <<Step2(lacks)>>)] /\ room' = room
  BY DEF AnswerStep1
<1> QED
  BY <1>3, <1>4, <1>5, AnswerSocket

LEMMA AwarenessFrames ==
    ASSUME RoomInv, NEW c
    PROVE  /\ AwarenessOfOthers(c) \in Seq(Frames) /\ ~Asks(AwarenessOfOthers(c))
           /\ \A doc : Within(AwarenessOfOthers(c), doc)
<1> DEFINE others == AwarenessOfOthers(c)
<1>1. Cardinality(room.aware \ {c}) \in Nat
  BY FS_RemoveElement, FS_CardinalityType DEF RoomInv, RoomTypes
<1>2. Bare("awareness") \in Frames /\ Bare("awareness").kind = "awareness" /\ Bare("awareness").edits = {}
  BY FramesMade
<1>3. DOMAIN others = 1 .. Cardinality(room.aware \ {c}) /\ \A n \in DOMAIN others : others[n] = Bare("awareness")
  BY DEF AwarenessOfOthers
<1>4. others \in Seq(Frames)
  <2>1. PICK k \in Nat : k = Cardinality(room.aware \ {c})
    BY <1>1
  <2>2. [n \in 1 .. k |-> Bare("awareness")] \in [1 .. k -> Frames]
    BY <1>2
  <2>3. [n \in 1 .. k |-> Bare("awareness")] \in Seq(Frames)
    BY <2>2, SeqDef
  <2> QED
    BY <2>1, <2>3 DEF AwarenessOfOthers
<1> HIDE DEF others
<1>5. ~Asks(others) /\ \A doc : Within(others, doc)
  BY <1>2, <1>3 DEF Asks, Within
<1> QED
  BY <1>4, <1>5 DEF others

LEMMA AnswerQueryKeeps ==
    ASSUME RoomInv, NEW c \in Conns, sock[c].st \in {"open", "closing"}, sock[c].up # <<>>,
           Head(sock[c].up).kind = "query_awareness", AnswerQuery(c),
           UNCHANGED <<cur, used, docs, connections>>
    PROVE  RoomInv'
<1>1. /\ AwarenessOfOthers(c) \in Seq(Frames) /\ ~Asks(AwarenessOfOthers(c))
      /\ Within(AwarenessOfOthers(c), room.doc)
  BY AwarenessFrames
<1>2. Head(sock[c].up).edits = {}
  BY Handled DEF Frames
<1>3. sock' = [sock EXCEPT ![c] = Sent([sock[c] EXCEPT !.up = Tail(@)], AwarenessOfOthers(c))] /\ room' = room
  BY DEF AnswerQuery
<1> QED
  BY <1>1, <1>2, <1>3, AnswerSocket

(* A frame the server does not act on is dropped, and may cost the socket. *)
LEMMA DropKeeps ==
    ASSUME RoomInv, NEW c \in Conns, sock[c].st \in {"open", "closing"}, sock[c].up # <<>>,
           Head(sock[c].up).kind \in OddKinds, NEW closes \in BOOLEAN, Drop(c, closes),
           UNCHANGED <<cur, used, docs, connections>>
    PROVE  RoomInv'
<1> DEFINE up == Tail(sock[c].up)
<1> DEFINE s == [sock[c] EXCEPT !.up = Tail(@), !.st = IF closes THEN "closing" ELSE @]
<1>1. Head(sock[c].up).edits = {} /\ Head(sock[c].up).kind # "sync_step_1"
  BY Handled DEF Frames, OddKinds
<1>2. /\ sock[c].down \in Seq(Frames) /\ DOMAIN sock[c] = SocketFields /\ up \in Seq(Frames)
      /\ Asks(sock[c].up) <=> Asks(up)
      /\ \A e : Carries(sock[c].up, e) <=> Carries(up, e)
      /\ Within(up, docs[Owner(c)]) /\ Within(sock[c].down, room.doc) /\ sock[c].st \in Standing
      /\ (sock[c].st = "open" /\ cur[Owner(c)] = c[2]) =>
            ~sock[c].mute /\ Level(sock[c].up, sock[c].down, docs[Owner(c)], room.doc)
  BY <1>1, Handled
<1>3. DOMAIN sock' = Conns /\ sock'[c] = s /\ (\A d \in Conns \ {c} : sock'[d] = sock[d]) /\ room' = room
  <2>1. DOMAIN sock = Conns
    BY DEF RoomInv, RoomTypes
  <2>2. PICK new : new = s
    OBVIOUS
  <2>3. sock' = [sock EXCEPT ![c] = new] /\ room' = room
    BY <2>2 DEF Drop
  <2> QED
    BY <2>1, <2>2, <2>3
<1>4. /\ DOMAIN s = SocketFields /\ s.st = (IF closes THEN "closing" ELSE sock[c].st)
      /\ s.mute = sock[c].mute /\ s.up = up /\ s.down = sock[c].down
  BY <1>2 DEF SocketFields
<1>5. /\ cur' \in [Clients -> 0 .. MaxConnects] /\ docs' \in [Clients -> SUBSET Clients]
      /\ \A q \in Clients : cur'[q] = cur[q] /\ docs'[q] = docs[q]
  BY DEF RoomInv, RoomTypes
<1> HIDE DEF s, up
<1>6. s.st = "open" /\ cur[Owner(c)] = c[2] =>
          ~s.mute /\ Level(s.up, s.down, docs[Owner(c)], room.doc)
  BY <1>2, <1>4 DEF Level
<1>7. /\ DOMAIN sock'[c] = SocketFields /\ sock'[c].up \in Seq(Frames) /\ sock'[c].down \in Seq(Frames)
      /\ sock'[c].st = sock[c].st \/ (sock[c].st = "open" /\ sock'[c].st = "closing")
      /\ sock'[c].st \in Standing /\ Owner(c) \in Clients
      /\ Within(sock'[c].up, docs'[Owner(c)]) /\ Within(sock'[c].down, room.doc)
  BY <1>2, <1>3, <1>4, Lines DEF Standing
<1>8. sock'[c].st = "open" /\ cur'[Owner(c)] = c[2] =>
          ~sock'[c].mute /\ Level(sock'[c].up, sock'[c].down, docs'[Owner(c)], room.doc)
  BY <1>3, <1>6
<1> QED
  BY <1>3, <1>5, <1>7, <1>8, OneSocket

(* A frame relayed to the other peers: what it adds to the room's document *)
(* is on its way to every client that is still there.                      *)
LEMMA RelayStep ==
    ASSUME RoomInv, NEW c \in Conns, sock[c].st \in {"open", "closing"}, sock[c].up # <<>>,
           NEW g \in Frames, g.kind # "sync_step_1", Head(sock[c].up).kind # "sync_step_1",
           g.edits = Head(sock[c].up).edits,
           sock' = Broadcast([sock EXCEPT ![c].up = Tail(@)], c, g),
           DOMAIN room' = DOMAIN room, room'.doc = room.doc \cup g.edits, room'.peers = room.peers,
           IsFiniteSet(room'.aware),
           UNCHANGED <<cur, used, docs, connections>>
    PROVE  RoomInv'
<1> DEFINE up == Tail(sock[c].up)
<1> DEFINE frame == Head(sock[c].up)
<1> DEFINE taken == [sock EXCEPT ![c].up = Tail(@)]
<1>1. /\ sock[c].down \in Seq(Frames) /\ DOMAIN sock[c] = SocketFields /\ up \in Seq(Frames)
      /\ frame \in Frames
      /\ Asks(sock[c].up) <=> Asks(up)
      /\ \A e : Carries(sock[c].up, e) <=> Carries(up, e) \/ e \in frame.edits
      /\ Within(up, docs[Owner(c)]) /\ frame.edits \subseteq docs[Owner(c)]
      /\ Within(sock[c].down, room.doc) /\ sock[c].st \in Standing /\ c \in room.peers
      /\ (sock[c].st = "open" /\ cur[Owner(c)] = c[2]) =>
            ~sock[c].mute /\ Level(sock[c].up, sock[c].down, docs[Owner(c)], room.doc)
  BY Handled
<1>2. /\ DOMAIN taken = Conns /\ (\A d \in Conns \ {c} : taken[d] = sock[d])
      /\ taken[c] = [sock[c] EXCEPT !.up = up]
  BY DEF RoomInv, RoomTypes
<1>3. /\ DOMAIN taken[c] = SocketFields /\ taken[c].st = sock[c].st /\ taken[c].mute = sock[c].mute
      /\ taken[c].up = up /\ taken[c].down = sock[c].down
  BY <1>1, <1>2 DEF SocketFields
<1>4. /\ DOMAIN sock' = Conns /\ sock'[c] = taken[c]
      /\ \A d \in Conns \ {c} : \/ d \in room.peers /\ sock'[d] = Sent(sock[d], <<g>>)
                                \/ d \notin room.peers /\ sock'[d] = sock[d]
  BY <1>2 DEF Broadcast
<1> HIDE DEF taken
<1>5. ASSUME NEW d \in Conns \ {c}
      PROVE  /\ DOMAIN sock'[d] = SocketFields /\ sock'[d].st = sock[d].st /\ sock'[d].mute = sock[d].mute
             /\ sock'[d].up = sock[d].up
             /\ sock'[d].down = (IF d \in room.peers /\ sock[d].st = "open" /\ ~sock[d].mute
                                 THEN sock[d].down \o <<g>> ELSE sock[d].down)
  <2>1. DOMAIN sock[d] = SocketFields
    BY DEF RoomInv, RoomTypes
  <2> QED
    BY <1>4, <2>1 DEF Sent, SocketFields
<1>6. /\ <<g>> \in Seq(Frames) /\ ~Asks(<<g>>) /\ (\A e : Carries(<<g>>, e) <=> e \in g.edits)
      /\ \A doc : Within(<<g>>, doc) <=> g.edits \subseteq doc
  BY OneFrame
<1>7. ASSUME NEW d \in Conns
      PROVE  sock[d].up \in Seq(Frames) /\ sock[d].down \in Seq(Frames) /\ sock[d].down \o <<g>> \in Seq(Frames)
             /\ (Asks(sock[d].down \o <<g>>) <=> Asks(sock[d].down))
             /\ (\A e : Carries(sock[d].down \o <<g>>, e) <=> Carries(sock[d].down, e) \/ e \in g.edits)
             /\ Within(sock[d].down, room'.doc) /\ Within(sock[d].down \o <<g>>, room'.doc)
  <2>1. sock[d].up \in Seq(Frames) /\ sock[d].down \in Seq(Frames) /\ Within(sock[d].down, room.doc)
    BY DEF RoomInv, RoomTypes, Honest
  <2>2. Within(sock[d].down, room'.doc) /\ Within(<<g>>, room'.doc)
    <3>1. room.doc \subseteq room'.doc /\ g.edits \subseteq room'.doc
      OBVIOUS
    <3> QED
      BY <1>6, <2>1, <3>1, WithinMore
  <2> QED
    BY <1>6, <2>1, <2>2, Joined
<1>8. RoomTypes'
  <2>1. room'.doc \subseteq Clients
    BY DEF Frames, RoomInv, RoomTypes
  <2>2. ASSUME NEW d \in Conns
        PROVE  DOMAIN sock'[d] = SocketFields /\ sock'[d].up \in Seq(Frames) /\ sock'[d].down \in Seq(Frames)
    <3>1. CASE d = c
      BY <1>1, <1>3, <1>4, <3>1
    <3>2. CASE d # c
      BY <1>5, <1>7, <3>2
    <3> QED
      BY <3>1, <3>2
  <2> QED
    BY <1>4, <2>1, <2>2 DEF RoomInv, RoomTypes
<1>9. Places'
  <2>1. ASSUME NEW d \in Conns PROVE sock'[d].st = sock[d].st
    <3>1. CASE d = c
      BY <1>3, <1>4, <3>1
    <3>2. CASE d # c
      BY <1>5, <3>2
    <3> QED
      BY <3>1, <3>2
  <2>2. ASSUME NEW d \in Conns, sock'[d].st \notin Standing
        PROVE  sock'[d].up = <<>> /\ sock'[d].down = <<>>
    <3>1. d # c /\ sock[d].st \notin Standing /\ sock[d].st # "open"
      BY <1>1, <2>1, <2>2 DEF Standing
    <3> QED
      BY <1>5, <3>1 DEF RoomInv, Places
  <2>3. \A p \in Clients : \A n \in 1 .. MaxConnects : n > used'[p] => sock'[<<p, n>>].st = "none"
    BY <2>1, Lines DEF RoomInv, Places
  <2> QED
    BY <2>1, <2>2, <2>3 DEF RoomInv, Places
<1>10. Honest'
  <2> SUFFICES ASSUME NEW d \in Conns
               PROVE  Within(sock'[d].up, docs[Owner(d)]) /\ Within(sock'[d].down, room'.doc)
    BY DEF Honest
  <2>1. CASE d = c
    BY <1>1, <1>3, <1>4, <1>7, <2>1
  <2>2. CASE d # c
    <3>1. Within(sock[d].up, docs[Owner(d)])
      BY DEF RoomInv, Honest
    <3> QED
      BY <1>5, <1>7, <2>2, <3>1
  <2> QED
    BY <2>1, <2>2
<1>11. Levels'
  <2> SUFFICES ASSUME NEW q \in Clients, cur[q] # 0, sock'[<<q, cur[q]>>].st = "open"
               PROVE  /\ ~sock'[<<q, cur[q]>>].mute
                      /\ Level(sock'[<<q, cur[q]>>].up, sock'[<<q, cur[q]>>].down, docs[q], room'.doc)
    BY DEF Levels, Talking, Line
  <2>1. PICK d \in Conns : d = <<q, cur[q]>> /\ Owner(d) = q /\ d[2] = cur[q]
    <3>1. cur[q] \in 1 .. MaxConnects
      BY DEF RoomInv, RoomTypes
    <3> QED
      BY <3>1, Lines
  <2>2. CASE d = c
    <3>1. ~sock[c].mute /\ Level(sock[c].up, sock[c].down, docs[q], room.doc)
      BY <1>1, <1>3, <1>4, <2>1, <2>2
    <3>2. g.edits \subseteq docs[q]
      BY <1>1, <2>1, <2>2
    <3>3. Level(up, sock[c].down, docs[q], room'.doc)
      BY <1>1, <3>1, <3>2 DEF Level
    <3> QED
      BY <1>3, <1>4, <2>1, <2>2, <3>1, <3>3
  <2>3. CASE d # c
    <3>1. sock[d].st = "open" /\ d \in room.peers
      BY <1>5, <2>1, <2>3 DEF RoomInv, Places, Standing
    <3>2. ~sock[d].mute /\ Level(sock[d].up, sock[d].down, docs[q], room.doc)
      BY <2>1, <3>1 DEF RoomInv, Levels, Talking, Line
    <3>3. Level(sock[d].up, sock[d].down \o <<g>>, docs[q], room'.doc)
      BY <1>7, <3>2 DEF Level
    <3> QED
      BY <1>5, <2>1, <2>3, <3>1, <3>2, <3>3
  <2> QED
    BY <2>2, <2>3
<1> QED
  BY <1>8, <1>9, <1>10, <1>11 DEF RoomInv

LEMMA HandleStep ==
    ASSUME RoomInv, NEW c \in Conns, HandleFrame(c)
    PROVE  RoomInv'
<1> DEFINE frame == Head(sock[c].up)
<1>1. /\ sock[c].st \in {"open", "closing"} /\ sock[c].up # <<>>
      /\ UNCHANGED <<cur, used, docs, connections>>
  BY DEF HandleFrame
<1>2. frame \in Frames
  BY <1>1, Handled
<1>3. CASE frame.kind = "sync_step_1" /\ AnswerStep1(c, frame)
  BY <1>1, <1>3, AnswerStep1Keeps
<1>4. CASE frame.kind \in {"sync_step_2", "sync_update"} /\ Sync(c, frame)
  <2>1. frame.edits \in SUBSET Clients
    BY <1>2 DEF Frames
  <2>2. /\ Update(frame.edits) \in Frames /\ Update(frame.edits).kind # "sync_step_1"
        /\ Update(frame.edits).edits = frame.edits
    BY <2>1, FramesMade
  <2>3. /\ DOMAIN room' = DOMAIN room /\ room'.doc = room.doc \cup frame.edits
        /\ room'.peers = room.peers /\ room'.aware = room.aware
    BY <1>4 DEF Sync, RoomInv, RoomTypes
  <2>4. IsFiniteSet(room'.aware)
    BY <2>3 DEF RoomInv, RoomTypes
  <2>5. sock' = Broadcast([sock EXCEPT ![c].up = Tail(@)], c, Update(frame.edits))
    BY <1>4 DEF Sync
  <2> QED
    BY <1>1, <1>4, <2>2, <2>3, <2>4, <2>5, RelayStep
<1>5. CASE frame.kind = "awareness" /\ RelayAwareness(c, frame)
  <2>1. frame.edits = {}
    BY <1>2, <1>5 DEF Frames
  <2>2. /\ DOMAIN room' = DOMAIN room /\ room'.doc = room.doc \cup frame.edits
        /\ room'.peers = room.peers /\ room'.aware = room.aware \cup {c}
    BY <1>5, <2>1 DEF RelayAwareness, RoomInv, RoomTypes
  <2>3. IsFiniteSet(room'.aware)
    <3>1. IsFiniteSet(room.aware)
      BY DEF RoomInv, RoomTypes
    <3> QED
      BY <2>2, <3>1, FS_AddElement
  <2>4. sock' = Broadcast([sock EXCEPT ![c].up = Tail(@)], c, frame)
    BY <1>5 DEF RelayAwareness
  <2> QED
    BY <1>1, <1>2, <1>5, <2>2, <2>3, <2>4, RelayStep
<1>6. CASE frame.kind = "query_awareness" /\ AnswerQuery(c)
  BY <1>1, <1>6, AnswerQueryKeeps
<1>7. CASE frame.kind = "ignored" /\ Drop(c, FALSE)
  BY <1>1, <1>7, DropKeeps DEF OddKinds
<1>8. CASE frame.kind \in {"text", "undecodable"} /\ Drop(c, TRUE)
  BY <1>1, <1>8, DropKeeps DEF OddKinds
<1> QED
  BY <1>3, <1>4, <1>5, <1>6, <1>7, <1>8 DEF HandleFrame

(* A client that opens a socket and the room ask each other what they have. *)
LEMMA AcceptStep ==
    ASSUME RoomInv, NEW p \in Clients, Accept(p)
    PROVE  RoomInv'
<1> USE CollabBounds
<1> DEFINE n == used[p] + 1
<1> DEFINE c == <<p, n>>
<1> DEFINE up == <<Step1(docs[p])>>
<1> DEFINE down == <<Step1(room.doc)>> \o AwarenessOfOthers(c)
<1> DEFINE s == [Unopened EXCEPT !.st = "open", !.up = up, !.down = down]
<1>1. /\ n \in 1 .. MaxConnects /\ used' = [used EXCEPT ![p] = n] /\ cur' = [cur EXCEPT ![p] = n]
      /\ docs' = docs /\ connections' = connections \cup {c} /\ cur[p] = 0
  BY DEF Accept, Fresh, RoomInv, RoomTypes
<1>2. c \in Conns /\ Owner(c) = p
  BY <1>1, Lines
<1>3. /\ DOMAIN sock' = Conns /\ sock'[c] = s /\ \A d \in Conns \ {c} : sock'[d] = sock[d]
  BY <1>2 DEF Accept, RoomInv, RoomTypes
<1>4. /\ DOMAIN room' = {"held", "doc", "peers", "aware", "reaper", "joined"}
      /\ room'.doc = room.doc /\ room'.peers = room.peers \cup {c} /\ room'.aware = room.aware
  BY DEF Accept, RoomInv, RoomTypes
<1>5. /\ Step1(docs[p]) \in Frames /\ Step1(docs[p]).kind = "sync_step_1" /\ Step1(docs[p]).edits = docs[p]
      /\ Step1(room.doc) \in Frames /\ Step1(room.doc).kind = "sync_step_1" /\ Step1(room.doc).edits = room.doc
  <2>1. docs[p] \in SUBSET Clients /\ room.doc \in SUBSET Clients
    BY DEF RoomInv, RoomTypes
  <2> QED
    BY <2>1, FramesMade
<1>6. up \in Seq(Frames) /\ Asks(up) /\ Within(up, docs[p])
  BY <1>5, OneFrame
<1>7. <<Step1(room.doc)>> \in Seq(Frames) /\ Asks(<<Step1(room.doc)>>) /\ Within(<<Step1(room.doc)>>, room.doc)
  BY <1>5, OneFrame
<1>8. down \in Seq(Frames) /\ Asks(down) /\ Within(down, room.doc)
  <2>1. AwarenessOfOthers(c) \in Seq(Frames) /\ Within(AwarenessOfOthers(c), room.doc)
    BY AwarenessFrames
  <2> QED
    BY <1>7, <2>1, Joined
<1> HIDE DEF up, down
<1>9. DOMAIN s = SocketFields /\ s.st = "open" /\ s.mute = FALSE /\ s.up = up /\ s.down = down
  BY DEF Unopened, SocketFields
<1> HIDE DEF s, c, n
<1>10. RoomTypes'
  <2>1. \A d \in Conns : DOMAIN sock'[d] = SocketFields /\ sock'[d].up \in Seq(Frames) /\ sock'[d].down \in Seq(Frames)
    BY <1>3, <1>6, <1>8, <1>9 DEF RoomInv, RoomTypes
  <2> QED
    BY <1>1, <1>3, <1>4, <2>1 DEF RoomInv, RoomTypes
<1>11. Places'
  <2>1. \A d \in Conns : sock'[d].st \in Standing => d \in room'.peers
    BY <1>3, <1>4 DEF RoomInv, Places
  <2>2. \A d \in Conns : sock'[d].st \notin Standing => sock'[d].up = <<>> /\ sock'[d].down = <<>>
    BY <1>3, <1>9 DEF RoomInv, Places, Standing
  <2>3. \A d \in connections' : d \in Conns /\ sock'[d].st \in Standing
    BY <1>1, <1>2, <1>3, <1>9 DEF RoomInv, Places, Standing
  <2>4. ASSUME NEW q \in Clients, NEW m \in 1 .. MaxConnects, m > used'[q]
        PROVE  sock'[<<q, m>>].st = "none"
    <3>1. m > used[q] /\ used[q] \in Nat
      BY <1>1, <2>4 DEF RoomInv, RoomTypes, n
    <3>2. <<q, m>> \in Conns /\ sock[<<q, m>>].st = "none"
      BY <3>1, Lines DEF RoomInv, Places
    <3>3. <<q, m>> # c
      BY <1>1, <2>4 DEF RoomInv, RoomTypes, n, c
    <3> QED
      BY <1>3, <3>2, <3>3
  <2> QED
    BY <2>1, <2>2, <2>3, <2>4 DEF Places
<1>12. Honest'
  BY <1>1, <1>2, <1>3, <1>4, <1>6, <1>8, <1>9 DEF RoomInv, Honest
<1>13. Levels'
  <2> SUFFICES ASSUME NEW q \in Clients, cur'[q] # 0, sock'[<<q, cur'[q]>>].st = "open"
               PROVE  /\ ~sock'[<<q, cur'[q]>>].mute
                      /\ Level(sock'[<<q, cur'[q]>>].up, sock'[<<q, cur'[q]>>].down, docs[q], room.doc)
    BY <1>1, <1>4 DEF Levels, Talking, Line
  <2>1. CASE q = p
    <3>1. <<q, cur'[q]>> = c
      BY <1>1, <2>1 DEF RoomInv, RoomTypes, c
    <3>2. Level(up, down, docs[p], room.doc)
      BY <1>6, <1>8 DEF Level
    <3> QED
      BY <1>3, <1>9, <2>1, <3>1, <3>2
  <2>2. CASE q # p
    <3>1. cur'[q] = cur[q]
      BY <1>1, <2>2 DEF RoomInv, RoomTypes
    <3>2. PICK d \in Conns : d = <<q, cur[q]>> /\ d # c
      <4>1. cur[q] \in 1 .. MaxConnects
        BY <3>1 DEF RoomInv, RoomTypes
      <4> QED
        BY <2>2, <4>1, Lines DEF c
    <3>3. sock'[d] = sock[d]
      BY <1>3, <3>2
    <3> QED
      BY <3>1, <3>2, <3>3 DEF RoomInv, Levels, Talking, Line
  <2> QED
    BY <2>1, <2>2
<1> QED
  BY <1>10, <1>11, <1>12, <1>13 DEF RoomInv

(* An upgrade refused uses up a number and nothing else. *)
LEMMA RefuseStep ==
    ASSUME RoomInv, NEW p \in Clients, RefuseUpgrade(p)
    PROVE  RoomInv'
<1> USE CollabBounds
<1> DEFINE n == used[p] + 1
<1> DEFINE c == <<p, n>>
<1>1. /\ n \in 1 .. MaxConnects /\ used' = [used EXCEPT ![p] = n] /\ cur[p] = 0
      /\ UNCHANGED <<cur, docs, room, connections>>
  BY DEF RefuseUpgrade, Fresh, RoomInv, RoomTypes
<1>2. c \in Conns /\ Owner(c) = p
  BY <1>1, Lines
<1>3. DOMAIN sock' = Conns /\ sock'[c] = [sock[c] EXCEPT !.st = "refused"] /\ \A d \in Conns \ {c} : sock'[d] = sock[d]
  BY <1>2 DEF RefuseUpgrade, RoomInv, RoomTypes
<1>4. sock[c].st = "none" /\ sock[c].up = <<>> /\ sock[c].down = <<>> /\ DOMAIN sock[c] = SocketFields
  <2>1. n > used[p]
    BY DEF RoomInv, RoomTypes
  <2>2. sock[c].st = "none"
    BY <1>1, <2>1 DEF RoomInv, Places
  <2> QED
    BY <1>2, <2>2 DEF RoomInv, Places, RoomTypes, Standing
<1>5. DOMAIN sock'[c] = SocketFields /\ sock'[c].st = "refused" /\ sock'[c].up = <<>> /\ sock'[c].down = <<>>
  BY <1>3, <1>4 DEF SocketFields
<1> HIDE DEF c, n
<1>6. RoomTypes'
  <2>1. \A d \in Conns : DOMAIN sock'[d] = SocketFields /\ sock'[d].up \in Seq(Frames) /\ sock'[d].down \in Seq(Frames)
    BY <1>3, <1>5, NoFrames DEF RoomInv, RoomTypes
  <2> QED
    BY <1>1, <1>3, <2>1 DEF RoomInv, RoomTypes
<1>7. Places'
  <2>1. \A d \in Conns : sock'[d].st \in Standing => d \in room'.peers
    BY <1>1, <1>3, <1>5 DEF RoomInv, Places, Standing
  <2>2. \A d \in Conns : sock'[d].st \notin Standing => sock'[d].up = <<>> /\ sock'[d].down = <<>>
    BY <1>3, <1>5 DEF RoomInv, Places
  <2>3. \A d \in connections' : d \in Conns /\ sock'[d].st \in Standing
    BY <1>1, <1>3, <1>4 DEF RoomInv, Places, Standing
  <2>4. ASSUME NEW q \in Clients, NEW m \in 1 .. MaxConnects, m > used'[q]
        PROVE  sock'[<<q, m>>].st = "none"
    <3>1. m > used[q] /\ used[q] \in Nat
      BY <1>1, <2>4 DEF RoomInv, RoomTypes, n
    <3>2. <<q, m>> \in Conns /\ sock[<<q, m>>].st = "none"
      BY <3>1, Lines DEF RoomInv, Places
    <3>3. <<q, m>> # c
      BY <1>1, <2>4 DEF RoomInv, RoomTypes, n, c
    <3> QED
      BY <1>3, <3>2, <3>3
  <2> QED
    BY <2>1, <2>2, <2>3, <2>4 DEF Places
<1>8. Honest'
  BY <1>1, <1>3, <1>5, NoFrames DEF RoomInv, Honest
<1>9. Levels'
  <2> SUFFICES ASSUME NEW q \in Clients, cur[q] # 0, sock'[<<q, cur[q]>>].st = "open"
               PROVE  /\ ~sock'[<<q, cur[q]>>].mute
                      /\ Level(sock'[<<q, cur[q]>>].up, sock'[<<q, cur[q]>>].down, docs[q], room.doc)
    BY <1>1 DEF Levels, Talking, Line
  <2>1. PICK d \in Conns : d = <<q, cur[q]>>
    <3>1. cur[q] \in 1 .. MaxConnects
      BY DEF RoomInv, RoomTypes
    <3> QED
      BY <3>1, Lines
  <2>2. d # c /\ sock'[d] = sock[d]
    BY <1>3, <1>5, <2>1
  <2> QED
    BY <2>1, <2>2 DEF RoomInv, Levels, Talking, Line
<1> QED
  BY <1>6, <1>7, <1>8, <1>9 DEF RoomInv

(* Steps that only change how sockets stand: none opens, and one that      *)
(* stays open keeps its frames.                                            *)
LEMMA StandingStep ==
    ASSUME RoomInv, UNCHANGED <<cur, used, docs>>, connections' \subseteq connections,
           DOMAIN room' = DOMAIN room, room'.doc = room.doc, room'.peers = room.peers, room'.aware = room.aware,
           DOMAIN sock' = Conns,
           \A c \in Conns :
              /\ DOMAIN sock'[c] = SocketFields
              /\ sock'[c].up = sock[c].up /\ sock'[c].down \in {sock[c].down, <<>>}
              /\ sock'[c].st \in Standing <=> sock[c].st \in Standing
              /\ sock[c].st = "none" => sock'[c].st = "none"
              /\ sock'[c].st = "open" =>
                    sock[c].st = "open" /\ sock'[c].down = sock[c].down /\ sock'[c].mute = sock[c].mute
    PROVE  RoomInv'
<1>1. RoomTypes'
  <2>1. \A c \in Conns : sock'[c].up \in Seq(Frames) /\ sock'[c].down \in Seq(Frames)
    BY NoFrames DEF RoomInv, RoomTypes
  <2> QED
    BY <2>1 DEF RoomInv, RoomTypes
<1>2. Places'
  <2>1. \A c \in Conns : sock'[c].st \notin Standing => sock'[c].up = <<>> /\ sock'[c].down = <<>>
    BY DEF RoomInv, Places
  <2>2. \A p \in Clients : \A n \in 1 .. MaxConnects : n > used'[p] => sock'[<<p, n>>].st = "none"
    BY Lines DEF RoomInv, Places
  <2> QED
    BY <2>1, <2>2 DEF RoomInv, Places
<1>3. Honest'
  <2> SUFFICES ASSUME NEW c \in Conns
               PROVE  Within(sock'[c].up, docs[Owner(c)]) /\ Within(sock'[c].down, room.doc)
    BY DEF Honest
  <2> QED
    BY NoFrames DEF RoomInv, Honest
<1>4. Levels'
  <2> SUFFICES ASSUME NEW q \in Clients, cur[q] # 0, sock'[<<q, cur[q]>>].st = "open"
               PROVE  /\ ~sock'[<<q, cur[q]>>].mute
                      /\ Level(sock'[<<q, cur[q]>>].up, sock'[<<q, cur[q]>>].down, docs[q], room.doc)
    BY DEF Levels, Talking, Line
  <2>1. PICK d \in Conns : d = <<q, cur[q]>>
    <3>1. cur[q] \in 1 .. MaxConnects
      BY DEF RoomInv, RoomTypes
    <3> QED
      BY <3>1, Lines
  <2>2. /\ sock[d].st = "open" /\ sock'[d].up = sock[d].up /\ sock'[d].down = sock[d].down
        /\ sock'[d].mute = sock[d].mute
    BY <2>1
  <2>3. ~sock[d].mute /\ Level(sock[d].up, sock[d].down, docs[q], room.doc)
    BY <2>1, <2>2 DEF RoomInv, Levels, Talking, Line
  <2> QED
    BY <2>1, <2>2, <2>3
<1> QED
  BY <1>1, <1>2, <1>3, <1>4 DEF RoomInv

(* The room is dropped with its document only when nobody is left in it. *)
LEMMA DropRoom ==
    ASSUME RoomInv, UNCHANGED <<sock, cur, used, docs, connections>>, room' = NoRoom,
           \A c \in Conns : sock[c].st \notin Standing
    PROVE  RoomInv'
<1>1. /\ DOMAIN room' = {"held", "doc", "peers", "aware", "reaper", "joined"}
      /\ room'.doc = {} /\ room'.aware = {}
  BY DEF NoRoom
<1>2. RoomTypes'
  BY <1>1, FS_EmptySet DEF RoomInv, RoomTypes
<1>3. Places'
  BY DEF RoomInv, Places
<1>4. Honest'
  BY NoFrames DEF RoomInv, Honest, Places
<1>5. Levels'
  <2> SUFFICES ASSUME NEW q \in Clients, cur[q] # 0, sock[<<q, cur[q]>>].st = "open" PROVE FALSE
    BY DEF Levels, Talking, Line
  <2>1. <<q, cur[q]>> \in Conns
    <3>1. cur[q] \in 1 .. MaxConnects
      BY DEF RoomInv, RoomTypes
    <3> QED
      BY <3>1, Lines
  <2> QED
    BY <2>1 DEF Standing
<1> QED
  BY <1>2, <1>3, <1>4, <1>5 DEF RoomInv

LEMMA CloseStep ==
    ASSUME RoomInv, NEW c \in Conns, CloseEvent(c)
    PROVE  RoomInv'
<1>1. UNCHANGED <<used, docs>> /\ connections' = connections \ {c} /\ Owner(c) \in Clients
  BY Lines DEF CloseEvent
<1>2. /\ DOMAIN sock' = Conns /\ sock'[c] = [Unopened EXCEPT !.st = "closed"]
      /\ \A d \in Conns \ {c} : sock'[d] = sock[d]
  BY DEF CloseEvent, RoomInv, RoomTypes
<1>3. DOMAIN sock'[c] = SocketFields /\ sock'[c].st = "closed" /\ sock'[c].up = <<>> /\ sock'[c].down = <<>>
  BY <1>2 DEF Unopened, SocketFields
<1>4. /\ DOMAIN room' = {"held", "doc", "peers", "aware", "reaper", "joined"}
      /\ room'.doc = room.doc /\ room'.peers = room.peers \ {c} /\ room'.aware = room.aware \ {c}
  BY DEF CloseEvent, Detached, RoomInv, RoomTypes
<1>5. /\ cur' \in [Clients -> 0 .. MaxConnects]
      /\ \A q \in Clients : cur'[q] \in {cur[q], 0}
  <2>1. 0 \in 0 .. MaxConnects /\ cur \in [Clients -> 0 .. MaxConnects]
    BY CollabBounds DEF RoomInv, RoomTypes
  <2>2. PICK q \in Clients : q = Owner(c)
    BY <1>1
  <2>3. cur' = [cur EXCEPT ![q] = IF cur[q] = c[2] THEN 0 ELSE cur[q]]
    BY <2>2 DEF CloseEvent
  <2> QED
    BY <2>1, <2>3
<1>6. RoomTypes'
  <2>1. \A d \in Conns : DOMAIN sock'[d] = SocketFields /\ sock'[d].up \in Seq(Frames) /\ sock'[d].down \in Seq(Frames)
    BY <1>2, <1>3, NoFrames DEF RoomInv, RoomTypes
  <2>2. IsFiniteSet(room'.aware)
    <3>1. IsFiniteSet(room.aware)
      BY DEF RoomInv, RoomTypes
    <3> QED
      BY <1>4, <3>1, FS_RemoveElement
  <2> QED
    BY <1>1, <1>2, <1>4, <1>5, <2>1, <2>2 DEF RoomInv, RoomTypes
<1>7. Places'
  <2>1. \A d \in Conns : sock'[d].st \in Standing => d \in room'.peers
    BY <1>2, <1>3, <1>4 DEF RoomInv, Places, Standing
  <2>2. \A d \in Conns : sock'[d].st \notin Standing => sock'[d].up = <<>> /\ sock'[d].down = <<>>
    BY <1>2, <1>3 DEF RoomInv, Places
  <2>3. \A d \in connections' : d \in Conns /\ sock'[d].st \in Standing
    BY <1>1, <1>2 DEF RoomInv, Places
  <2>4. ASSUME NEW q \in Clients, NEW m \in 1 .. MaxConnects, m > used'[q]
        PROVE  sock'[<<q, m>>].st = "none"
    <3>1. <<q, m>> \in Conns /\ sock[<<q, m>>].st = "none"
      BY <1>1, <2>4, Lines DEF RoomInv, Places
    <3>2. sock[c].st # "none"
      BY DEF CloseEvent
    <3> QED
      BY <1>2, <3>1, <3>2
  <2> QED
    BY <2>1, <2>2, <2>3, <2>4 DEF Places
<1>8. Honest'
  <2> SUFFICES ASSUME NEW d \in Conns
               PROVE  Within(sock'[d].up, docs[Owner(d)]) /\ Within(sock'[d].down, room.doc)
    BY <1>1, <1>4 DEF Honest
  <2>1. CASE d = c
    BY <1>3, <2>1, NoFrames
  <2>2. CASE d # c
    BY <1>2, <2>2 DEF RoomInv, Honest
  <2> QED
    BY <2>1, <2>2
<1>9. Levels'
  <2> SUFFICES ASSUME NEW q \in Clients, cur'[q] # 0, sock'[<<q, cur'[q]>>].st = "open"
               PROVE  /\ ~sock'[<<q, cur'[q]>>].mute
                      /\ Level(sock'[<<q, cur'[q]>>].up, sock'[<<q, cur'[q]>>].down, docs[q], room.doc)
    BY <1>1, <1>4 DEF Levels, Talking, Line
  <2>1. cur'[q] = cur[q] /\ cur[q] \in 1 .. MaxConnects
    BY <1>5 DEF RoomInv, RoomTypes
  <2>2. PICK d \in Conns : d = <<q, cur[q]>>
    BY <2>1, Lines
  <2>3. sock'[d] = sock[d]
    BY <1>2, <1>3, <2>1, <2>2
  <2> QED
    BY <2>1, <2>2, <2>3 DEF RoomInv, Levels, Talking, Line
<1> QED
  BY <1>6, <1>7, <1>8, <1>9 DEF RoomInv

LEMMA RoomStep ==
    ASSUME RoomInv, [CollabNext]_collabVars
    PROVE  RoomInv'
<1>0. \A c \in Conns : DOMAIN sock[c] = SocketFields
  BY DEF RoomInv, RoomTypes
<1>1. ASSUME NEW p \in Clients,
             Accept(p) \/ RefuseUpgrade(p) \/ Edit(p) \/ ClientReads(p) \/ Vanish(p)
      PROVE  RoomInv'
  BY <1>1, AcceptStep, RefuseStep, EditStep, ReadStep, VanishStep
<1>2. ASSUME NEW p \in Clients, ShowPresence(p) PROVE RoomInv'
  BY <1>2, OddStep DEF ShowPresence
<1>3. ASSUME NEW p \in Clients, NEW kind \in OddKinds, SayOdd(p, kind) PROVE RoomInv'
  BY <1>3, OddStep DEF SayOdd
<1>4. ASSUME NEW c \in Conns, HandleFrame(c) \/ CloseEvent(c) PROVE RoomInv'
  BY <1>4, HandleStep, CloseStep
<1>5. ASSUME NEW unheard \in SUBSET Conns, Heartbeat(unheard) PROVE RoomInv'
  <2>1. UNCHANGED <<cur, used, docs, room, connections>> /\ DOMAIN sock' = Conns
    BY <1>5 DEF Heartbeat
  <2>2. ASSUME NEW c \in Conns
        PROVE  /\ DOMAIN sock'[c] = SocketFields
               /\ sock'[c].up = sock[c].up /\ sock'[c].down \in {sock[c].down, <<>>}
               /\ sock'[c].st \in Standing <=> sock[c].st \in Standing
               /\ sock[c].st = "none" => sock'[c].st = "none"
               /\ sock'[c].st = "open" =>
                     sock[c].st = "open" /\ sock'[c].down = sock[c].down /\ sock'[c].mute = sock[c].mute
    <3>1. CASE c \notin connections
      BY <1>0, <1>5, <3>1 DEF Heartbeat
    <3>2. CASE c \in connections /\ ~sock[c].alive
      <4>1. sock'[c] = [sock[c] EXCEPT !.st = "terminated", !.down = <<>>]
        BY <1>5, <3>2 DEF Heartbeat
      <4>2. DOMAIN sock'[c] = SocketFields /\ sock'[c].up = sock[c].up /\ sock'[c].down = <<>> /\ sock'[c].st = "terminated"
        BY <1>0, <4>1 DEF SocketFields
      <4>3. sock[c].st \in Standing
        BY <3>2 DEF RoomInv, Places
      <4> QED
        BY <4>2, <4>3 DEF Standing
    <3>3. CASE c \in connections /\ sock[c].alive
      <4>1. sock'[c] = [sock[c] EXCEPT !.alive = ~sock[c].mute /\ c \notin unheard]
        BY <1>5, <3>3 DEF Heartbeat
      <4>2. /\ DOMAIN sock'[c] = SocketFields /\ sock'[c].up = sock[c].up /\ sock'[c].down = sock[c].down
            /\ sock'[c].st = sock[c].st /\ sock'[c].mute = sock[c].mute
        BY <1>0, <4>1 DEF SocketFields
      <4> QED
        BY <4>2
    <3> QED
      BY <3>1, <3>2, <3>3
  <2> QED
    BY <2>1, <2>2, StandingStep
<1>6. CASE DrainRooms
  <2>1. UNCHANGED <<cur, used, docs, room, connections>> /\ DOMAIN sock' = Conns
    BY <1>6 DEF DrainRooms
  <2>2. ASSUME NEW c \in Conns
        PROVE  /\ DOMAIN sock'[c] = SocketFields /\ sock'[c].up = sock[c].up /\ sock'[c].down = sock[c].down
               /\ sock'[c].mute = sock[c].mute
               /\ sock'[c].st = sock[c].st \/ (sock[c].st = "open" /\ sock'[c].st = "closing")
    BY <1>0, <1>6 DEF DrainRooms, SocketFields
  <2>3. \A c \in Conns : sock'[c].st \in Standing <=> sock[c].st \in Standing
    BY <2>2 DEF Standing
  <2> QED
    BY <2>1, <2>2, <2>3, StandingStep
<1>7. CASE CutTheRest
  <2>1. UNCHANGED <<cur, used, docs, room>> /\ connections' = {} /\ DOMAIN sock' = Conns
    BY <1>7 DEF CutTheRest
  <2>2. ASSUME NEW c \in Conns
        PROVE  /\ DOMAIN sock'[c] = SocketFields /\ sock'[c].up = sock[c].up /\ sock'[c].down = sock[c].down
               /\ sock'[c].mute = sock[c].mute
               /\ sock'[c].st = sock[c].st \/ (sock[c].st \in Standing /\ sock'[c].st = "terminated")
    BY <1>0, <1>7 DEF CutTheRest, SocketFields, RoomInv, Places
  <2>3. \A c \in Conns : (sock'[c].st \in Standing <=> sock[c].st \in Standing)
                         /\ (sock[c].st = "none" => sock'[c].st = "none")
    BY <2>2 DEF Standing
  <2> QED
    BY <2>1, <2>2, <2>3, StandingStep
<1>8. CASE Stop
  <2>1. \A c \in Conns : sock[c].st \notin Standing
    BY <1>8 DEF Stop, Standing
  <2> QED
    BY <1>8, <2>1, DropRoom DEF Stop
<1>9. CASE ReapRoom
  <2>1. UNCHANGED <<sock, cur, used, docs, connections>>
    BY <1>9 DEF ReapRoom
  <2>2. CASE room.peers = {}
    <3>1. \A c \in Conns : sock[c].st \notin Standing
      BY <2>2 DEF RoomInv, Places
    <3> QED
      BY <1>9, <2>1, <2>2, <3>1, DropRoom DEF ReapRoom
  <2>3. CASE room.peers # {}
    <3>1. /\ DOMAIN room' = DOMAIN room /\ room'.doc = room.doc /\ room'.peers = room.peers
          /\ room'.aware = room.aware
      BY <1>9, <2>3 DEF ReapRoom, RoomInv, RoomTypes
    <3>2. DOMAIN sock' = Conns
      BY <2>1 DEF RoomInv, RoomTypes
    <3> QED
      BY <1>0, <2>1, <3>1, <3>2, StandingStep
  <2> QED
    BY <2>2, <2>3
<1>10. CASE Replace \/ UNCHANGED collabVars
  <2>1. UNCHANGED <<sock, cur, used, docs, room, connections>>
    BY <1>10 DEF Replace, collabVars
  <2> QED
    BY <2>1 DEF RoomInv, RoomTypes, Places, Honest, Levels, Talking, Line
<1> QED
  BY <1>1, <1>2, <1>3, <1>4, <1>5, <1>6, <1>7, <1>8, <1>9, <1>10 DEF CollabNext

(* Two people who are connected with nothing in transit look at the same   *)
(* text, for any number of people, sockets, edits, lost connections and    *)
(* replacements of the process: the two questions of the handshake, and    *)
(* the relay of every edit after it, leave nothing behind.                 *)
THEOREM PeersConverge == CollabSpec => []SyncedPeersAgree
<1>1. CollabInit => RoomInv
  <2> SUFFICES ASSUME CollabInit PROVE RoomInv
    OBVIOUS
  <2>1. /\ sock = [c \in Conns |-> Unopened] /\ cur = [p \in Clients |-> 0] /\ used = [p \in Clients |-> 0]
        /\ docs = [p \in Clients |-> {}] /\ room = NoRoom /\ connections = {}
    BY DEF CollabInit
  <2>2. \A c \in Conns : /\ DOMAIN sock[c] = SocketFields /\ sock[c].st = "none"
                         /\ sock[c].up = <<>> /\ sock[c].down = <<>>
    BY <2>1 DEF Unopened, SocketFields
  <2>3. /\ DOMAIN room = {"held", "doc", "peers", "aware", "reaper", "joined"}
        /\ room.doc = {} /\ IsFiniteSet(room.aware)
    BY <2>1, FS_EmptySet DEF NoRoom
  <2>4. RoomTypes
    <3>1. \A c \in Conns : sock[c].up \in Seq(Frames) /\ sock[c].down \in Seq(Frames)
      BY <2>2, NoFrames
    <3>2. cur \in [Clients -> 0 .. MaxConnects] /\ used \in [Clients -> 0 .. MaxConnects]
      BY <2>1, CollabBounds
    <3>3. docs \in [Clients -> SUBSET Clients] /\ DOMAIN sock = Conns
      BY <2>1
    <3> QED
      BY <2>2, <2>3, <3>1, <3>2, <3>3 DEF RoomTypes
  <2>5. Places
    BY <2>1, <2>2, Lines DEF Places, Standing
  <2>6. Honest
    BY <2>2, NoFrames DEF Honest
  <2>7. Levels
    BY <2>1 DEF Levels, Talking
  <2> QED
    BY <2>4, <2>5, <2>6, <2>7 DEF RoomInv
<1>2. RoomInv => SyncedPeersAgree
  <2> SUFFICES ASSUME RoomInv, NEW p \in Clients, Talking(p),
                      sock[Line(p)].up = <<>>, sock[Line(p)].down = <<>>
               PROVE  docs[p] = room.doc
    BY DEF SyncedPeersAgree
  <2>1. Level(<<>>, <<>>, docs[p], room.doc)
    BY DEF RoomInv, Levels
  <2>2. docs[p] \subseteq room.doc /\ room.doc \subseteq docs[p]
    BY <2>1, NoFrames DEF Level
  <2> QED
    BY <2>2
<1> QED
  BY <1>1, <1>2, RoomStep, PTL DEF CollabSpec

-----------------------------------------------------------------------------
(***************************************************************************)
(* The candidate's countdown.  The snapshot lags behind the estimate, so   *)
(* both must have been spoken for: a threshold at or above either of them  *)
(* was announced.                                                          *)
(***************************************************************************)
Heard(left) ==
    \A t \in ThresholdSet :
        2 * FirstDeadline > TwiceBoundary(t) /\ 2 * left <= TwiceBoundary(t) => spoken[t] > 0

CountdownInv ==
    /\ mono \in Int /\ offset \in Int /\ deadline \in Int /\ latest \in Int
    /\ snapshot.remaining \in Int
    /\ spoken \in [ThresholdSet -> Nat]
    /\ Heard(snapshot.remaining) /\ Heard(latest)

LEMMA Boundaries ==
    ASSUME NEW t \in ThresholdSet PROVE TwiceBoundary(t) \in Int
BY ShellConstants DEF ThresholdSet, TwiceBoundary

LEMMA RemainingIsTime ==
    ASSUME CountdownInv, NEW s \in Int, NEW d \in Int PROVE Remaining(s, d) \in Int
BY DEF CountdownInv, Remaining

(* However far an update jumps, whatever lies between the snapshot and the *)
(* new estimate is announced by it.                                        *)
LEMMA UpdateHeard ==
    ASSUME CountdownInv, NEW s \in Int, NEW d \in Int, UpdateCountdown(s, d)
    PROVE  CountdownInv'
PROOF
<1> DEFINE next == Remaining(s, d)
<1>1. next \in Int
  BY RemainingIsTime
<1>2. /\ offset' = s /\ deadline' = d /\ latest' = next /\ mono' = mono
      /\ spoken' = [t \in ThresholdSet |-> spoken[t] +
                      (IF t \in {u \in ThresholdSet : ThresholdsCrossed(snapshot.remaining, next, u)}
                       THEN 1 ELSE 0)]
      /\ snapshot' = snapshot \/ snapshot' = [remaining |-> next, deadline |-> d]
  BY DEF UpdateCountdown
<1> HIDE DEF next
<1>3. spoken' \in [ThresholdSet -> Nat] /\ \A t \in ThresholdSet : spoken'[t] >= spoken[t]
  BY <1>2 DEF CountdownInv
<1>4. ASSUME NEW t \in ThresholdSet, 2 * FirstDeadline > TwiceBoundary(t),
             2 * next <= TwiceBoundary(t)
      PROVE  spoken'[t] > 0
  <2>1. TwiceBoundary(t) \in Int
    BY Boundaries
  <2>2. CASE 2 * snapshot.remaining <= TwiceBoundary(t)
    BY <1>3, <1>4, <2>2 DEF CountdownInv, Heard
  <2>3. CASE 2 * snapshot.remaining > TwiceBoundary(t)
    <3>1. ThresholdsCrossed(snapshot.remaining, next, t)
      BY <1>1, <1>4, <2>1, <2>3 DEF CountdownInv, ThresholdsCrossed
    <3> QED
      BY <1>2, <3>1 DEF CountdownInv
  <2> QED
    BY <2>1, <2>2, <2>3 DEF CountdownInv
<1>5. ASSUME NEW t \in ThresholdSet, 2 * FirstDeadline > TwiceBoundary(t),
             2 * snapshot.remaining <= TwiceBoundary(t)
      PROVE  spoken'[t] > 0
  BY <1>3, <1>5 DEF CountdownInv, Heard
<1>6. snapshot'.remaining \in Int /\ (snapshot'.remaining = next \/ snapshot'.remaining = snapshot.remaining)
  BY <1>1, <1>2 DEF CountdownInv
<1>7. Heard(latest)'
  BY <1>2, <1>4 DEF Heard, TwiceBoundary
<1>8. Heard(snapshot.remaining)'
  BY <1>4, <1>5, <1>6 DEF Heard, TwiceBoundary
<1> QED
  BY <1>1, <1>2, <1>3, <1>6, <1>7, <1>8 DEF CountdownInv

LEMMA CountdownStep ==
    ASSUME CountdownInv, [ShellNext]_shellVars PROVE CountdownInv'
PROOF
<1>1. ASSUME UNCHANGED <<mono, offset, deadline, snapshot, latest, spoken>> PROVE CountdownInv'
  BY <1>1 DEF CountdownInv, Heard, TwiceBoundary
<1>2. CASE UNCHANGED shellVars
  BY <1>1, <1>2 DEF shellVars
<1>3. CASE Elapse
  BY <1>3 DEF Elapse, CountdownInv, Heard, TwiceBoundary
<1>4. CASE TickCountdown
  BY <1>4, UpdateHeard DEF TickCountdown, CountdownInv
<1>5. ASSUME NEW s \in Offsets, Reconcile(s) PROVE CountdownInv'
  BY <1>5, UpdateHeard, ShellConstants DEF Reconcile, CountdownInv
<1>6. ASSUME NEW d \in Extensions, ApplyServerDeadline(d) PROVE CountdownInv'
  BY <1>6, UpdateHeard, ShellConstants DEF ApplyServerDeadline, CountdownInv
<1>7. CASE GoOffline \/ BeginReconnect \/ GoOnline \/ NoteBufferedWrite \/ NoteFlushedWrite
  BY <1>1, <1>7 DEF GoOffline, BeginReconnect, GoOnline, NoteBufferedWrite, NoteFlushedWrite, Become
<1>8. CASE RunEffects \/ OnRequestStatus
  BY <1>1, <1>8 DEF RunEffects, OnRequestStatus, Offer
<1>9. ASSUME NEW c \in Channels, TimerFires(c) PROVE CountdownInv'
  BY <1>1, <1>9 DEF TimerFires
<1> QED
  BY <1>2, <1>3, <1>4, <1>5, <1>6, <1>7, <1>8, <1>9 DEF ShellNext

(* A candidate whose estimate has fallen to a threshold has been told of   *)
(* it, for any deadline, thresholds, corrections and extensions.           *)
THEOREM EveryThresholdIsSpoken == ShellSpec => []NoThresholdMissed
PROOF
<1>1. ShellInit => CountdownInv
  <2> SUFFICES ASSUME ShellInit PROVE CountdownInv
    OBVIOUS
  <2>1. Heard(FirstDeadline)
    BY Boundaries, ShellConstants DEF Heard
  <2>2. /\ mono = 0 /\ offset = 0 /\ deadline = FirstDeadline /\ latest = FirstDeadline
        /\ snapshot.remaining = FirstDeadline
        /\ spoken = [t \in ThresholdSet |-> 0]
    BY DEF ShellInit
  <2>3. FirstDeadline \in Int
    BY ShellConstants
  <2> QED
    BY <2>1, <2>2, <2>3 DEF CountdownInv
<1>2. CountdownInv /\ [ShellNext]_shellVars => CountdownInv'
  BY CountdownStep
<1>3. CountdownInv => NoThresholdMissed
  BY DEF CountdownInv, Heard, NoThresholdMissed
<1> QED
  BY <1>1, <1>2, <1>3, PTL DEF ShellSpec

(***************************************************************************)
(* The announcer.  A message that waits is newer than what its region      *)
(* says, and the newest of all is said or waiting: unless a timer was      *)
(* overtaken.                                                              *)
(***************************************************************************)
RegionTypes(reg) ==
    reg \in [Channels -> [says : Nat, last : Int, waiting : Nat, due : Int \cup {Missing}]]

NewestHeld(reg, n) ==
    /\ \A c \in Channels : /\ reg[c].says <= n /\ reg[c].waiting <= n
                           /\ reg[c].due # Missing => reg[c].says < reg[c].waiting
    /\ \/ n = 0
       \/ \E c \in Channels : reg[c].says = n \/ (reg[c].due # Missing /\ reg[c].waiting = n)

(* No timer of the region is due already. *)
Quiet(reg, c) == reg[c].due = Missing \/ mono - reg[c].last < Gap[c]

AnnouncerInv ==
    /\ mono \in Int /\ offered \in Nat
    /\ RegionTypes(region)
    /\ ~late => NewestHeld(region, offered)

(* What offering message n to region c makes of the regions. *)
Announced(reg, after, c, n) ==
    /\ RegionTypes(after)
    /\ \A d \in Channels : d # c => after[d] = reg[d]
    /\ mono - reg[c].last >= Gap[c] =>
          /\ after[c].says = n /\ after[c].last = mono
          /\ after[c].waiting = reg[c].waiting /\ after[c].due = reg[c].due
    /\ ~(mono - reg[c].last >= Gap[c]) =>
          /\ after[c].says = reg[c].says /\ after[c].last = reg[c].last
          /\ after[c].waiting = n /\ after[c].due # Missing

LEMMA AnnounceTyped ==
    ASSUME mono \in Int, NEW reg, RegionTypes(reg), NEW c \in Channels, NEW n \in Nat
    PROVE  Announced(reg, Announce(reg, c, n), c, n)
PROOF
<1>1. Gap[c] \in Nat /\ Missing \notin Int
  BY ShellConstants DEF Channels
<1>2. reg[c] \in [says : Nat, last : Int, waiting : Nat, due : Int \cup {Missing}]
  BY DEF RegionTypes
<1> DEFINE then == IF mono - reg[c].last >= Gap[c] THEN Emit(reg[c], n)
                   ELSE [reg[c] EXCEPT !.waiting = n,
                           !.due = IF @ = Missing THEN reg[c].last + Gap[c] ELSE @]
<1>3. then \in [says : Nat, last : Int, waiting : Nat, due : Int \cup {Missing}]
  <2>1. CASE mono - reg[c].last >= Gap[c]
    BY <1>2, <2>1 DEF Emit
  <2>2. CASE ~(mono - reg[c].last >= Gap[c])
    <3>1. (IF reg[c].due = Missing THEN reg[c].last + Gap[c] ELSE reg[c].due) \in Int \cup {Missing}
      BY <1>1, <1>2
    <3> QED
      BY <1>2, <2>2, <3>1
  <2> QED
    BY <2>1, <2>2
<1>4. /\ mono - reg[c].last >= Gap[c] =>
            /\ then.says = n /\ then.last = mono
            /\ then.waiting = reg[c].waiting /\ then.due = reg[c].due
      /\ ~(mono - reg[c].last >= Gap[c]) =>
            /\ then.says = reg[c].says /\ then.last = reg[c].last
            /\ then.waiting = n /\ then.due # Missing
  BY <1>1, <1>2 DEF Emit
<1>5. Announce(reg, c, n) = [reg EXCEPT ![c] = then]
  BY DEF Announce
<1> HIDE DEF then
<1> QED
  BY <1>3, <1>4, <1>5 DEF RegionTypes, Announced

LEMMA AnnounceHolds ==
    ASSUME mono \in Int, NEW reg, RegionTypes(reg), NEW c \in Channels, NEW n \in Nat,
           NewestHeld(reg, n), Quiet(reg, c)
    PROVE  /\ NewestHeld(Announce(reg, c, n + 1), n + 1)
           /\ \A d \in Channels : Quiet(reg, d) => Quiet(Announce(reg, c, n + 1), d)
PROOF
<1> DEFINE k == n + 1
           after == Announce(reg, c, k)
<1>0. k \in Nat
  OBVIOUS
<1> HIDE DEF k
<1>a. Announced(reg, after, c, k)
  BY <1>0, AnnounceTyped
<1> HIDE DEF after
<1>1. /\ RegionTypes(after)
      /\ \A d \in Channels : d # c => after[d] = reg[d]
      /\ mono - reg[c].last >= Gap[c] =>
            /\ after[c].says = k /\ after[c].last = mono
            /\ after[c].waiting = reg[c].waiting /\ after[c].due = reg[c].due
      /\ ~(mono - reg[c].last >= Gap[c]) =>
            /\ after[c].says = reg[c].says /\ after[c].last = reg[c].last
            /\ after[c].waiting = k /\ after[c].due # Missing
  BY <1>a DEF Announced
<1> USE DEF k
<1>2. /\ Gap[c] \in Nat
      /\ reg[c] \in [says : Nat, last : Int, waiting : Nat, due : Int \cup {Missing}]
  BY ShellConstants DEF Channels, RegionTypes
<1>3. /\ reg[c].says <= n /\ reg[c].waiting <= n
      /\ \A d \in Channels : d # c =>
            /\ after[d].says \in Nat /\ after[d].waiting \in Nat
            /\ after[d].says <= n /\ after[d].waiting <= n
            /\ after[d].due # Missing => after[d].says < after[d].waiting
  BY <1>1 DEF NewestHeld, RegionTypes
<1>4. CASE mono - reg[c].last >= Gap[c]
  <2>1. reg[c].due = Missing
    BY <1>2, <1>4 DEF Quiet
  <2>2. after[c].says = n + 1 /\ after[c].waiting = reg[c].waiting /\ after[c].due = Missing
    BY <1>1, <1>2, <1>4, <2>1
  <2>3. NewestHeld(after, n + 1)
    BY <1>2, <1>3, <2>2 DEF NewestHeld
  <2> QED
    BY <1>1, <2>2, <2>3 DEF after, Quiet
<1>5. CASE ~(mono - reg[c].last >= Gap[c])
  <2>1. NewestHeld(after, n + 1)
    BY <1>1, <1>2, <1>3, <1>5 DEF NewestHeld
  <2> QED
    BY <1>1, <1>2, <1>5, <2>1 DEF after, Quiet
<1> QED
  BY <1>4, <1>5

(* What holds of the regions before a threshold's turn holds after it. *)
Ready(news, next, overtaken) ==
    /\ RegionTypes(news.region) /\ news.offered \in Nat
    /\ ~overtaken =>
          /\ NewestHeld(news.region, news.offered)
          /\ \A t \in ThresholdSet :
                ThresholdsCrossed(snapshot.remaining, next, t) => Quiet(news.region, RegionFor(t))

LEMMA TellReady ==
    ASSUME mono \in Int, NEW news, NEW next, NEW overtaken, Ready(news, next, overtaken),
           NEW t \in ThresholdSet
    PROVE  Ready(Tell(news, next, t), next, overtaken)
PROOF
<1>1. CASE ~ThresholdsCrossed(snapshot.remaining, next, t)
  BY <1>1 DEF Tell
<1>2. CASE ThresholdsCrossed(snapshot.remaining, next, t)
  <2> DEFINE after == Announce(news.region, RegionFor(t), news.offered + 1)
  <2>1. Tell(news, next, t).region = after /\ Tell(news, next, t).offered = news.offered + 1
    BY <1>2 DEF Tell
  <2>2. \A u \in ThresholdSet : RegionFor(u) \in Channels
    BY DEF RegionFor, Channels
  <2>3. RegionTypes(after) /\ news.offered + 1 \in Nat
    <3>1. news.offered + 1 \in Nat /\ RegionTypes(news.region)
      BY DEF Ready
    <3> QED
      BY <2>2, <3>1, AnnounceTyped DEF Announced
  <2>4. ASSUME ~overtaken
        PROVE  /\ NewestHeld(after, news.offered + 1)
               /\ \A d \in Channels : Quiet(news.region, d) => Quiet(after, d)
    BY <1>2, <2>2, <2>4, AnnounceHolds DEF Ready
  <2> HIDE DEF after
  <2> QED
    BY <1>2, <2>1, <2>2, <2>3, <2>4 DEF Ready
<1> QED
  BY <1>1, <1>2

LEMMA UpdateAnnounces ==
    ASSUME AnnouncerInv, NEW s, NEW d, UpdateCountdown(s, d)
    PROVE  AnnouncerInv'
PROOF
<1> DEFINE next == Remaining(s, d)
           news == [region |-> region, offered |-> offered]
           half == Tell(news, next, Thresholds[1])
           ten == Tell(half, next, Thresholds[2])
           five == Tell(ten, next, Thresholds[3])
           one == Tell(five, next, Thresholds[4])
           crossed == {t \in ThresholdSet : ThresholdsCrossed(snapshot.remaining, next, t)}
           overtaken == late \/ \E t \in crossed : Overtakes(RegionFor(t))
<1>1. region' = one.region /\ offered' = one.offered /\ late' = overtaken /\ mono' = mono
  BY DEF UpdateCountdown
<1>2. Ready(news, next, overtaken)
  <2>1. news.region = region /\ news.offered = offered
    OBVIOUS
  <2>2. ASSUME ~overtaken, NEW t \in ThresholdSet, ThresholdsCrossed(snapshot.remaining, next, t)
        PROVE  Quiet(region, RegionFor(t))
    <3>1. RegionFor(t) \in Channels
      BY DEF RegionFor, Channels
    <3>2. Gap[RegionFor(t)] \in Nat /\ region[RegionFor(t)].last \in Int /\ mono \in Int
      BY <3>1, ShellConstants DEF AnnouncerInv, RegionTypes, Channels
    <3>3. ~Overtakes(RegionFor(t))
      BY <2>2
    <3> QED
      BY <3>2, <3>3 DEF Overtakes, Quiet
  <2>3. ~overtaken => NewestHeld(region, offered)
    BY DEF AnnouncerInv
  <2> HIDE DEF news, next, overtaken
  <2> QED
    BY <2>1, <2>2, <2>3 DEF Ready, AnnouncerInv
<1>3. Thresholds[1] \in ThresholdSet /\ Thresholds[2] \in ThresholdSet
      /\ Thresholds[3] \in ThresholdSet /\ Thresholds[4] \in ThresholdSet
  BY DEF Thresholds, ThresholdSet
<1>4. mono \in Int
  BY DEF AnnouncerInv
<1> HIDE DEF news, next, overtaken
<1>5. Ready(half, next, overtaken)
  BY <1>2, <1>3, <1>4, TellReady
<1> HIDE DEF half
<1>6. Ready(ten, next, overtaken)
  BY <1>5, <1>3, <1>4, TellReady
<1> HIDE DEF ten
<1>7. Ready(five, next, overtaken)
  BY <1>6, <1>3, <1>4, TellReady
<1> HIDE DEF five
<1>8. Ready(one, next, overtaken)
  BY <1>7, <1>3, <1>4, TellReady
<1> HIDE DEF one
<1> QED
  BY <1>1, <1>4, <1>8 DEF Ready, AnnouncerInv, RegionTypes, NewestHeld

LEMMA OfferAnnounces ==
    ASSUME AnnouncerInv, Offer PROVE AnnouncerInv'
PROOF
<1> DEFINE after == Announce(region, "polite", offered + 1)
<1>1. /\ region' = after /\ offered' = offered + 1 /\ mono' = mono
      /\ late' = (late \/ Overtakes("polite"))
  BY DEF Offer
<1>2. "polite" \in Channels /\ mono \in Int /\ offered \in Nat /\ RegionTypes(region)
  BY DEF Channels, AnnouncerInv
<1>0. offered + 1 \in Nat
  BY <1>2
<1>3. RegionTypes(after)
  BY <1>0, <1>2, AnnounceTyped DEF Announced
<1>4. ASSUME ~late' PROVE NewestHeld(after, offered + 1)
  <2>1. ~late /\ ~Overtakes("polite") /\ Gap["polite"] \in Nat /\ region["polite"].last \in Int
    BY <1>1, <1>2, <1>4, ShellConstants DEF RegionTypes
  <2>2. Quiet(region, "polite")
    BY <1>2, <2>1 DEF Overtakes, Quiet
  <2> QED
    BY <1>2, <2>1, <2>2, AnnounceHolds DEF AnnouncerInv
<1> HIDE DEF after
<1> QED
  BY <1>1, <1>2, <1>3, <1>4 DEF AnnouncerInv, RegionTypes, NewestHeld

LEMMA TimerAnnounces ==
    ASSUME AnnouncerInv, NEW c \in Channels, TimerFires(c) PROVE AnnouncerInv'
PROOF
<1> DEFINE r == [region[c] EXCEPT !.due = Missing, !.waiting = Silent]
           then == IF region[c].waiting = Silent THEN r ELSE Emit(r, region[c].waiting)
<1>1. /\ region' = [region EXCEPT ![c] = then] /\ region[c].due # Missing
      /\ mono' = mono /\ offered' = offered /\ late' = late
  BY DEF TimerFires
<1>2. region[c] \in [says : Nat, last : Int, waiting : Nat, due : Int \cup {Missing}] /\ mono \in Int
  BY DEF AnnouncerInv, RegionTypes
<1>3. /\ then \in [says : Nat, last : Int, waiting : Nat, due : Int \cup {Missing}]
      /\ then.due = Missing /\ then.waiting = 0
      /\ then.says = IF region[c].waiting = 0 THEN region[c].says ELSE region[c].waiting
  BY <1>2 DEF Emit, Silent
<1> HIDE DEF then
<1>4. RegionTypes(region)'
  BY <1>1, <1>3 DEF AnnouncerInv, RegionTypes
<1>5. region'[c] = then /\ \A d \in Channels : d # c => region'[d] = region[d]
  BY <1>1 DEF AnnouncerInv, RegionTypes
<1>6. ASSUME ~late' PROVE NewestHeld(region, offered)'
  <2>1. NewestHeld(region, offered) /\ region[c].says < region[c].waiting /\ offered \in Nat
    BY <1>1, <1>6 DEF AnnouncerInv, NewestHeld
  <2>2. then.says = region[c].waiting
    BY <1>2, <1>3, <2>1
  <2> QED
    BY <1>1, <1>2, <1>3, <1>5, <2>1, <2>2 DEF NewestHeld
<1> QED
  BY <1>1, <1>4, <1>6 DEF AnnouncerInv

LEMMA AnnouncerStep ==
    ASSUME AnnouncerInv, [ShellNext]_shellVars PROVE AnnouncerInv'
PROOF
<1>1. ASSUME UNCHANGED <<offered, region, late>>, mono' \in Int PROVE AnnouncerInv'
  BY <1>1 DEF AnnouncerInv, RegionTypes, NewestHeld
<1>2. CASE UNCHANGED shellVars
  BY <1>1, <1>2 DEF shellVars, AnnouncerInv
<1>3. CASE Elapse
  BY <1>1, <1>3 DEF Elapse, AnnouncerInv
<1>4. CASE TickCountdown
  BY <1>4, UpdateAnnounces DEF TickCountdown
<1>5. ASSUME NEW s \in Offsets, Reconcile(s) PROVE AnnouncerInv'
  BY <1>5, UpdateAnnounces DEF Reconcile
<1>6. ASSUME NEW d \in Extensions, ApplyServerDeadline(d) PROVE AnnouncerInv'
  BY <1>6, UpdateAnnounces DEF ApplyServerDeadline
<1>7. CASE GoOffline \/ BeginReconnect \/ GoOnline \/ NoteBufferedWrite \/ NoteFlushedWrite
  BY <1>1, <1>7 DEF GoOffline, BeginReconnect, GoOnline, NoteBufferedWrite, NoteFlushedWrite, Become,
                    AnnouncerInv
<1>8. CASE RunEffects \/ OnRequestStatus
  BY <1>1, <1>8, OfferAnnounces DEF RunEffects, OnRequestStatus, AnnouncerInv
<1>9. ASSUME NEW c \in Channels, TimerFires(c) PROVE AnnouncerInv'
  BY <1>9, TimerAnnounces
<1> QED
  BY <1>2, <1>3, <1>4, <1>5, <1>6, <1>7, <1>8, <1>9 DEF ShellNext

(* When nothing waits, a region says the last thing offered, for any gaps  *)
(* and any order of messages, unless a timer was overtaken.                *)
THEOREM LastWordStands == ShellSpec => []NewestStands
PROOF
<1>1. ShellInit => AnnouncerInv
  <2> SUFFICES ASSUME ShellInit PROVE AnnouncerInv
    OBVIOUS
  <2>1. \A c \in Channels : Gap[c] \in Nat
    BY ShellConstants DEF Channels
  <2>2. /\ mono = 0 /\ offered = 0
        /\ region = [c \in Channels |-> [says |-> 0, last |-> -Gap[c], waiting |-> 0, due |-> Missing]]
    BY DEF ShellInit, Silent
  <2>3. \A c \in Channels : -Gap[c] \in Int
    BY <2>1
  <2>4. RegionTypes(region)
    BY <2>2, <2>3 DEF RegionTypes
  <2>5. \A c \in Channels : region[c].says = 0 /\ region[c].waiting = 0 /\ region[c].due = Missing
    BY <2>2
  <2>6. NewestHeld(region, 0)
    BY <2>5 DEF NewestHeld
  <2> QED
    BY <2>2, <2>4, <2>6 DEF AnnouncerInv
<1>2. AnnouncerInv /\ [ShellNext]_shellVars => AnnouncerInv'
  BY AnnouncerStep
<1>3. AnnouncerInv => NewestStands
  BY DEF AnnouncerInv, NewestHeld, NewestStands
<1> QED
  BY <1>1, <1>2, <1>3, PTL DEF ShellSpec

-----------------------------------------------------------------------------
(***************************************************************************)
(* Two authors of one question.  A form is a diff over a version that      *)
(* nobody can change any more: the version an author reads is published,   *)
(* so the same number read again is the same content, and a field the      *)
(* author has not touched still shows it.  What is sent is therefore only  *)
(* what was touched, and the API keeps the rest of the latest version.     *)
(***************************************************************************)
VersionFields == FormFields \cup {"published"}

\* Versions in order, whatever their fields hold.
InOrder(list) == \E S : list \in Seq(S)

Shelf ==
    /\ DOMAIN bank = {"versions", "status", "current"}
    /\ InOrder(bank.versions)
    /\ \A n \in 1 .. Len(bank.versions) : DOMAIN bank.versions[n] = VersionFields
    /\ bank.current \in 0 .. Len(bank.versions)
    /\ bank.current # 0 => bank.versions[bank.current].published = TRUE

\* What a screen has read is what that version holds, now as then.
ReadTrue(a) ==
    /\ cache[a].no \in 0 .. Len(bank.versions)
    /\ cache[a].no = 0 => cache[a].version = Missing
    /\ cache[a].no # 0 => /\ cache[a].version = bank.versions[cache[a].no]
                          /\ bank.versions[cache[a].no].published = TRUE

FormTrue(a) ==
    /\ DOMAIN form[a] = {"draft", "seededFrom"} /\ DOMAIN form[a].draft = FormFields
    /\ form[a].seededFrom = cache[a].no
    /\ \A f \in FormFields : f \notin typed[a] => form[a].draft[f] = DraftOf(cache[a].version)[f]

CallTrue(a) ==
    call[a].step = "sent" =>
        call[a].request.verb = "create" /\ DOMAIN call[a].request.body \subseteq call[a].by

EditorInv ==
    /\ Shelf
    /\ DOMAIN cache = Authors /\ DOMAIN form = Authors /\ DOMAIN call = Authors /\ DOMAIN typed = Authors
    /\ \A a \in Authors : ReadTrue(a) /\ FormTrue(a) /\ CallTrue(a)
    /\ undone = {}

LEMMA ShelfShape ==
    ASSUME Shelf
    PROVE  Len(bank.versions) \in Nat /\ DOMAIN bank.versions = 1 .. Len(bank.versions)
BY DEF Shelf, InOrder

LEMMA DraftShape ==
    ASSUME NEW version PROVE DOMAIN DraftOf(version) = FormFields
BY DEF DraftOf, FormFields, Scalars

\* A save sends only what was touched.
LEMMA SendsTouched ==
    ASSUME EditorInv, NEW a \in Authors
    PROVE  Changed(kindOf, DraftOf(Version(a)), form[a].draft) \subseteq typed[a]
PROOF
<1> DEFINE original == DraftOf(Version(a))
           draft == form[a].draft
<1>1. \A f \in FormFields : f \notin typed[a] => draft[f] = original[f]
  BY DEF EditorInv, FormTrue, Version
<1> HIDE DEF original, draft
<1>2. ASSUME NEW f \in ChangedScalars(original, draft) PROVE f \in typed[a]
  BY <1>1, <1>2 DEF ChangedScalars, FormFields
<1>3. ASSUME ~SameRows(original.rows, draft.rows) PROVE "rows" \in typed[a]
  <2>1. CASE "rows" \notin typed[a]
    <3>1. draft["rows"] = original["rows"]
      BY <1>1, <2>1 DEF FormFields
    <3>2. draft.rows = original.rows
      BY <3>1
    <3> QED
      BY <1>3, <3>2 DEF SameRows
  <2> QED
    BY <2>1
<1>4. Changed(kindOf, original, draft) \subseteq typed[a]
  BY <1>2, <1>3 DEF Changed
<1> QED
  BY <1>4 DEF original, draft

\* Every button sends a new version: the version a screen shows is published.
LEMMA ButtonsCreate ==
    ASSUME EditorInv, NEW a \in Authors, NEW request \in Buttons(a)
    PROVE  request.verb = "create" /\ DOMAIN request.body \subseteq typed[a]
PROOF
<1>1. Version(a) = Missing \/ IsPublished(a)
  BY DEF EditorInv, ReadTrue, Version, IsPublished
<1>2. request = SaveRequest(a)
  BY <1>1 DEF Buttons
<1> DEFINE body == BuildBody(kindOf, DraftOf(Version(a)), form[a].draft)
<1>3. SaveRequest(a) = [verb |-> "create", no |-> 0, body |-> body]
  BY <1>1 DEF SaveRequest
<1>4. DOMAIN body = Changed(kindOf, DraftOf(Version(a)), form[a].draft)
  BY DEF BuildBody
<1> HIDE DEF body
<1> QED
  BY <1>2, <1>3, <1>4, SendsTouched

\* Reading the question gives a screen a version that stays as it is.
LEMMA ReadAgain ==
    ASSUME EditorInv, NEW a \in Authors, UNCHANGED <<bank, undone>>,
           cache' = [cache EXCEPT ![a] = ReadQuestion(bank)], Reseed(a, ReadQuestion(bank)),
           DOMAIN call' = Authors,
           \A b \in Authors : call'[b] = call[b] \/ call'[b] = NoCall
    PROVE  EditorInv'
PROOF
<1> DEFINE read == ReadQuestion(bank)
<1>1. /\ read.no = bank.current
      /\ read.version = IF bank.current = 0 THEN Missing ELSE bank.versions[bank.current]
  BY DEF ReadQuestion, CurrentVersion
<1>2. cache' = [cache EXCEPT ![a] = read] /\ Reseed(a, read)
  OBVIOUS
<1> HIDE DEF read
<1>3. /\ DOMAIN cache' = Authors /\ cache'[a] = read
      /\ \A b \in Authors : b # a => cache'[b] = cache[b]
  BY <1>2 DEF EditorInv
<1>4. Shelf'
  BY DEF EditorInv, Shelf
<1>5. /\ DOMAIN form' = Authors /\ DOMAIN typed' = Authors
      /\ \A b \in Authors : b # a => form'[b] = form[b] /\ typed'[b] = typed[b]
  BY <1>2 DEF Reseed, EditorInv
<1>6. \A b \in Authors : ReadTrue(b)'
  BY <1>1, <1>3 DEF EditorInv, ReadTrue, Shelf
<1>7. FormTrue(a)'
  <2>1. CASE read.no # form[a].seededFrom
    <3>1. form'[a] = [draft |-> DraftOf(read.version), seededFrom |-> read.no]
      BY <1>2, <2>1 DEF Reseed, EditorInv
    <3> QED
      BY <3>1, <1>3, DraftShape DEF FormTrue
  <2>2. CASE read.no = form[a].seededFrom
    <3>1. form' = form /\ typed' = typed
      BY <1>2, <2>2 DEF Reseed
    <3>2. read.version = cache[a].version
      BY <1>1, <2>2 DEF EditorInv, ReadTrue, FormTrue
    <3> QED
      BY <1>3, <2>2, <3>1, <3>2 DEF EditorInv, FormTrue
  <2> QED
    BY <2>1, <2>2
<1>8. ASSUME NEW b \in Authors PROVE FormTrue(b)'
  BY <1>3, <1>5, <1>7 DEF EditorInv, FormTrue
<1>9. ASSUME NEW b \in Authors PROVE CallTrue(b)'
  BY DEF EditorInv, CallTrue, NoCall
<1> QED
  BY <1>3, <1>4, <1>5, <1>6, <1>8, <1>9 DEF EditorInv

\* Accepting a save appends a version that differs only where the body says.
LEMMA ServeKeeps ==
    ASSUME EditorInv, NEW a \in Authors, Serve(a) PROVE EditorInv'
PROOF
<1> DEFINE request == call[a].request
           row == Patch(BaseVersion(bank), request.body)
           list == Append(bank.versions, row)
           after == Apply(bank, request)
<1>1. UNCHANGED <<kindOf, cache, form, typed, edits, lostCalls>> /\ call[a].step = "sent"
  BY DEF Serve
<1>2. request.verb = "create" /\ DOMAIN request.body \subseteq call[a].by
  BY <1>1 DEF EditorInv, CallTrue
<1>3. /\ DOMAIN call' = Authors /\ (call'[a] = [step |-> "done"] \/ call'[a] = NoCall)
      /\ \A b \in Authors : b # a => call'[b] = call[b]
  BY DEF Serve, EditorInv
<1>4. \A b \in Authors : CallTrue(b)'
  BY <1>3 DEF EditorInv, CallTrue, NoCall
<1>5. CASE ~Accepts(bank, request)
  <2>1. bank' = bank /\ undone' = undone
    BY <1>5 DEF Serve
  <2> QED
    BY <1>1, <1>3, <1>4, <2>1 DEF EditorInv, Shelf, ReadTrue, FormTrue
<1>6. CASE Accepts(bank, request)
  <2>1. bank' = after /\ undone' = undone \cup
          {f \in FormFields \ call[a].by : after.versions[Latest(after)][f] # BaseVersion(bank)[f]}
    BY <1>6 DEF Serve
  <2>2. after = [bank EXCEPT !.versions = list]
    BY <1>2 DEF Apply
  <2>3. PICK S : bank.versions \in Seq(S)
    BY DEF EditorInv, Shelf, InOrder
  <2>4. /\ DOMAIN after = DOMAIN bank /\ after.versions = list
        /\ after.current = bank.current
    BY <2>2 DEF EditorInv, Shelf
  <2> DEFINE n == Len(bank.versions)
  <2> HIDE DEF after, row
  <2>5. /\ list \in Seq(S \cup {row}) /\ n \in Nat /\ Len(list) = n + 1
        /\ list[n + 1] = row /\ \A m \in 1 .. n : list[m] = bank.versions[m]
    <3>1. bank.versions \in Seq(S \cup {row})
      BY <2>3
    <3> QED
      BY <3>1
  <2>6. DOMAIN BaseVersion(bank) = VersionFields
    <3>1. CASE n = 0
      BY <3>1 DEF BaseVersion, Latest, VersionFields, FormFields, Scalars
    <3>2. CASE n # 0
      <4>1. n \in 1 .. n
        BY <2>5, <3>2
      <4> QED
        BY <3>2, <4>1 DEF BaseVersion, Latest, EditorInv, Shelf
    <3> QED
      BY <3>1, <3>2
  <2>7. /\ DOMAIN row = VersionFields
        /\ \A f \in VersionFields : f \notin DOMAIN request.body => row[f] = BaseVersion(bank)[f]
    BY <2>6 DEF row, Patch
  <2> HIDE DEF list, n
  <2>8. after.versions[Latest(after)] = row
    BY <2>4, <2>5 DEF Latest
  <2>9. undone' = {}
    BY <1>2, <2>1, <2>7, <2>8 DEF EditorInv, VersionFields
  <2>10. Shelf'
    BY <2>1, <2>4, <2>5, <2>7 DEF EditorInv, Shelf, InOrder, n
  <2>11. \A b \in Authors : ReadTrue(b)'
    BY <1>1, <2>1, <2>4, <2>5 DEF EditorInv, ReadTrue, n
  <2>12. \A b \in Authors : FormTrue(b)'
    BY <1>1 DEF EditorInv, FormTrue
  <2> QED
    BY <1>1, <1>3, <1>4, <2>9, <2>10, <2>11, <2>12 DEF EditorInv
<1> QED
  BY <1>5, <1>6

\* Publishing marks a version no screen has read yet; what was read stays.
LEMMA ElsewhereKeeps ==
    ASSUME EditorInv, Elsewhere PROVE EditorInv'
PROOF
<1>1. UNCHANGED <<kindOf, cache, form, call, typed, edits, lostCalls, undone>>
  BY DEF Elsewhere
<1>2. PICK request \in [verb : {"review", "publish"}, no : DOMAIN bank.versions, body : {<<>>}] :
         Accepts(bank, request) /\ bank' = Apply(bank, request)
  BY DEF Elsewhere
<1> DEFINE n == Len(bank.versions)
<1>3. n \in Nat /\ DOMAIN bank.versions = 1 .. n
  BY ShelfShape DEF EditorInv
<1>4. \A b \in Authors : FormTrue(b)' /\ CallTrue(b)'
  BY <1>1 DEF EditorInv, FormTrue, CallTrue
<1>5. CASE request.verb = "review"
  <2>1. /\ DOMAIN bank' = DOMAIN bank /\ bank'.versions = bank.versions /\ bank'.current = bank.current
    BY <1>2, <1>5 DEF Apply, EditorInv, Shelf
  <2>2. Shelf'
    BY <2>1 DEF EditorInv, Shelf
  <2>3. \A b \in Authors : ReadTrue(b)'
    BY <1>1, <2>1 DEF EditorInv, ReadTrue
  <2> QED
    BY <1>1, <1>4, <2>2, <2>3 DEF EditorInv
<1>6. CASE request.verb = "publish"
  <2> DEFINE no == request.no
             row == [bank.versions[no] EXCEPT !.published = TRUE]
  <2>1. no \in 1 .. n /\ ~bank.versions[no].published
    BY <1>2, <1>3, <1>6 DEF Accepts
  <2>2. bank' = [bank EXCEPT !.versions[no].published = TRUE, !.current = no, !.status = "published"]
    BY <1>2, <1>6 DEF Apply
  <2>3. /\ DOMAIN bank' = DOMAIN bank /\ bank'.current = no
        /\ bank'.versions = [bank.versions EXCEPT ![no] = row]
    BY <2>2 DEF EditorInv, Shelf
  <2>4. DOMAIN row = VersionFields /\ row.published = TRUE
    BY <1>3, <2>1 DEF EditorInv, Shelf, VersionFields
  <2> HIDE DEF row
  <2>5. PICK S : bank.versions \in Seq(S)
    BY DEF EditorInv, Shelf, InOrder
  <2>6. bank.versions \in Seq(S \cup {row})
    BY <2>5
  <2>7. bank'.versions \in Seq(S \cup {row}) /\ Len(bank'.versions) = n
    BY <1>3, <2>1, <2>3, <2>6
  <2>8. bank'.versions[no] = row /\ \A m \in 1 .. n : m # no => bank'.versions[m] = bank.versions[m]
    BY <1>3, <2>1, <2>3
  <2>9. Shelf'
    BY <1>3, <2>1, <2>3, <2>4, <2>7, <2>8 DEF EditorInv, Shelf, InOrder
  <2>10. ASSUME NEW b \in Authors PROVE ReadTrue(b)'
    BY <1>1, <1>3, <2>1, <2>7, <2>8 DEF EditorInv, ReadTrue
  <2> QED
    BY <1>1, <1>4, <2>9, <2>10 DEF EditorInv
<1> QED
  BY <1>2, <1>5, <1>6

LEMMA EditorStep ==
    ASSUME EditorInv, [EditorNext]_editorVars PROVE EditorInv'
PROOF
<1>1. CASE UNCHANGED editorVars
  BY <1>1 DEF editorVars, EditorInv, Shelf, ReadTrue, FormTrue, CallTrue
<1>2. CASE Elsewhere
  BY <1>2, ElsewhereKeeps
<1>3. ASSUME NEW a \in Authors, Type(a) PROVE EditorInv'
  <2>0. PICK f \in FormFields :
           /\ \E v : form' = [form EXCEPT ![a].draft[f] = v]
           /\ typed' = [typed EXCEPT ![a] = @ \cup {f}]
    BY <1>3 DEF Type
  <2>1. PICK v : form' = [form EXCEPT ![a].draft[f] = v]
    BY <2>0
  <2>2. UNCHANGED <<bank, cache, call, undone>>
    BY <1>3 DEF Type
  <2>3. /\ DOMAIN form' = Authors /\ DOMAIN typed' = Authors
        /\ \A b \in Authors : b # a => form'[b] = form[b] /\ typed'[b] = typed[b]
        /\ DOMAIN form'[a] = {"draft", "seededFrom"} /\ DOMAIN form'[a].draft = FormFields
        /\ form'[a].seededFrom = form[a].seededFrom
        /\ \A g \in FormFields : g # f => form'[a].draft[g] = form[a].draft[g]
        /\ typed'[a] = typed[a] \cup {f}
    BY <2>0, <2>1 DEF EditorInv, FormTrue
  <2>4. \A b \in Authors : FormTrue(b)'
    BY <2>2, <2>3 DEF EditorInv, FormTrue
  <2> QED
    BY <2>2, <2>3, <2>4 DEF EditorInv, Shelf, ReadTrue, CallTrue
<1>4. ASSUME NEW a \in Authors, Press(a) PROVE EditorInv'
  <2>1. PICK request \in Buttons(a) :
           call' = [call EXCEPT ![a] = [step |-> "sent", request |-> request, by |-> typed[a]]]
    BY <1>4 DEF Press
  <2>2. UNCHANGED <<bank, cache, form, typed, undone>>
    BY <1>4 DEF Press
  <2>3. request.verb = "create" /\ DOMAIN request.body \subseteq typed[a]
    BY ButtonsCreate
  <2>4. /\ DOMAIN call' = Authors /\ call'[a] = [step |-> "sent", request |-> request, by |-> typed[a]]
        /\ \A b \in Authors : b # a => call'[b] = call[b]
    BY <2>1 DEF EditorInv
  <2>5. \A b \in Authors : CallTrue(b)'
    BY <2>3, <2>4 DEF EditorInv, CallTrue
  <2> QED
    BY <2>2, <2>4, <2>5 DEF EditorInv, Shelf, ReadTrue, FormTrue
<1>5. ASSUME NEW a \in Authors, Serve(a) PROVE EditorInv'
  BY <1>5, ServeKeeps
<1>6. ASSUME NEW a \in Authors, Lose(a) PROVE EditorInv'
  <2>1. UNCHANGED <<bank, cache, form, typed, undone>> /\ call' = [call EXCEPT ![a] = NoCall]
    BY <1>6 DEF Lose
  <2>2. DOMAIN call' = Authors /\ \A b \in Authors : CallTrue(b)'
    BY <2>1 DEF EditorInv, CallTrue, NoCall
  <2> QED
    BY <2>1, <2>2 DEF EditorInv, Shelf, ReadTrue, FormTrue
<1>7. ASSUME NEW a \in Authors, Answered(a) PROVE EditorInv'
  <2>1. /\ UNCHANGED <<bank, undone>> /\ cache' = [cache EXCEPT ![a] = ReadQuestion(bank)]
        /\ Reseed(a, ReadQuestion(bank)) /\ call' = [call EXCEPT ![a] = NoCall]
    BY <1>7 DEF Answered
  <2>2. DOMAIN call' = Authors /\ \A b \in Authors : call'[b] = call[b] \/ call'[b] = NoCall
    BY <2>1 DEF EditorInv
  <2> QED
    BY <2>1, <2>2, ReadAgain
<1>8. ASSUME NEW a \in Authors, Refetch(a) PROVE EditorInv'
  <2>1. /\ UNCHANGED <<bank, undone, call>> /\ cache' = [cache EXCEPT ![a] = ReadQuestion(bank)]
        /\ Reseed(a, ReadQuestion(bank))
    BY <1>8 DEF Refetch
  <2>2. DOMAIN call' = Authors /\ \A b \in Authors : call'[b] = call[b] \/ call'[b] = NoCall
    BY <2>1 DEF EditorInv
  <2> QED
    BY <2>1, <2>2, ReadAgain
<1>9. ASSUME NEW a \in Authors, Reopen(a) PROVE EditorInv'
  <2>1. /\ UNCHANGED <<bank, cache, call, undone>> /\ typed' = [typed EXCEPT ![a] = {}]
        /\ form' = [form EXCEPT ![a] = [draft |-> DraftOf(cache[a].version), seededFrom |-> cache[a].no]]
    BY <1>9 DEF Reopen, Version
  <2>2. /\ DOMAIN form' = Authors /\ DOMAIN typed' = Authors
        /\ form'[a] = [draft |-> DraftOf(cache[a].version), seededFrom |-> cache[a].no]
        /\ \A b \in Authors : b # a => form'[b] = form[b] /\ typed'[b] = typed[b]
    BY <2>1 DEF EditorInv
  <2>3. \A b \in Authors : FormTrue(b)'
    BY <2>1, <2>2, DraftShape DEF EditorInv, FormTrue
  <2> QED
    BY <2>1, <2>2, <2>3 DEF EditorInv, Shelf, ReadTrue, CallTrue
<1> QED
  BY <1>1, <1>2, <1>3, <1>4, <1>5, <1>6, <1>7, <1>8, <1>9 DEF EditorNext

(* Saves overlap without one undoing another's: a version differs from the *)
(* one before it only in fields its author touched, for any number of      *)
(* authors, versions, edits and lost answers.                              *)
THEOREM NoSaveUndoesAnother == EditorSpec => []UntouchedFieldsKept
PROOF
<1>1. EditorInit => EditorInv
  <2> SUFFICES ASSUME EditorInit PROVE EditorInv
    OBVIOUS
  <2>1. PICK versions \in {<<>>, <<GivenVersion>>} :
           bank = [versions |-> versions, status |-> "draft", current |-> 0]
    BY DEF EditorInit
  <2>2. DOMAIN GivenVersion = VersionFields
    BY DEF GivenVersion, VersionFields, FormFields, Scalars
  <2>3. versions \in Seq({GivenVersion})
    <3>1. \A g : <<>> \in Seq({g}) /\ <<g>> \in Seq({g})
      OBVIOUS
    <3> QED
      BY <2>1, <3>1
  <2>4. /\ DOMAIN bank = {"versions", "status", "current"}
        /\ bank.versions = versions /\ bank.current = 0
    BY <2>1
  <2>5. Len(versions) \in Nat /\ \A n \in 1 .. Len(versions) : versions[n] = GivenVersion
    BY <2>3
  <2>6. Shelf
    BY <2>2, <2>3, <2>4, <2>5 DEF Shelf, InOrder
  <2>7. /\ cache = [a \in Authors |-> ReadQuestion(bank)]
        /\ form = [a \in Authors |-> [draft |-> DraftOf(Missing), seededFrom |-> 0]]
        /\ call = [a \in Authors |-> NoCall] /\ typed = [a \in Authors |-> {}] /\ undone = {}
    BY DEF EditorInit
  <2>8. \A a \in Authors : cache[a].no = 0 /\ cache[a].version = Missing
    BY <2>4, <2>7 DEF ReadQuestion, CurrentVersion
  <2>9. \A a \in Authors : ReadTrue(a) /\ FormTrue(a) /\ CallTrue(a)
    BY <2>4, <2>5, <2>7, <2>8, DraftShape DEF ReadTrue, FormTrue, CallTrue, NoCall
  <2> QED
    BY <2>6, <2>7, <2>9 DEF EditorInv
<1>2. EditorInv /\ [EditorNext]_editorVars => EditorInv'
  BY EditorStep
<1>3. EditorInv => UntouchedFieldsKept
  BY DEF EditorInv, UntouchedFieldsKept
<1> QED
  BY <1>1, <1>2, <1>3, PTL DEF EditorSpec
=============================================================================
