------------------------- MODULE Organisation_proofs -------------------------
(***************************************************************************)
(* Proofs about what an organisation's staff read and change: the pools of *)
(* connections their requests go through (TenantPool), the skill taxonomy  *)
(* (Taxonomy), the settings document and the job roles (Organisation), and *)
(* the pages of the question list (QuestionListing).  For any number of    *)
(* people, connections, skills, bearers, roles and questions, any bodies,  *)
(* filters and page size, and any of the bounds.                           *)
(***************************************************************************)
EXTENDS TenantPool, Taxonomy, Organisation, QuestionListing,
        FiniteSetTheorems, WellFoundedInduction, TLAPS

-----------------------------------------------------------------------------
(* Tenancy: pools, scoped and elevated transactions.                       *)

Phases == {"idle", "opened", "elevating", "running", "committed", "rolled back",
           "leak", "refused"}

InTransaction(c) == caller[c].phase \in {"opened", "running"}

PoolTypes ==
    /\ DOMAIN conn = AppConns \cup JobConns /\ DOMAIN caller = Callers
    /\ \A k \in AppConns \cup JobConns :
         /\ DOMAIN conn[k] = {"caller", "session", "local"}
         /\ conn[k].caller \in Callers \cup {Missing}
    /\ \A c \in Callers :
         /\ DOMAIN caller[c] = {"phase", "elevated", "org", "rows", "row"}
         /\ caller[c].phase \in Phases
         /\ caller[c].elevated \in BOOLEAN /\ caller[c].row \in BOOLEAN

(* A caller has one connection while its transaction is open, and none     *)
(* before and after.                                                       *)
OneConnection ==
    /\ \A k, l \in DOMAIN conn :
         conn[k].caller = conn[l].caller /\ conn[k].caller # Missing => k = l
    /\ \A k \in DOMAIN conn : conn[k].caller # Missing => InTransaction(conn[k].caller)
    /\ \A c \in Callers : InTransaction(c) => \E k \in DOMAIN conn : conn[k].caller = c

(* Only a stray setting leaves an organisation on a session, and withOrg's *)
(* work runs where there is none, under the organisation it asked for.     *)
Scoped ==
    /\ \A k \in DOMAIN conn : conn[k].session # Missing <=> k \in stray
    /\ accused \subseteq stray
    /\ \A k \in DOMAIN conn : \A c \in Callers :
         conn[k].caller = c /\ caller[c].phase = "running" /\ ~caller[c].elevated =>
             conn[k].local = caller[c].org /\ conn[k].session = Missing

(* What each phase of a piece of work says of its record. *)
WorkFits(c) ==
    LET call == caller[c] IN
    /\ call.phase = "opened" => ~call.elevated /\ ~call.row
    /\ call.phase = "elevating" => call.elevated
    /\ call.phase \in {"opened", "running"} /\ ~call.elevated => call.org \in Orgs
    /\ call.phase = "running" => (call.row <=> call.elevated)
    /\ call.phase \in {"elevating", "running", "committed"} /\ call.elevated => c \in attempted
    /\ ~call.elevated => call.rows \subseteq {call.org}
    /\ call.phase = "committed" /\ call.elevated => \E t \in elevations : t[1] = c
    /\ \A t \in elevations : t[1] = c =>
         call.phase = "committed" /\ call.elevated /\ t[2] = call.org
    /\ \A t \in touched : t[1] = c => call.phase = "committed"

PoolInv ==
    /\ PoolTypes
    /\ OneConnection
    /\ Scoped
    /\ \A c \in Callers : WorkFits(c)

LEMMA PoolStart == PoolInit => PoolInv
<1> SUFFICES ASSUME PoolInit PROVE PoolInv
  OBVIOUS
<1>1. PoolTypes
  BY DEF PoolInit, PoolTypes, NewConn, NoWork, Phases
<1>2. \A k \in DOMAIN conn : conn[k].caller = Missing /\ conn[k].session = Missing
  BY DEF PoolInit, NewConn
<1>3. \A c \in Callers : caller[c].phase = "idle" /\ caller[c].rows = {}
  BY DEF PoolInit, NoWork
<1>4. elevations = {} /\ touched = {} /\ accused = {} /\ stray = {}
  BY DEF PoolInit
<1>5. OneConnection
  BY <1>2, <1>3 DEF OneConnection, InTransaction
<1>6. Scoped
  BY <1>2, <1>3, <1>4 DEF Scoped
<1>7. ASSUME NEW c \in Callers PROVE WorkFits(c)
  BY <1>3, <1>4 DEF WorkFits
<1> QED
  BY <1>1, <1>5, <1>6, <1>7 DEF PoolInv

LEMMA HoldsOne ==
    ASSUME OneConnection, NEW c \in Callers, InTransaction(c)
    PROVE  /\ Holds(c) \in DOMAIN conn /\ conn[Holds(c)].caller = c
           /\ \A k \in DOMAIN conn : conn[k].caller = c => k = Holds(c)
<1>1. \E k \in DOMAIN conn : conn[k].caller = c
  BY DEF OneConnection
<1>2. Holds(c) \in DOMAIN conn /\ conn[Holds(c)].caller = c
  BY <1>1 DEF Holds
<1>3. c # Missing
  BY PoolConstants
<1> QED
  BY <1>2, <1>3 DEF OneConnection

(* A step about one caller, and no connection but its own. *)
LEMMA OthersWork ==
    ASSUME PoolInv, NEW c \in Callers,
           DOMAIN caller' = Callers, \A d \in Callers \ {c} : caller'[d] = caller[d],
           \A d \in Callers \ {c} : d \in attempted => d \in attempted',
           \A t : t[1] # c => (t \in elevations <=> t \in elevations')
                           /\ (t \in touched <=> t \in touched'),
           WorkFits(c)'
    PROVE  \A d \in Callers : WorkFits(d)'
<1>1. ASSUME NEW d \in Callers \ {c} PROVE WorkFits(d)'
  BY DEF PoolInv, WorkFits
<1> QED
  BY <1>1

(* The record of an elevation that was judged. *)
LEMMA LoggedWork ==
    ASSUME NEW c \in Callers, NEW reason, NEW o, LogElevation(c, reason, o)
    PROVE  \E w : /\ caller' = [caller EXCEPT ![c] = w]
                  /\ DOMAIN w = {"phase", "elevated", "org", "rows", "row"}
                  /\ w.phase \in {"refused", "elevating"} /\ w.elevated = TRUE /\ w.row = FALSE
                  /\ w.rows = {} /\ (w.phase = "elevating" => c \in attempted')
                  /\ caller[c].phase = "idle" /\ attempted \subseteq attempted'
<1>1. DOMAIN NoWork = {"phase", "elevated", "org", "rows", "row"} /\ NoWork.rows = {}
      /\ NoWork.row = FALSE
  BY DEF NoWork
<1> DEFINE x == NormaliseElevation(reason, o).org
<1>2. LET w == [NoWork EXCEPT !.phase = "elevating", !.elevated = TRUE, !.org = x] IN
      /\ DOMAIN w = {"phase", "elevated", "org", "rows", "row"}
      /\ w.phase = "elevating" /\ w.elevated = TRUE /\ w.row = FALSE /\ w.rows = {}
  <2> HIDE DEF x
  <2> QED
    BY <1>1
<1>3. LET w == [NoWork EXCEPT !.phase = "refused", !.elevated = TRUE] IN
      /\ DOMAIN w = {"phase", "elevated", "org", "rows", "row"}
      /\ w.phase = "refused" /\ w.elevated = TRUE /\ w.row = FALSE /\ w.rows = {}
  BY <1>1
<1> HIDE DEF NoWork
<1>4. CASE NormaliseElevation(reason, o).refused
  BY <1>3, <1>4 DEF LogElevation
<1>5. CASE ~NormaliseElevation(reason, o).refused
  BY <1>2, <1>5 DEF LogElevation
<1> QED
  BY <1>4, <1>5

LEMMA TypesStep == PoolTypes /\ OneConnection /\ [PoolNext]_poolVars => PoolTypes'
<1> SUFFICES ASSUME PoolTypes, OneConnection, [PoolNext]_poolVars PROVE PoolTypes'
  OBVIOUS
<1> USE PoolConstants DEF PoolTypes, Phases
<1>1. ASSUME NEW c \in Callers, NEW o \in Orgs, NEW k \in AppConns, WithOrg(c, o, k)
      PROVE  PoolTypes'
  BY <1>1 DEF WithOrg, NoWork
<1>2. ASSUME NEW c \in Callers, NEW reason, NEW o \in Orgs \cup {Missing},
             LogElevation(c, reason, o)
      PROVE  PoolTypes'
  <2>1. PICK w : /\ caller' = [caller EXCEPT ![c] = w]
                 /\ DOMAIN w = {"phase", "elevated", "org", "rows", "row"}
                 /\ w.phase \in {"refused", "elevating"} /\ w.elevated = TRUE /\ w.row = FALSE
    BY <1>2, LoggedWork
  <2>2. UNCHANGED conn
    BY <1>2 DEF LogElevation
  <2> QED
    BY <2>1, <2>2
<1>3. ASSUME NEW c \in Callers, NEW k \in JobConns, WithElevated(c, k) PROVE PoolTypes'
  BY <1>3 DEF WithElevated
<1>4. ASSUME NEW c \in Callers, SetOrg(c) PROVE PoolTypes'
  <2>1. PICK k \in DOMAIN conn, p \in Phases :
          /\ conn' \in {Released(k), ApplyOrg(k, caller[c].org)}
          /\ caller' = [caller EXCEPT ![c].phase = p]
    BY <1>4, HoldsOne DEF SetOrg, InTransaction
  <2>2. CASE conn' = Released(k)
    BY <2>1, <2>2 DEF Released
  <2>3. CASE conn' = ApplyOrg(k, caller[c].org)
    BY <2>1, <2>3 DEF ApplyOrg
  <2> QED
    BY <2>1, <2>2, <2>3
<1>5. ASSUME NEW c \in Callers, Statement(c) PROVE PoolTypes'
  <2>1. Admitted(Holds(c), caller[c].elevated) \subseteq Orgs
    BY DEF Admitted
  <2> HIDE DEF Admitted
  <2> QED
    BY <1>5, <2>1 DEF Statement
<1>6. ASSUME NEW c \in Callers, CommitWork(c) \/ RollbackWork(c) \/ LoseConnection(c)
      PROVE  PoolTypes'
  <2>1. PICK k \in DOMAIN conn, p \in Phases :
          /\ conn' \in {Released(k), [conn EXCEPT ![k] = NewConn]}
          /\ caller' = [caller EXCEPT ![c].phase = p]
    BY <1>6, HoldsOne DEF CommitWork, RollbackWork, LoseConnection, InTransaction
  <2>2. CASE conn' = Released(k)
    BY <2>1, <2>2 DEF Released
  <2>3. CASE conn' = [conn EXCEPT ![k] = NewConn]
    BY <2>1, <2>3 DEF NewConn
  <2> QED
    BY <2>1, <2>2, <2>3
<1>7. ASSUME NEW c \in Callers, RefuseEnded(c) \/ CallAgain(c) PROVE PoolTypes'
  <2>1. CASE RefuseEnded(c)
    BY <2>1 DEF RefuseEnded
  <2>2. CASE CallAgain(c)
    BY <2>2 DEF CallAgain, NoWork
  <2> QED
    BY <1>7, <2>1, <2>2
<1>8. ASSUME NEW k \in AppConns, NEW o \in Orgs, SetOutside(k, o) PROVE PoolTypes'
  BY <1>8 DEF SetOutside
<1>9. CASE ClosePools
  BY <1>9 DEF ClosePools
<1>10. CASE UNCHANGED poolVars
  BY <1>10 DEF poolVars
<1> QED
  BY <1>1, <1>2, <1>3, <1>4, <1>5, <1>6, <1>7, <1>8, <1>9, <1>10 DEF PoolNext

(* A caller is given a free connection, or gives its own back. *)
LEMMA SeatTaken ==
    ASSUME PoolInv, NEW c \in Callers, NEW k \in DOMAIN conn, conn[k].caller = Missing,
           conn' = [conn EXCEPT ![k].caller = c], ~InTransaction(c), InTransaction(c)',
           \A d \in Callers \ {c} : caller'[d] = caller[d]
    PROVE  OneConnection'
<1>1. /\ DOMAIN conn' = DOMAIN conn /\ conn'[k].caller = c
      /\ \A l \in DOMAIN conn : l # k => conn'[l] = conn[l]
      /\ \A l \in DOMAIN conn : conn[l].caller \in Callers \cup {Missing}
  BY DEF PoolInv, PoolTypes
<1>2. c # Missing /\ \A l \in DOMAIN conn : conn[l].caller # c
  BY PoolConstants DEF PoolInv, OneConnection
<1>3. \A d \in Callers \ {c} : InTransaction(d)' <=> InTransaction(d)
  BY DEF InTransaction
<1>4. OneConnection
  BY DEF PoolInv
<1>5. ASSUME NEW l \in DOMAIN conn', NEW m \in DOMAIN conn',
             conn'[l].caller = conn'[m].caller, conn'[l].caller # Missing
      PROVE  l = m
  BY <1>1, <1>2, <1>4, <1>5 DEF OneConnection
<1>6. ASSUME NEW l \in DOMAIN conn', conn'[l].caller # Missing
      PROVE  InTransaction(conn[l].caller)'
  <2>1. CASE l = k
    BY <1>1, <2>1 DEF InTransaction
  <2>2. CASE l # k
    BY <1>1, <1>2, <1>3, <1>4, <1>6, <2>2 DEF OneConnection, InTransaction
  <2> QED
    BY <2>1, <2>2
<1>7. ASSUME NEW d \in Callers, InTransaction(d)'
      PROVE  \E l \in DOMAIN conn' : conn'[l].caller = d
  <2>1. CASE d = c
    BY <1>1, <2>1
  <2>2. CASE d # c
    <3>1. PICK l \in DOMAIN conn : conn[l].caller = d
      BY <1>3, <1>4, <1>7, <2>2 DEF OneConnection
    <3>2. l # k
      BY <3>1, PoolConstants
    <3> QED
      BY <1>1, <3>1, <3>2
  <2> QED
    BY <2>1, <2>2
<1> QED
  BY <1>5, <1>6, <1>7 DEF OneConnection

LEMMA SeatLeft ==
    ASSUME PoolInv, NEW c \in Callers, InTransaction(c), ~InTransaction(c)',
           DOMAIN conn' = DOMAIN conn, conn'[Holds(c)].caller = Missing,
           \A l \in DOMAIN conn : l # Holds(c) => conn'[l] = conn[l],
           \A d \in Callers \ {c} : caller'[d] = caller[d]
    PROVE  OneConnection'
<1>1. \A l \in DOMAIN conn : conn[l].caller \in Callers \cup {Missing}
  BY DEF PoolInv, PoolTypes
<1>2. /\ c # Missing
      /\ Holds(c) \in DOMAIN conn /\ conn[Holds(c)].caller = c
      /\ \A l \in DOMAIN conn : conn[l].caller = c => l = Holds(c)
  BY HoldsOne, PoolConstants DEF PoolInv
<1>3. \A d \in Callers \ {c} : InTransaction(d)' <=> InTransaction(d)
  BY DEF InTransaction
<1>4. OneConnection
  BY DEF PoolInv
<1>5. ASSUME NEW l \in DOMAIN conn', NEW m \in DOMAIN conn',
             conn'[l].caller = conn'[m].caller, conn'[l].caller # Missing
      PROVE  l = m
  BY <1>4, <1>5 DEF OneConnection
<1>6. ASSUME NEW l \in DOMAIN conn', conn'[l].caller # Missing
      PROVE  InTransaction(conn[l].caller)'
  <2>1. l # Holds(c) /\ conn'[l] = conn[l] /\ l \in DOMAIN conn
    BY <1>6
  <2>2. PICK d \in Callers \ {c} : d = conn[l].caller
    BY <1>1, <1>2, <1>6, <2>1
  <2>3. InTransaction(d)'
    BY <1>3, <1>4, <1>6, <2>1, <2>2 DEF OneConnection
  <2> QED
    BY <2>1, <2>2, <2>3 DEF InTransaction
<1>7. ASSUME NEW d \in Callers, InTransaction(d)'
      PROVE  \E l \in DOMAIN conn' : conn'[l].caller = d
  <2>1. d # c
    BY <1>7
  <2>2. PICK l \in DOMAIN conn : conn[l].caller = d
    BY <1>3, <1>4, <1>7, <2>1 DEF OneConnection
  <2>3. l # Holds(c)
    BY <1>2, <2>1, <2>2
  <2> QED
    BY <2>2, <2>3
<1> QED
  BY <1>5, <1>6, <1>7 DEF OneConnection

(* The connections stay where they are. *)
LEMMA SeatsKept ==
    ASSUME PoolInv, DOMAIN conn' = DOMAIN conn,
           \A l \in DOMAIN conn : conn'[l].caller = conn[l].caller,
           \A d \in Callers : InTransaction(d)' <=> InTransaction(d)
    PROVE  OneConnection'
<1>1. \A l \in DOMAIN conn : conn[l].caller \in Callers \cup {Missing}
  BY DEF PoolInv, PoolTypes
<1> QED
  BY <1>1 DEF PoolInv, OneConnection

LEMMA SeatsStep == PoolInv /\ [PoolNext]_poolVars => OneConnection'
<1> SUFFICES ASSUME PoolInv, [PoolNext]_poolVars PROVE OneConnection'
  OBVIOUS
<1> USE DEF PoolInv, PoolTypes
<1>1. ASSUME NEW c \in Callers, NEW o \in Orgs, NEW k \in AppConns, WithOrg(c, o, k)
      PROVE  OneConnection'
  <2>1. ~InTransaction(c) /\ InTransaction(c)'
    BY <1>1 DEF WithOrg, InTransaction, NoWork
  <2> QED
    BY <1>1, <2>1, SeatTaken DEF WithOrg
<1>2. ASSUME NEW c \in Callers, NEW k \in JobConns, WithElevated(c, k)
      PROVE  OneConnection'
  <2>1. ~InTransaction(c) /\ InTransaction(c)'
    BY <1>2 DEF WithElevated, InTransaction
  <2> QED
    BY <1>2, <2>1, SeatTaken DEF WithElevated
<1>3. ASSUME NEW c \in Callers, NEW reason, NEW o, \/ LogElevation(c, reason, o)
                                               \/ RefuseEnded(c) \/ CallAgain(c)
      PROVE  OneConnection'
  <2>1. UNCHANGED conn /\ caller[c].phase \notin {"opened", "running"}
    BY <1>3 DEF LogElevation, RefuseEnded, CallAgain
  <2>2. caller'[c].phase \notin {"opened", "running"}
    <3>1. CASE LogElevation(c, reason, o)
      BY <3>1, LoggedWork
    <3>2. CASE RefuseEnded(c)
      BY <3>2 DEF RefuseEnded
    <3>3. CASE CallAgain(c)
      BY <3>3 DEF CallAgain, NoWork
    <3> QED
      BY <1>3, <3>1, <3>2, <3>3
  <2>3. \A d \in Callers \ {c} : caller'[d] = caller[d]
    BY <1>3 DEF LogElevation, RefuseEnded, CallAgain
  <2> QED
    BY <2>1, <2>2, <2>3, SeatsKept DEF InTransaction
<1>4. ASSUME NEW c \in Callers, SetOrg(c) PROVE OneConnection'
  <2>1. InTransaction(c)
    BY <1>4 DEF SetOrg, InTransaction
  <2>2. Holds(c) \in DOMAIN conn
    BY <2>1, HoldsOne
  <2>3. CASE Inherited(Holds(c)) # Missing
    <3>1. conn' = Released(Holds(c)) /\ caller' = [caller EXCEPT ![c].phase = "leak"]
      BY <1>4, <2>3 DEF SetOrg
    <3>2. DOMAIN conn' = DOMAIN conn /\ conn'[Holds(c)].caller = Missing
          /\ \A l \in DOMAIN conn : l # Holds(c) => conn'[l] = conn[l]
      BY <2>2, <3>1 DEF Released
    <3>3. ~InTransaction(c)' /\ \A d \in Callers \ {c} : caller'[d] = caller[d]
      BY <3>1 DEF InTransaction
    <3> QED
      BY <2>1, <3>2, <3>3, SeatLeft
  <2>4. CASE Inherited(Holds(c)) = Missing
    <3>1. conn' = ApplyOrg(Holds(c), caller[c].org)
          /\ caller' = [caller EXCEPT ![c].phase = "running"]
      BY <1>4, <2>4 DEF SetOrg
    <3>2. DOMAIN conn' = DOMAIN conn
          /\ \A l \in DOMAIN conn : conn'[l].caller = conn[l].caller
      BY <2>2, <3>1 DEF ApplyOrg
    <3>3. \A d \in Callers : InTransaction(d)' <=> InTransaction(d)
      BY <2>1, <3>1 DEF InTransaction
    <3> QED
      BY <3>2, <3>3, SeatsKept
  <2> QED
    BY <2>3, <2>4
<1>5. ASSUME NEW c \in Callers, Statement(c) PROVE OneConnection'
  <2>1. UNCHANGED conn /\ \A d \in Callers : caller'[d].phase = caller[d].phase
    BY <1>5 DEF Statement
  <2> QED
    BY <2>1, SeatsKept DEF InTransaction
<1>6. ASSUME NEW c \in Callers, CommitWork(c) \/ RollbackWork(c) \/ LoseConnection(c)
      PROVE  OneConnection'
  <2>1. InTransaction(c) /\ ~InTransaction(c)'
        /\ \A d \in Callers \ {c} : caller'[d] = caller[d]
    BY <1>6 DEF CommitWork, RollbackWork, LoseConnection, InTransaction
  <2>2. Holds(c) \in DOMAIN conn
    BY <2>1, HoldsOne
  <2>3. conn' \in {Released(Holds(c)), [conn EXCEPT ![Holds(c)] = NewConn]}
    BY <1>6 DEF CommitWork, RollbackWork, LoseConnection
  <2>4. /\ DOMAIN conn' = DOMAIN conn /\ conn'[Holds(c)].caller = Missing
        /\ \A l \in DOMAIN conn : l # Holds(c) => conn'[l] = conn[l]
    BY <2>2, <2>3 DEF Released, NewConn
  <2> QED
    BY <2>1, <2>4, SeatLeft
<1>7. ASSUME NEW k \in AppConns, NEW o \in Orgs, SetOutside(k, o) PROVE OneConnection'
  <2>1. UNCHANGED caller /\ DOMAIN conn' = DOMAIN conn
        /\ \A l \in DOMAIN conn : conn'[l].caller = conn[l].caller
    BY <1>7 DEF SetOutside
  <2> QED
    BY <2>1, SeatsKept DEF InTransaction
<1>8. CASE ClosePools \/ UNCHANGED poolVars
  BY <1>8, SeatsKept DEF ClosePools, poolVars, InTransaction
<1> QED
  BY <1>1, <1>2, <1>3, <1>4, <1>5, <1>6, <1>7, <1>8 DEF PoolNext

-----------------------------------------------------------------------------
(* The organisation of a connection. *)

LEMMA ScopedMove ==
    ASSUME PoolInv, NEW c \in Callers, DOMAIN conn' = DOMAIN conn,
           \A d \in Callers \ {c} : caller'[d] = caller[d],
           \A l \in DOMAIN conn : conn'[l].caller \notin {c, Missing} => conn'[l] = conn[l],
           \A l \in DOMAIN conn :
             conn'[l].caller = c /\ caller'[c].phase = "running" /\ ~caller'[c].elevated =>
               conn'[l].local = caller'[c].org /\ conn'[l].session = Missing,
           \A l \in DOMAIN conn : conn'[l].session # Missing <=> l \in stray',
           accused' \subseteq stray'
    PROVE  Scoped'
<1>1. ASSUME NEW l \in DOMAIN conn', NEW d \in Callers, conn'[l].caller = d,
             caller'[d].phase = "running", ~caller'[d].elevated
      PROVE  conn'[l].local = caller'[d].org /\ conn'[l].session = Missing
  <2>1. CASE d = c
    BY <1>1, <2>1
  <2>2. CASE d # c
    <3>1. conn'[l] = conn[l] /\ caller'[d] = caller[d]
      BY <1>1, <2>2, PoolConstants
    <3> QED
      BY <1>1, <3>1 DEF PoolInv, Scoped
  <2> QED
    BY <2>1, <2>2
<1> QED
  BY <1>1 DEF Scoped

LEMMA ScopedStep == PoolInv /\ [PoolNext]_poolVars => Scoped'
<1> SUFFICES ASSUME PoolInv, [PoolNext]_poolVars PROVE Scoped'
  OBVIOUS
<1>1. /\ DOMAIN conn = AppConns \cup JobConns /\ DOMAIN caller = Callers
      /\ \A k \in DOMAIN conn : DOMAIN conn[k] = {"caller", "session", "local"}
      /\ \A d \in Callers : DOMAIN caller[d] = {"phase", "elevated", "org", "rows", "row"}
  BY DEF PoolInv, PoolTypes
<1>2. /\ \A k \in DOMAIN conn : conn[k].session # Missing <=> k \in stray
      /\ accused \subseteq stray
  BY DEF PoolInv, Scoped
<1>3. \A k \in DOMAIN conn : \A d \in Callers :
         conn[k].caller = d /\ caller[d].phase = "running" /\ ~caller[d].elevated =>
             conn[k].local = caller[d].org /\ conn[k].session = Missing
  BY DEF PoolInv, Scoped
<1>4. \A k \in DOMAIN conn : conn[k].caller # Missing => InTransaction(conn[k].caller)
  BY DEF PoolInv, OneConnection
<1>5. ASSUME NEW c \in Callers, NEW o \in Orgs, NEW k \in AppConns, WithOrg(c, o, k)
      PROVE  Scoped'
  <2>1. /\ conn' = [conn EXCEPT ![k].caller = c]
        /\ caller'[c].phase = "opened" /\ \A d \in Callers \ {c} : caller'[d] = caller[d]
        /\ UNCHANGED <<stray, accused>>
    BY <1>1, <1>5 DEF WithOrg, NoWork
  <2> QED
    BY <1>1, <1>2, <2>1, ScopedMove
<1>6. ASSUME NEW c \in Callers, NEW reason, NEW o, LogElevation(c, reason, o)
      PROVE  Scoped'
  <2>1. /\ UNCHANGED <<conn, stray, accused>> /\ caller'[c].phase \in {"refused", "elevating"}
        /\ \A d \in Callers \ {c} : caller'[d] = caller[d]
    <3>1. UNCHANGED <<conn, stray, accused>>
      BY <1>6 DEF LogElevation
    <3>2. PICK w : /\ caller' = [caller EXCEPT ![c] = w]
                   /\ w.phase \in {"refused", "elevating"}
      BY <1>6, LoggedWork
    <3> QED
      BY <1>1, <3>1, <3>2
  <2> QED
    BY <1>2, <2>1, ScopedMove
<1>7. ASSUME NEW c \in Callers, NEW k \in JobConns, WithElevated(c, k) PROVE Scoped'
  <2>1. /\ conn' = [conn EXCEPT ![k].caller = c]
        /\ caller'[c].elevated = caller[c].elevated /\ caller[c].phase = "elevating"
        /\ \A d \in Callers \ {c} : caller'[d] = caller[d]
        /\ UNCHANGED <<stray, accused>>
    BY <1>1, <1>7 DEF WithElevated
  <2>2. caller'[c].elevated
    BY <2>1 DEF PoolInv, WorkFits
  <2> QED
    BY <1>1, <1>2, <2>1, <2>2, ScopedMove
<1>8. ASSUME NEW c \in Callers, SetOrg(c) PROVE Scoped'
  <2>1. /\ Holds(c) \in DOMAIN conn /\ conn[Holds(c)].caller = c
        /\ \A k \in DOMAIN conn : conn[k].caller = c => k = Holds(c)
    BY <1>8, HoldsOne DEF PoolInv, SetOrg, InTransaction
  <2>2. CASE Inherited(Holds(c)) # Missing
    <3>1. /\ conn' = Released(Holds(c)) /\ caller' = [caller EXCEPT ![c].phase = "leak"]
          /\ accused' = accused \cup {Holds(c)} /\ stray' = stray
      BY <1>8, <2>2 DEF SetOrg
    <3>2. /\ DOMAIN conn' = DOMAIN conn
          /\ \A l \in DOMAIN conn : conn'[l].session = conn[l].session
          /\ \A l \in DOMAIN conn : conn'[l].caller # Missing => conn'[l] = conn[l]
      BY <1>1, <2>1, <3>1 DEF Released
    <3>3. Holds(c) \in stray
      BY <1>2, <2>1, <2>2 DEF Inherited
    <3>4. caller'[c].phase = "leak" /\ \A d \in Callers \ {c} : caller'[d] = caller[d]
      BY <1>1, <3>1
    <3> QED
      BY <1>2, <3>1, <3>2, <3>3, <3>4, ScopedMove
  <2>3. CASE Inherited(Holds(c)) = Missing
    <3>1. /\ conn' = ApplyOrg(Holds(c), caller[c].org)
          /\ caller' = [caller EXCEPT ![c].phase = "running"]
          /\ UNCHANGED <<accused, stray>>
      BY <1>8, <2>3 DEF SetOrg
    <3>2. /\ DOMAIN conn' = DOMAIN conn
          /\ \A l \in DOMAIN conn : conn'[l].session = conn[l].session
          /\ \A l \in DOMAIN conn : conn'[l].caller = conn[l].caller
          /\ \A l \in DOMAIN conn : l # Holds(c) => conn'[l] = conn[l]
          /\ conn'[Holds(c)].local = caller[c].org
      BY <1>1, <2>1, <3>1 DEF ApplyOrg
    <3>3. conn'[Holds(c)].session = Missing
      BY <2>1, <2>3, <3>2 DEF Inherited
    <3>4. caller'[c].org = caller[c].org /\ \A d \in Callers \ {c} : caller'[d] = caller[d]
      BY <1>1, <3>1
    <3> QED
      BY <1>2, <2>1, <3>1, <3>2, <3>3, <3>4, ScopedMove
  <2> QED
    BY <2>2, <2>3
<1>9. ASSUME NEW c \in Callers, Statement(c) PROVE Scoped'
  <2>1. /\ UNCHANGED <<conn, stray, accused>>
        /\ \A d \in Callers : /\ caller'[d].phase = caller[d].phase
                              /\ caller'[d].elevated = caller[d].elevated
                              /\ caller'[d].org = caller[d].org
    BY <1>1, <1>9 DEF Statement
  <2> QED
    BY <1>2, <1>3, <2>1 DEF Scoped
<1>10. ASSUME NEW c \in Callers, CommitWork(c) \/ RollbackWork(c) \/ LoseConnection(c)
       PROVE  Scoped'
  <2>1. Holds(c) \in DOMAIN conn
    BY <1>10, HoldsOne DEF PoolInv, CommitWork, RollbackWork, LoseConnection, InTransaction
  <2>2. /\ caller'[c].phase \in {"committed", "rolled back"}
        /\ \A d \in Callers \ {c} : caller'[d] = caller[d]
    BY <1>1, <1>10 DEF CommitWork, RollbackWork, LoseConnection
  <2>3. CASE CommitWork(c) \/ RollbackWork(c)
    <3>1. conn' = Released(Holds(c)) /\ UNCHANGED <<accused, stray>>
      BY <2>3 DEF CommitWork, RollbackWork
    <3>2. /\ DOMAIN conn' = DOMAIN conn
          /\ \A l \in DOMAIN conn : conn'[l].session = conn[l].session
          /\ \A l \in DOMAIN conn : conn'[l].caller # Missing => conn'[l] = conn[l]
      BY <1>1, <2>1, <3>1 DEF Released
    <3> QED
      BY <1>2, <2>2, <3>1, <3>2, ScopedMove
  <2>4. CASE LoseConnection(c)
    <3>1. /\ conn' = [conn EXCEPT ![Holds(c)] = NewConn]
          /\ stray' = stray \ {Holds(c)} /\ accused' = accused \ {Holds(c)}
      BY <2>4 DEF LoseConnection
    <3>2. /\ DOMAIN conn' = DOMAIN conn
          /\ \A l \in DOMAIN conn : l # Holds(c) => conn'[l] = conn[l]
          /\ conn'[Holds(c)].session = Missing /\ conn'[Holds(c)].caller = Missing
      BY <1>1, <2>1, <3>1 DEF NewConn
    <3> QED
      BY <1>2, <2>2, <3>1, <3>2, ScopedMove
  <2> QED
    BY <1>10, <2>3, <2>4
<1>11. ASSUME NEW c \in Callers, RefuseEnded(c) PROVE Scoped'
  <2>1. /\ UNCHANGED <<conn, stray, accused>> /\ caller'[c].phase = "refused"
        /\ \A d \in Callers \ {c} : caller'[d] = caller[d]
    BY <1>1, <1>11 DEF RefuseEnded
  <2> QED
    BY <1>2, <2>1, ScopedMove
<1>12. ASSUME NEW c \in Callers, CallAgain(c) PROVE Scoped'
  <2>1. /\ UNCHANGED <<conn, stray, accused>> /\ caller'[c].phase = "idle"
        /\ \A d \in Callers \ {c} : caller'[d] = caller[d]
    BY <1>1, <1>12 DEF CallAgain, NoWork
  <2> QED
    BY <1>2, <2>1, ScopedMove
<1>13. ASSUME NEW k \in AppConns, NEW o \in Orgs, SetOutside(k, o) PROVE Scoped'
  <2>1. /\ conn' = [conn EXCEPT ![k].session = o] /\ conn[k].caller = Missing
        /\ stray' = stray \cup {k} /\ UNCHANGED <<caller, accused>>
    BY <1>13 DEF SetOutside
  <2>2. /\ DOMAIN conn' = DOMAIN conn /\ o # Missing
        /\ conn'[k].session = o /\ conn'[k].caller = Missing
        /\ \A l \in DOMAIN conn : l # k => conn'[l] = conn[l]
    BY <1>1, <2>1, PoolConstants
  <2>3. \A l \in DOMAIN conn : conn'[l].session # Missing <=> l \in stray'
    BY <1>2, <2>1, <2>2
  <2>4. accused' \subseteq stray'
    BY <1>2, <2>1
  <2>5. \A l \in DOMAIN conn : \A d \in Callers :
          conn'[l].caller = d /\ caller[d].phase = "running" /\ ~caller[d].elevated =>
             conn'[l].local = caller[d].org /\ conn'[l].session = Missing
    BY <1>3, <2>2, PoolConstants
  <2> QED
    BY <2>1, <2>2, <2>3, <2>4, <2>5 DEF Scoped
<1>14. CASE ClosePools \/ UNCHANGED poolVars
  BY <1>2, <1>3, <1>14 DEF ClosePools, poolVars, Scoped
<1> QED
  BY <1>5, <1>6, <1>7, <1>8, <1>9, <1>10, <1>11, <1>12, <1>13, <1>14 DEF PoolNext

-----------------------------------------------------------------------------
(* The record of a piece of work. *)

LEMMA WorkStep == PoolInv /\ [PoolNext]_poolVars => \A c \in Callers : WorkFits(c)'
<1> SUFFICES ASSUME PoolInv, [PoolNext]_poolVars PROVE \A c \in Callers : WorkFits(c)'
  OBVIOUS
<1>1. /\ DOMAIN caller = Callers
      /\ \A d \in Callers : /\ DOMAIN caller[d] = {"phase", "elevated", "org", "rows", "row"}
                            /\ caller[d].elevated \in BOOLEAN /\ caller[d].row \in BOOLEAN
  BY DEF PoolInv, PoolTypes
<1>2. ASSUME NEW c \in Callers, NEW o \in Orgs, NEW k \in AppConns, WithOrg(c, o, k)
      PROVE  \A d \in Callers : WorkFits(d)'
  <2>1. /\ UNCHANGED <<attempted, elevations, touched>> /\ caller[c].phase = "idle"
        /\ DOMAIN caller' = Callers /\ \A d \in Callers \ {c} : caller'[d] = caller[d]
        /\ caller'[c].phase = "opened" /\ ~caller'[c].elevated /\ ~caller'[c].row
        /\ caller'[c].org = o /\ caller'[c].rows = {}
    BY <1>1, <1>2 DEF WithOrg, NoWork
  <2>2. WorkFits(c)'
    BY <2>1 DEF PoolInv, WorkFits
  <2> QED
    BY <2>1, <2>2, OthersWork
<1>3. ASSUME NEW c \in Callers, NEW reason, NEW o, LogElevation(c, reason, o)
      PROVE  \A d \in Callers : WorkFits(d)'
  <2>1. UNCHANGED <<elevations, touched>>
    BY <1>3 DEF LogElevation
  <2>2. PICK w : /\ caller' = [caller EXCEPT ![c] = w]
                 /\ w.phase \in {"refused", "elevating"} /\ w.elevated = TRUE
                 /\ w.rows = {} /\ (w.phase = "elevating" => c \in attempted')
                 /\ caller[c].phase = "idle" /\ attempted \subseteq attempted'
    BY <1>3, LoggedWork
  <2>3. /\ DOMAIN caller' = Callers /\ \A d \in Callers \ {c} : caller'[d] = caller[d]
        /\ caller'[c] = w
    BY <1>1, <2>2
  <2>4. WorkFits(c)'
    BY <2>1, <2>2, <2>3 DEF PoolInv, WorkFits
  <2> QED
    BY <2>1, <2>2, <2>3, <2>4, OthersWork
<1>4. ASSUME NEW c \in Callers, NEW k \in JobConns, WithElevated(c, k)
      PROVE  \A d \in Callers : WorkFits(d)'
  <2>1. /\ UNCHANGED <<attempted, elevations, touched>> /\ caller[c].phase = "elevating"
        /\ DOMAIN caller' = Callers /\ \A d \in Callers \ {c} : caller'[d] = caller[d]
        /\ caller'[c].phase = "running" /\ caller'[c].row = TRUE
        /\ caller'[c].elevated = caller[c].elevated
    BY <1>1, <1>4 DEF WithElevated
  <2>2. WorkFits(c)'
    BY <2>1 DEF PoolInv, WorkFits
  <2> QED
    BY <2>1, <2>2, OthersWork
<1>5. ASSUME NEW c \in Callers, SetOrg(c) PROVE \A d \in Callers : WorkFits(d)'
  <2>1. /\ UNCHANGED <<attempted, elevations, touched>> /\ caller[c].phase = "opened"
        /\ DOMAIN caller' = Callers /\ \A d \in Callers \ {c} : caller'[d] = caller[d]
        /\ caller'[c].phase \in {"running", "leak"}
        /\ caller'[c].elevated = caller[c].elevated /\ caller'[c].org = caller[c].org
        /\ caller'[c].rows = caller[c].rows /\ caller'[c].row = caller[c].row
    BY <1>1, <1>5 DEF SetOrg
  <2>2. WorkFits(c)'
    BY <2>1 DEF PoolInv, WorkFits
  <2> QED
    BY <2>1, <2>2, OthersWork
<1>6. ASSUME NEW c \in Callers, Statement(c) PROVE \A d \in Callers : WorkFits(d)'
  <2> DEFINE admitted == Admitted(Holds(c), caller[c].elevated)
  <2>1. /\ UNCHANGED <<attempted, elevations, touched>> /\ caller[c].phase = "running"
        /\ caller' = [caller EXCEPT ![c].rows = @ \cup admitted]
    BY <1>6 DEF Statement
  <2>2. ~caller[c].elevated => admitted \subseteq {caller[c].org}
    <3> SUFFICES ASSUME ~caller[c].elevated PROVE admitted \subseteq {caller[c].org}
      OBVIOUS
    <3>1. Holds(c) \in DOMAIN conn /\ conn[Holds(c)].caller = c
      BY <2>1, HoldsOne DEF PoolInv, InTransaction
    <3>2. conn[Holds(c)].local = caller[c].org
      BY <2>1, <3>1 DEF PoolInv, Scoped
    <3>3. caller[c].org # Missing
      BY <2>1, PoolConstants DEF PoolInv, WorkFits
    <3> QED
      BY <3>2, <3>3 DEF Admitted
  <2> HIDE DEF admitted
  <2>3. /\ DOMAIN caller' = Callers /\ \A d \in Callers \ {c} : caller'[d] = caller[d]
        /\ caller'[c].phase = "running" /\ caller'[c].rows = caller[c].rows \cup admitted
        /\ caller'[c].elevated = caller[c].elevated /\ caller'[c].org = caller[c].org
        /\ caller'[c].row = caller[c].row
    BY <1>1, <2>1
  <2>4. WorkFits(c)'
    BY <2>1, <2>2, <2>3 DEF PoolInv, WorkFits
  <2> QED
    BY <2>1, <2>3, <2>4, OthersWork
<1>7. ASSUME NEW c \in Callers, CommitWork(c) PROVE \A d \in Callers : WorkFits(d)'
  <2>1. /\ UNCHANGED attempted /\ caller[c].phase = "running"
        /\ touched' = touched \cup ({c} \X caller[c].rows)
        /\ elevations' = IF caller[c].row THEN elevations \cup {<<c, caller[c].org>>}
                         ELSE elevations
        /\ DOMAIN caller' = Callers /\ \A d \in Callers \ {c} : caller'[d] = caller[d]
        /\ caller'[c].phase = "committed" /\ caller'[c].rows = caller[c].rows
        /\ caller'[c].elevated = caller[c].elevated /\ caller'[c].org = caller[c].org
    BY <1>1, <1>7 DEF CommitWork
  <2>2. /\ caller[c].row <=> caller[c].elevated
        /\ \A t \in elevations : t[1] # c
        /\ caller[c].elevated => c \in attempted
        /\ ~caller[c].elevated => caller[c].rows \subseteq {caller[c].org}
    BY <2>1 DEF PoolInv, WorkFits
  <2>3. <<c, caller[c].org>>[1] = c /\ <<c, caller[c].org>>[2] = caller[c].org
    OBVIOUS
  <2>4. WorkFits(c)'
    <3>1. caller'[c].elevated => \E t \in elevations' : t[1] = c
      BY <2>1, <2>2, <2>3
    <3>2. \A t \in elevations' : t[1] = c =>
            caller'[c].elevated /\ t[2] = caller'[c].org
      BY <2>1, <2>2, <2>3
    <3> QED
      BY <2>1, <2>2, <3>1, <3>2 DEF WorkFits
  <2>5. \A t : t[1] # c => (t \in elevations <=> t \in elevations')
                        /\ (t \in touched <=> t \in touched')
    BY <2>1, <2>3
  <2> QED
    BY <2>1, <2>4, <2>5, OthersWork
<1>8. ASSUME NEW c \in Callers, RollbackWork(c) \/ LoseConnection(c)
      PROVE  \A d \in Callers : WorkFits(d)'
  <2>1. /\ UNCHANGED <<attempted, elevations, touched>>
        /\ caller[c].phase \in {"opened", "running"}
        /\ DOMAIN caller' = Callers /\ \A d \in Callers \ {c} : caller'[d] = caller[d]
        /\ caller'[c].phase = "rolled back"
        /\ caller'[c].elevated = caller[c].elevated /\ caller'[c].org = caller[c].org
        /\ caller'[c].rows = caller[c].rows
    BY <1>1, <1>8 DEF RollbackWork, LoseConnection
  <2>2. WorkFits(c)'
    BY <2>1 DEF PoolInv, WorkFits
  <2> QED
    BY <2>1, <2>2, OthersWork
<1>9. ASSUME NEW c \in Callers, RefuseEnded(c) PROVE \A d \in Callers : WorkFits(d)'
  <2>1. /\ UNCHANGED <<attempted, elevations, touched>>
        /\ caller[c].phase \in {"idle", "elevating"}
        /\ DOMAIN caller' = Callers /\ \A d \in Callers \ {c} : caller'[d] = caller[d]
        /\ caller'[c].phase = "refused"
        /\ caller'[c].elevated = caller[c].elevated /\ caller'[c].org = caller[c].org
        /\ caller'[c].rows = caller[c].rows
    BY <1>1, <1>9 DEF RefuseEnded
  <2>2. WorkFits(c)'
    BY <2>1 DEF PoolInv, WorkFits
  <2> QED
    BY <2>1, <2>2, OthersWork
<1>10. ASSUME NEW c \in Callers, CallAgain(c) PROVE \A d \in Callers : WorkFits(d)'
  <2>1. /\ touched' = {t \in touched : t[1] # c}
        /\ elevations' = {t \in elevations : t[1] # c}
        /\ attempted' = attempted \ {c}
        /\ DOMAIN caller' = Callers /\ \A d \in Callers \ {c} : caller'[d] = caller[d]
        /\ caller'[c].phase = "idle" /\ caller'[c].rows = {}
    BY <1>1, <1>10 DEF CallAgain, NoWork
  <2>2. WorkFits(c)'
    BY <2>1 DEF WorkFits
  <2> QED
    BY <2>1, <2>2, OthersWork
<1>11. CASE (\E k \in AppConns, o \in Orgs : SetOutside(k, o)) \/ ClosePools \/ UNCHANGED poolVars
  <2>1. UNCHANGED <<caller, attempted, elevations, touched>>
    BY <1>11 DEF SetOutside, ClosePools, poolVars
  <2> QED
    BY <2>1 DEF PoolInv, WorkFits
<1> QED
  BY <1>2, <1>3, <1>4, <1>5, <1>6, <1>7, <1>8, <1>9, <1>10, <1>11 DEF PoolNext

(* withOrg's work stays in the organisation that asked, on a connection    *)
(* nothing has scoped; a connection is accused only of a real leak; and    *)
(* elevated work is on record exactly when it committed.                   *)
THEOREM ScopeIsKept == PoolSpec => []TenantScopeHolds
<1>1. PoolInv => TenantScopeHolds
  <2> SUFFICES ASSUME PoolInv PROVE TenantScopeHolds
    OBVIOUS
  <2>1. ASSUME NEW c \in Callers
        PROVE  LET call == caller[c] IN
               /\ ~call.elevated => call.rows \subseteq {call.org}
               /\ call.elevated /\ call.phase = "committed" <=> \E t \in elevations : t[1] = c
               /\ \A t \in elevations : t[1] = c => t[2] = call.org /\ c \in attempted
               /\ call.phase # "committed" => ~\E t \in touched : t[1] = c
               /\ call.phase = "running" /\ ~call.elevated => Holds(c) \notin stray
    <3>1. WorkFits(c)
      BY DEF PoolInv
    <3>2. ASSUME caller[c].phase = "running", ~caller[c].elevated PROVE Holds(c) \notin stray
      <4>1. Holds(c) \in DOMAIN conn /\ conn[Holds(c)].caller = c
        BY <3>2, HoldsOne DEF PoolInv, InTransaction
      <4> QED
        BY <3>2, <4>1 DEF PoolInv, Scoped
    <3> QED
      BY <3>1, <3>2 DEF WorkFits
  <2>2. accused \subseteq stray /\ \A k \in DOMAIN conn : conn[k].session # Missing => k \in stray
    BY DEF PoolInv, Scoped
  <2> QED
    BY <2>1, <2>2 DEF TenantScopeHolds
<1>2. PoolInv /\ [PoolNext]_poolVars => PoolInv'
  BY TypesStep, SeatsStep, ScopedStep, WorkStep DEF PoolInv
<1> QED
  BY <1>1, <1>2, PoolStart, PTL DEF PoolSpec

-----------------------------------------------------------------------------
(* The taxonomy: skills created, merged and required while others are.     *)

(* A create whose row is in, not visible yet; a merge that has deleted.    *)
Creating(t) == t.op = "create" /\ t.at = "commit"
Deleting(t) == t.op = "merge" /\ t.at = "commit"

CreateShape(t) ==
    /\ {"op", "at", "under"} \subseteq DOMAIN t
    /\ t.at \in {"check", "insert", "commit"}
    /\ t.under \in Skills \cup {Missing}
    /\ t.at = "commit" => t.skill \in Skills

ReplaceShape(t) ==
    /\ {"op", "at", "bearer", "body"} \subseteq DOMAIN t
    /\ t.at \in {"lock", "visible", "insert", "commit"}
    /\ t.bearer \in Bearers /\ t.body \subseteq Skills

MergeShape(t) ==
    /\ {"op", "at", "source", "target"} \subseteq DOMAIN t
    /\ t.at \in {"read_source", "read_target", "copy", "reparent", "delete", "commit"}
    /\ t.source \in Skills /\ t.target \in Skills /\ t.source # t.target
    /\ t.at # "read_source" => "children" \in DOMAIN t /\ t.children \in BOOLEAN
    /\ t.at \in {"reparent", "delete", "commit"} => "moved" \in DOMAIN t /\ t.moved \subseteq Bearers
    /\ t.at \in {"delete", "commit"} => "reparented" \in DOMAIN t /\ t.reparented \subseteq Skills

TxnShape(t) ==
    \/ t = Rest
    \/ t.op = "create" /\ CreateShape(t)
    \/ t.op = "replace" /\ ReplaceShape(t)
    \/ t.op = "merge" /\ MergeShape(t)

TaxonomyTypes ==
    /\ parent \in [Exists -> Skills \cup {Missing}] /\ Exists \subseteq Skills
    /\ carries \subseteq Bearers \X Skills
    /\ unused \subseteq Skills
    /\ DOMAIN txn = Editors /\ \A e \in Editors : TxnShape(txn[e])

(* An id nobody has ever seen: not given out, or given to a row that is    *)
(* not committed.                                                          *)
Unborn(s) == s \in unused \/ \E f \in Editors : Creating(txn[f]) /\ txn[f].skill = s

(* An id is given out once, and nobody refers to it before its row is.     *)
NamesNoUnborn(t) ==
    /\ (t.op = "create" /\ t.at # "check") => ~Unborn(t.under)
    /\ (t.op = "merge" /\ t.at \in {"delete", "commit"}) => \A c \in t.reparented : ~Unborn(c)

IdsOnce ==
    /\ \A s \in Exists : ~Unborn(s)
    /\ \A e \in Editors : Creating(txn[e]) =>
          /\ txn[e].skill \notin unused
          /\ \A f \in Editors \ {e} : Creating(txn[f]) => txn[f].skill # txn[e].skill
    /\ \A e \in Editors : NamesNoUnborn(txn[e])

(* The row locks of a foreign key and of a delete keep a parent in place   *)
(* under a row that is about to be committed.                              *)
ParentsHeld ==
    /\ \A e \in Editors : (Creating(txn[e]) /\ txn[e].under # Missing) =>
          /\ txn[e].under \in Exists
          /\ [editor |-> e, row |-> txn[e].under, mode |-> "key_share"] \in locks
    /\ \A e \in Editors : Deleting(txn[e]) =>
          [editor |-> e, row |-> txn[e].source, mode |-> "update"] \in locks
    /\ \A e, f \in Editors : (Creating(txn[e]) /\ Deleting(txn[f])) => txn[e].under # txn[f].source

(* What a create has checked, and a merge has read, is still so.           *)
CreateSound(t) ==
    (t.op = "create" /\ t.at # "check" /\ t.under \in Exists) => parent[t.under] = Missing

Childless(s) == \A c \in Exists : parent[c] # s

SourceSound(t) == t.source \in Exists /\ (t.children \/ Childless(t.source))

TargetSound(t) ==
    /\ t.target \in Exists /\ parent[t.target] # t.source
    /\ Childless(t.source) \/ parent[t.target] = Missing

CarriersSound(t) ==
    \A b \in Bearers : <<b, t.source>> \in carries => <<b, t.target>> \in carries \/ b \in t.moved

ReparentSound(t) ==
    /\ t.target \notin t.reparented
    /\ t.reparented # {} => parent[t.target] = Missing
    /\ \A c \in t.reparented \cap Exists : parent[c] = t.source

MergeSound(t) ==
    t.op = "merge" =>
        /\ t.at # "read_source" => SourceSound(t)
        /\ t.at \notin {"read_source", "read_target"} => TargetSound(t)
        /\ t.at \in {"reparent", "delete", "commit"} => CarriersSound(t)
        /\ t.at \in {"delete", "commit"} => ReparentSound(t)

NoOrphans == \A s \in Exists : parent[s] \in Exists \cup {Missing}

TaxonomyInv ==
    /\ TaxonomyTypes /\ IdsOnce /\ ParentsHeld
    /\ overtaken = {} =>
          /\ TwoLevels /\ NoOrphans
          /\ \A e \in Editors : CreateSound(txn[e]) /\ MergeSound(txn[e])

-----------------------------------------------------------------------------
(* What the steps do to the transactions and to the ids.                   *)

Others(e) == DOMAIN txn' = Editors /\ \A f \in Editors \ {e} : txn'[f] = txn[f]

LEMMA Patched ==
    ASSUME NEW t, NEW a, NEW patch, "at" \in DOMAIN t, "at" \notin DOMAIN patch
    PROVE  LET n == Over(patch, [t EXCEPT !.at = a]) IN
           /\ DOMAIN n = DOMAIN patch \cup DOMAIN t
           /\ n["at"] = a
           /\ \A x \in DOMAIN patch : n[x] = patch[x]
           /\ \A x \in DOMAIN t \ DOMAIN patch : x # "at" => n[x] = t[x]
BY DEF Over

LEMMA StepTxn ==
    ASSUME TaxonomyTypes, NEW e \in Editors, NEW a, NEW patch, Step(e, a, patch),
           "at" \in DOMAIN txn[e], "at" \notin DOMAIN patch
    PROVE  /\ Others(e)
           /\ DOMAIN txn'[e] = DOMAIN patch \cup DOMAIN txn[e]
           /\ txn'[e].at = a
           /\ \A x \in DOMAIN patch : txn'[e][x] = patch[x]
           /\ \A x \in DOMAIN txn[e] \ DOMAIN patch : x # "at" => txn'[e][x] = txn[e][x]
<1>1. txn' = [txn EXCEPT ![e] = Over(patch, [txn[e] EXCEPT !.at = a])]
  BY DEF Step
<1>2. Others(e) /\ txn'[e] = Over(patch, [txn[e] EXCEPT !.at = a])
  BY <1>1 DEF TaxonomyTypes, Others
<1> QED
  BY <1>2, Patched

(* A step with no patch only moves on. *)
LEMMA StepOn ==
    ASSUME TaxonomyTypes, NEW e \in Editors, NEW a, Step(e, a, <<>>), "at" \in DOMAIN txn[e]
    PROVE  /\ Others(e) /\ DOMAIN txn'[e] = DOMAIN txn[e] /\ txn'[e].at = a
           /\ \A x \in DOMAIN txn[e] : x # "at" => txn'[e][x] = txn[e][x]
<1>1. DOMAIN <<>> = {}
  OBVIOUS
<1>2. "at" \notin DOMAIN <<>>
  BY <1>1
<1>3. DOMAIN txn[e] = DOMAIN <<>> \cup DOMAIN txn[e] /\ DOMAIN txn[e] = DOMAIN txn[e] \ DOMAIN <<>>
  BY <1>1
<1> QED
  BY <1>2, <1>3, StepTxn

(* A step that commits nothing keeps the invariant if it leaves its own    *)
(* transaction in order.                                                   *)
LEMMA LocalStep ==
    ASSUME TaxonomyInv, NEW e \in Editors, Others(e),
           parent' = parent, carries' = carries, overtaken' = overtaken, unused' \subseteq unused,
           {l \in locks : l.editor # e} \subseteq locks',
           TxnShape(txn'[e]), NamesNoUnborn(txn'[e]),
           Creating(txn'[e]) => txn'[e].skill \in unused \ unused',
           (Creating(txn'[e]) /\ txn'[e].under # Missing) =>
              /\ txn'[e].under \in Exists
              /\ [editor |-> e, row |-> txn'[e].under, mode |-> "key_share"] \in locks',
           Deleting(txn'[e]) => [editor |-> e, row |-> txn'[e].source, mode |-> "update"] \in locks',
           \A f \in Editors \ {e} :
              /\ Creating(txn'[e]) /\ Deleting(txn[f]) => txn'[e].under # txn[f].source
              /\ Creating(txn[f]) /\ Deleting(txn'[e]) => txn[f].under # txn'[e].source,
           overtaken = {} => CreateSound(txn'[e]) /\ MergeSound(txn'[e])
    PROVE  TaxonomyInv'
<1> USE DEF Others
<1>1. TaxonomyTypes'
  BY DEF TaxonomyInv, TaxonomyTypes, Exists
<1>2. \A s : Unborn(s)' => Unborn(s)
  BY DEF Unborn
<1>3. ASSUME NEW f \in Editors PROVE NamesNoUnborn(txn[f])'
  <2>1. NamesNoUnborn(txn'[f])
    BY DEF TaxonomyInv, IdsOnce
  <2> QED
    BY <1>2, <2>1 DEF NamesNoUnborn
<1>4. IdsOnce'
  <2>1. \A s \in Exists' : ~Unborn(s)'
    BY <1>2 DEF TaxonomyInv, IdsOnce, Exists
  <2>2. ASSUME NEW f \in Editors, Creating(txn'[f])
        PROVE  /\ txn'[f].skill \notin unused'
               /\ \A g \in Editors \ {f} : Creating(txn'[g]) => txn'[g].skill # txn'[f].skill
    BY <2>2 DEF TaxonomyInv, IdsOnce
  <2> QED
    BY <2>1, <2>2, <1>3 DEF IdsOnce
<1>5. ParentsHeld'
  <2>1. ASSUME NEW f \in Editors, Creating(txn'[f]), txn'[f].under # Missing
        PROVE  /\ txn'[f].under \in Exists'
               /\ [editor |-> f, row |-> txn'[f].under, mode |-> "key_share"] \in locks'
    <3>1. CASE f = e
      BY <3>1, <2>1 DEF Exists
    <3>2. CASE f # e
      <4>1. [editor |-> f, row |-> txn[f].under, mode |-> "key_share"] \in locks /\ txn[f].under \in Exists
        BY <3>2, <2>1 DEF TaxonomyInv, ParentsHeld
      <4> QED
        BY <4>1, <3>2 DEF Exists
    <3> QED
      BY <3>1, <3>2
  <2>2. ASSUME NEW f \in Editors, Deleting(txn'[f])
        PROVE  [editor |-> f, row |-> txn'[f].source, mode |-> "update"] \in locks'
    <3>1. CASE f # e
      <4>1. [editor |-> f, row |-> txn[f].source, mode |-> "update"] \in locks
        BY <3>1, <2>2 DEF TaxonomyInv, ParentsHeld
      <4> QED
        BY <4>1, <3>1
    <3> QED
      BY <3>1, <2>2
  <2>3. ASSUME NEW f \in Editors, NEW g \in Editors, Creating(txn'[f]), Deleting(txn'[g])
        PROVE  txn'[f].under # txn'[g].source
    <3>1. f # g
      BY <2>3 DEF Creating, Deleting
    <3> QED
      BY <3>1, <2>3 DEF TaxonomyInv, ParentsHeld
  <2> QED
    BY <2>1, <2>2, <2>3 DEF ParentsHeld
<1>6. ASSUME overtaken' = {} PROVE TwoLevels' /\ NoOrphans'
  BY <1>6 DEF TaxonomyInv, TwoLevels, NoOrphans, Exists
<1>7. ASSUME overtaken' = {}
      PROVE  \A f \in Editors : CreateSound(txn[f])' /\ MergeSound(txn[f])'
  <2> SUFFICES ASSUME NEW f \in Editors PROVE CreateSound(txn[f])' /\ MergeSound(txn[f])'
    OBVIOUS
  <2>1. CreateSound(txn'[f]) /\ MergeSound(txn'[f])
    BY <1>7 DEF TaxonomyInv
  <2>2. CreateSound(txn[f])'
    BY <2>1 DEF CreateSound, Exists
  <2>3. MergeSound(txn[f])'
    BY <2>1 DEF MergeSound, SourceSound, TargetSound, CarriersSound, ReparentSound, Childless, Exists
  <2> QED
    BY <2>2, <2>3
<1> QED
  BY <1>1, <1>4, <1>5, <1>6, <1>7 DEF TaxonomyInv

LEMMA BeginStep ==
    ASSUME TaxonomyInv, NEW e \in Editors, NEW fields, Begin(e, fields), TxnShape(fields),
           fields.op = "create" => fields.at = "check",
           fields.op = "merge" => fields.at = "read_source",
           UNCHANGED <<parent, carries, locks, unused, overtaken>>
    PROVE  TaxonomyInv'
<1>1. Others(e) /\ txn'[e] = fields
  BY DEF Begin, TaxonomyInv, TaxonomyTypes, Others
<1>2. NamesNoUnborn(fields) /\ CreateSound(fields) /\ MergeSound(fields)
  BY DEF NamesNoUnborn, CreateSound, MergeSound
<1>3. ~Creating(fields) /\ ~Deleting(fields)
  BY DEF Creating, Deleting
<1> QED
  BY <1>1, <1>2, <1>3, LocalStep

LEMMA Begins ==
    ASSUME TaxonomyInv, NEW e \in Editors
    PROVE  /\ \A p \in Skills \cup {Missing} : BeginCreate(e, p) => TaxonomyInv'
           /\ \A b \in Bearers, body \in SUBSET Skills : BeginReplace(e, b, body) => TaxonomyInv'
           /\ \A s, t \in Skills : BeginMerge(e, s, t) => TaxonomyInv'
<1>1. ASSUME NEW p \in Skills \cup {Missing}, BeginCreate(e, p) PROVE TaxonomyInv'
  <2> DEFINE fields == [op |-> "create", at |-> "check", under |-> p]
  <2>1. TxnShape(fields) /\ fields.op = "create" /\ fields.at = "check"
    BY DEF TxnShape, CreateShape
  <2> QED
    BY <1>1, <2>1, BeginStep DEF BeginCreate
<1>2. ASSUME NEW b \in Bearers, NEW body \in SUBSET Skills, BeginReplace(e, b, body) PROVE TaxonomyInv'
  <2> DEFINE fields == [op |-> "replace", at |-> "lock", bearer |-> b, body |-> body]
  <2>1. TxnShape(fields) /\ fields.op = "replace"
    BY DEF TxnShape, ReplaceShape
  <2> QED
    BY <1>2, <2>1, BeginStep DEF BeginReplace
<1>3. ASSUME NEW s \in Skills, NEW t \in Skills, BeginMerge(e, s, t) PROVE TaxonomyInv'
  <2> DEFINE fields == [op |-> "merge", at |-> "read_source", source |-> s, target |-> t]
  <2>1. TxnShape(fields) /\ fields.op = "merge" /\ fields.at = "read_source"
    BY <1>3 DEF TxnShape, MergeShape, BeginMerge
  <2> QED
    BY <1>3, <2>1, BeginStep DEF BeginMerge
<1> QED
  BY <1>1, <1>2, <1>3

LEMMA RollbackStep ==
    ASSUME TaxonomyInv, NEW e \in Editors, Rollback(e)
    PROVE  TaxonomyInv'
<1>1. Others(e) /\ txn'[e] = Rest
  BY DEF Rollback, TaxonomyInv, TaxonomyTypes, Others
<1>2. TxnShape(Rest) /\ NamesNoUnborn(Rest) /\ CreateSound(Rest) /\ MergeSound(Rest)
  BY DEF TxnShape, NamesNoUnborn, CreateSound, MergeSound, Rest
<1>3. ~Creating(Rest) /\ ~Deleting(Rest)
  BY DEF Creating, Deleting, Rest
<1>4. /\ UNCHANGED <<parent, carries, unused, overtaken>>
      /\ {l \in locks : l.editor # e} \subseteq locks'
  BY DEF Rollback
<1> QED
  BY <1>1, <1>2, <1>3, <1>4, LocalStep

(* A create: its parent is a root when it is looked at, and stays one.     *)
LEMMA CheckParentStep ==
    ASSUME TaxonomyInv, NEW e \in Editors, CheckParent(e)
    PROVE  TaxonomyInv'
<1> DEFINE t == txn[e]
<1>1. t.op = "create" /\ t.at = "check" /\ CreateShape(t)
  BY DEF CheckParent, TaxonomyInv, TaxonomyTypes, TxnShape, Rest
<1>2. CASE Rollback(e)
  BY <1>2, RollbackStep
<1>3. CASE /\ t.under # Missing => t.under \in Exists /\ parent[t.under] = Missing
           /\ Step(e, "insert", <<>>)
           /\ UNCHANGED <<parent, carries, locks, unused, begun, overtaken>>
  <2>1. /\ Others(e) /\ DOMAIN txn'[e] = DOMAIN t /\ txn'[e].at = "insert"
        /\ \A x \in DOMAIN t : x # "at" => txn'[e][x] = t[x]
    BY <1>1, <1>3, StepOn DEF CreateShape, TaxonomyInv
  <2>2. txn'[e].op = "create" /\ txn'[e].under = t.under
    BY <2>1, <1>1 DEF CreateShape
  <2>3. TxnShape(txn'[e])
    BY <2>1, <2>2, <1>1 DEF TxnShape, CreateShape
  <2>4. ~Unborn(t.under)
    <3>1. CASE t.under = Missing
      BY <3>1, TaxonomyConstants DEF Unborn, TaxonomyInv, TaxonomyTypes, TxnShape, Creating, CreateShape, Rest
    <3>2. CASE t.under # Missing
      BY <3>2, <1>3 DEF TaxonomyInv, IdsOnce
    <3> QED
      BY <3>1, <3>2
  <2>5. NamesNoUnborn(txn'[e]) /\ ~Creating(txn'[e]) /\ ~Deleting(txn'[e])
    BY <2>1, <2>2, <2>4 DEF NamesNoUnborn, Creating, Deleting
  <2>6. CreateSound(txn'[e]) /\ MergeSound(txn'[e])
    <3>1. t.under \in Exists => parent[t.under] = Missing
      BY <1>3, TaxonomyConstants DEF TaxonomyInv, TaxonomyTypes
    <3> QED
      BY <2>1, <2>2, <3>1 DEF CreateSound, MergeSound
  <2> QED
    BY <1>3, <2>1, <2>3, <2>5, <2>6, LocalStep
<1> QED
  BY <1>2, <1>3 DEF CheckParent

(* The row gets an id of its own, under a parent the foreign key now holds. *)
LEMMA InsertSkillStep ==
    ASSUME TaxonomyInv, NEW e \in Editors, NEW s \in Skills, InsertSkill(e, s)
    PROVE  TaxonomyInv'
<1> DEFINE t == txn[e]
           held == [editor |-> e, row |-> t.under, mode |-> "key_share"]
<1>1. /\ t.op = "create" /\ t.at = "insert" /\ CreateShape(t)
      /\ s \in unused /\ t.under \in Exists \cup {Missing}
      /\ t.under # Missing => Free(e, t.under, "key_share")
      /\ Step(e, "commit", [skill |-> s])
      /\ unused' = unused \ {s}
      /\ parent' = parent /\ carries' = carries /\ overtaken' = overtaken
      /\ locks \subseteq locks' /\ (t.under # Missing => held \in locks')
  <2>1. t.op = "create" /\ t.at = "insert"
    BY DEF InsertSkill
  <2>2. CreateShape(t)
    BY <2>1 DEF TaxonomyInv, TaxonomyTypes, TxnShape, Rest
  <2>3. locks' = locks \cup Lock(e, {t.under} \ {Missing}, "key_share") \cup Lock(e, {s}, "update")
    BY DEF InsertSkill
  <2>4. locks \subseteq locks' /\ (t.under # Missing => held \in locks')
    BY <2>3 DEF Lock
  <2> QED
    BY <2>1, <2>2, <2>4 DEF InsertSkill
<1>2. /\ Others(e) /\ DOMAIN txn'[e] = {"skill"} \cup DOMAIN t /\ txn'[e].at = "commit"
      /\ txn'[e].skill = s /\ \A x \in DOMAIN t : x \notin {"at", "skill"} => txn'[e][x] = t[x]
  <2> DEFINE patch == [skill |-> s]
  <2>1. DOMAIN patch = {"skill"} /\ patch["skill"] = s /\ TaxonomyTypes
    BY DEF TaxonomyInv
  <2>2. "at" \in DOMAIN t /\ "at" \notin DOMAIN patch
    BY <1>1, <2>1 DEF CreateShape
  <2>3. Step(e, "commit", patch)
    BY <1>1
  <2> HIDE DEF patch
  <2>4. /\ Others(e) /\ DOMAIN txn'[e] = DOMAIN patch \cup DOMAIN t /\ txn'[e].at = "commit"
        /\ \A x \in DOMAIN patch : txn'[e][x] = patch[x]
        /\ \A x \in DOMAIN t \ DOMAIN patch : x # "at" => txn'[e][x] = t[x]
    BY <2>1, <2>2, <2>3, StepTxn
  <2> QED
    BY <2>1, <2>4
<1>3. txn'[e].op = "create" /\ txn'[e].under = t.under
  BY <1>1, <1>2 DEF CreateShape
<1>4. TxnShape(txn'[e])
  BY <1>1, <1>2, <1>3 DEF TxnShape, CreateShape
<1>5. NamesNoUnborn(txn'[e])
  <2>1. ~Unborn(t.under)
    BY <1>1 DEF TaxonomyInv, IdsOnce, NamesNoUnborn
  <2> QED
    BY <2>1, <1>3 DEF NamesNoUnborn
<1>6. ~Deleting(txn'[e]) /\ txn'[e].skill \in unused \ unused'
  BY <1>1, <1>2, <1>3 DEF Deleting
<1>7. \A f \in Editors \ {e} : Deleting(txn[f]) => txn'[e].under # txn[f].source
  <2>1. SUFFICES ASSUME NEW f \in Editors \ {e}, Deleting(txn[f]), t.under = txn[f].source PROVE FALSE
    BY <1>3
  <2>2. MergeShape(txn[f]) /\ txn[f].source \in Skills
    BY <2>1 DEF Deleting, TaxonomyInv, TaxonomyTypes, TxnShape, MergeShape, Rest
  <2>3. t.under # Missing
    BY <2>1, <2>2, TaxonomyConstants
  <2> DEFINE l == [editor |-> f, row |-> txn[f].source, mode |-> "update"]
  <2>4. l \in locks /\ l.row = t.under /\ l.editor # e /\ l.mode = "update"
    BY <2>1 DEF TaxonomyInv, ParentsHeld
  <2>5. Free(e, t.under, "key_share")
    BY <2>3, <1>1
  <2> QED
    BY <2>4, <2>5 DEF Free, Conflict
<1>8. CreateSound(t) => CreateSound(txn'[e])
  BY <1>1, <1>3 DEF CreateSound
<1>9. MergeSound(txn'[e])
  BY <1>3 DEF MergeSound
<1>10. overtaken = {} => CreateSound(txn'[e]) /\ MergeSound(txn'[e])
  BY <1>8, <1>9 DEF TaxonomyInv
<1>11. (Creating(txn'[e]) /\ txn'[e].under # Missing) =>
          /\ txn'[e].under \in Exists
          /\ [editor |-> e, row |-> txn'[e].under, mode |-> "key_share"] \in locks'
  BY <1>1, <1>3
<1>12. {l \in locks : l.editor # e} \subseteq locks' /\ unused' \subseteq unused
  BY <1>1
<1> QED
  BY <1>1, <1>2, <1>4, <1>5, <1>6, <1>7, <1>10, <1>11, <1>12, LocalStep

(* The statements of a replacement before its commit: they touch nothing   *)
(* a create or a merge relies on.                                          *)
LEMMA ReplaceMoves ==
    ASSUME TaxonomyInv, NEW e \in Editors, txn[e].op = "replace",
           NEW a \in {"visible", "insert", "commit"}, Step(e, a, <<>>),
           UNCHANGED <<parent, carries, unused, overtaken>>, locks \subseteq locks'
    PROVE  TaxonomyInv'
<1>1. ReplaceShape(txn[e])
  BY DEF TaxonomyInv, TaxonomyTypes, TxnShape, Rest
<1>2. /\ Others(e) /\ DOMAIN txn'[e] = DOMAIN txn[e] /\ txn'[e].at = a
      /\ \A x \in DOMAIN txn[e] : x # "at" => txn'[e][x] = txn[e][x]
  BY <1>1, StepOn DEF ReplaceShape, TaxonomyInv
<1>3. TxnShape(txn'[e]) /\ txn'[e].op = "replace"
  BY <1>1, <1>2 DEF TxnShape, ReplaceShape
<1>4. NamesNoUnborn(txn'[e]) /\ CreateSound(txn'[e]) /\ MergeSound(txn'[e])
  BY <1>3 DEF NamesNoUnborn, CreateSound, MergeSound
<1>5. ~Creating(txn'[e]) /\ ~Deleting(txn'[e]) /\ {l \in locks : l.editor # e} \subseteq locks'
  BY <1>3 DEF Creating, Deleting
<1> QED
  BY <1>2, <1>3, <1>4, <1>5, LocalStep

LEMMA ReplaceSteps ==
    ASSUME TaxonomyInv, NEW e \in Editors,
           LockBearer(e) \/ AssertSkillsVisible(e) \/ ReplaceSkills(e)
    PROVE  TaxonomyInv'
<1>1. CASE Rollback(e)
  BY <1>1, RollbackStep
<1>2. CASE LockBearer(e)
  BY <1>2, ReplaceMoves DEF LockBearer
<1>3. CASE AssertSkillsVisible(e)
  BY <1>1, <1>3, ReplaceMoves DEF AssertSkillsVisible
<1>4. CASE ReplaceSkills(e)
  BY <1>1, <1>4, ReplaceMoves DEF ReplaceSkills
<1> QED
  BY <1>2, <1>3, <1>4

-----------------------------------------------------------------------------
(* A merge: what it read is still so at each of its statements.            *)

(* The record after a statement that notes one more field.                 *)
LEMMA MergeMoves ==
    ASSUME TaxonomyInv, NEW e \in Editors, txn[e].op = "merge",
           NEW a, NEW patch, NEW field, DOMAIN patch = {field},
           field \in {"children", "moved", "reparented"}, Step(e, a, patch)
    PROVE  /\ MergeShape(txn[e]) /\ Others(e)
           /\ DOMAIN txn'[e] = {field} \cup DOMAIN txn[e]
           /\ txn'[e].op = "merge" /\ txn'[e].at = a
           /\ txn'[e].source = txn[e].source /\ txn'[e].target = txn[e].target
           /\ txn'[e][field] = patch[field]
           /\ \A x \in DOMAIN txn[e] : x \notin {"at", field} => txn'[e][x] = txn[e][x]
<1>1. MergeShape(txn[e])
  BY DEF TaxonomyInv, TaxonomyTypes, TxnShape, Rest
<1>2. "at" \in DOMAIN txn[e] /\ "at" \notin DOMAIN patch /\ TaxonomyTypes
  BY <1>1 DEF MergeShape, TaxonomyInv
<1>3. /\ Others(e)
      /\ DOMAIN txn'[e] = DOMAIN patch \cup DOMAIN txn[e]
      /\ txn'[e].at = a
      /\ \A x \in DOMAIN patch : txn'[e][x] = patch[x]
      /\ \A x \in DOMAIN txn[e] \ DOMAIN patch : x # "at" => txn'[e][x] = txn[e][x]
  BY <1>2, StepTxn
<1> QED
  BY <1>1, <1>3 DEF MergeShape

(* And after one that notes nothing.                                       *)
LEMMA MergeMovesOn ==
    ASSUME TaxonomyInv, NEW e \in Editors, txn[e].op = "merge", NEW a, Step(e, a, <<>>)
    PROVE  /\ MergeShape(txn[e]) /\ Others(e) /\ DOMAIN txn'[e] = DOMAIN txn[e]
           /\ txn'[e].op = "merge" /\ txn'[e].at = a
           /\ txn'[e].source = txn[e].source /\ txn'[e].target = txn[e].target
           /\ \A x \in DOMAIN txn[e] : x # "at" => txn'[e][x] = txn[e][x]
<1>1. MergeShape(txn[e])
  BY DEF TaxonomyInv, TaxonomyTypes, TxnShape, Rest
<1>2. /\ Others(e) /\ DOMAIN txn'[e] = DOMAIN txn[e] /\ txn'[e].at = a
      /\ \A x \in DOMAIN txn[e] : x # "at" => txn'[e][x] = txn[e][x]
  BY <1>1, StepOn DEF MergeShape, TaxonomyInv
<1> QED
  BY <1>1, <1>2 DEF MergeShape

LEMMA ReadSourceStep ==
    ASSUME TaxonomyInv, NEW e \in Editors, ReadSource(e)
    PROVE  TaxonomyInv'
<1> DEFINE t == txn[e]
           patch == [children |-> Children(t.source) # {}]
<1>1. CASE Rollback(e)
  BY <1>1, RollbackStep
<1>2. CASE /\ t.source \in Exists
           /\ Step(e, "read_target", patch)
           /\ UNCHANGED <<parent, carries, locks, unused, begun, overtaken>>
  <2>1. DOMAIN patch = {"children"} /\ (patch["children"] <=> Children(t.source) # {})
        /\ patch["children"] \in BOOLEAN
    OBVIOUS
  <2>2. t.op = "merge" /\ Step(e, "read_target", patch)
    BY <1>2 DEF ReadSource
  <2> HIDE DEF patch
  <2>3. /\ MergeShape(t) /\ Others(e) /\ DOMAIN txn'[e] = {"children"} \cup DOMAIN t
        /\ txn'[e].op = "merge" /\ txn'[e].at = "read_target"
        /\ txn'[e].source = t.source /\ txn'[e].target = t.target
        /\ txn'[e].children = patch["children"]
    BY <2>1, <2>2, MergeMoves
  <2>4. TxnShape(txn'[e])
    BY <2>1, <2>3 DEF TxnShape, MergeShape
  <2>5. NamesNoUnborn(txn'[e]) /\ ~Creating(txn'[e]) /\ ~Deleting(txn'[e])
    BY <2>3 DEF NamesNoUnborn, Creating, Deleting
  <2>6. txn'[e].children \/ Childless(t.source)
    BY <2>1, <2>3 DEF Childless, Children
  <2>7. CreateSound(txn'[e]) /\ MergeSound(txn'[e])
    BY <1>2, <2>3, <2>6 DEF CreateSound, MergeSound, SourceSound
  <2> QED
    BY <1>2, <2>3, <2>4, <2>5, <2>7, LocalStep
<1> QED
  BY <1>1, <1>2 DEF ReadSource

LEMMA ReadTargetStep ==
    ASSUME TaxonomyInv, NEW e \in Editors, ReadTarget(e)
    PROVE  TaxonomyInv'
<1> DEFINE t == txn[e]
<1>1. CASE Rollback(e)
  BY <1>1, RollbackStep
<1>2. CASE /\ ~MergeRefused(t)
           /\ Step(e, "copy", <<>>)
           /\ UNCHANGED <<parent, carries, locks, unused, begun, overtaken>>
  <2>1. t.op = "merge" /\ t.at = "read_target"
    BY DEF ReadTarget
  <2>2. /\ MergeShape(t) /\ Others(e) /\ DOMAIN txn'[e] = DOMAIN t
        /\ txn'[e].op = "merge" /\ txn'[e].at = "copy"
        /\ txn'[e].source = t.source /\ txn'[e].target = t.target
        /\ \A x \in DOMAIN t : x # "at" => txn'[e][x] = t[x]
    BY <1>2, <2>1, MergeMovesOn
  <2>3. txn'[e].children = t.children /\ t.children \in BOOLEAN
    BY <2>1, <2>2 DEF MergeShape
  <2>4. TxnShape(txn'[e])
    BY <2>1, <2>2, <2>3 DEF TxnShape, MergeShape
  <2>5. NamesNoUnborn(txn'[e]) /\ ~Creating(txn'[e]) /\ ~Deleting(txn'[e])
    BY <2>2 DEF NamesNoUnborn, Creating, Deleting
  <2>6. ASSUME overtaken = {} PROVE CreateSound(txn'[e]) /\ MergeSound(txn'[e])
    <3>1. SourceSound(t)
      BY <2>1, <2>6 DEF TaxonomyInv, MergeSound
    <3>2. TargetSound(t)
      BY <1>2, <3>1 DEF TargetSound, SourceSound, MergeRefused
    <3>3. SourceSound(txn'[e]) /\ TargetSound(txn'[e])
      BY <2>2, <2>3, <3>1, <3>2 DEF SourceSound, TargetSound
    <3> QED
      BY <2>2, <3>3 DEF CreateSound, MergeSound
  <2> QED
    BY <1>2, <2>2, <2>4, <2>5, <2>6, LocalStep
<1> QED
  BY <1>1, <1>2 DEF ReadTarget

LEMMA CopyStep ==
    ASSUME TaxonomyInv, NEW e \in Editors, CopyReferences(e)
    PROVE  TaxonomyInv'
<1> DEFINE t == txn[e]
           from == {c[1] : c \in {d \in carries : d[2] = t.source}}
           new == {b \in from : <<b, t.target>> \notin carries}
           patch == [moved |-> new]
<1>1. CASE Rollback(e)
  BY <1>1, RollbackStep
<1>2. CASE /\ Step(e, "reparent", patch)
           /\ locks' = locks \cup Lock(e, new \cup (IF new = {} THEN {} ELSE {t.target}), "key_share")
           /\ UNCHANGED <<parent, carries, unused, begun, overtaken>>
  <2>1. t.op = "merge" /\ t.at = "copy"
    BY DEF CopyReferences
  <2>2. new \subseteq Bearers
    BY DEF TaxonomyInv, TaxonomyTypes
  <2>3. \A b \in Bearers : <<b, t.source>> \in carries => <<b, t.target>> \in carries \/ b \in new
    OBVIOUS
  <2>4. DOMAIN patch = {"moved"} /\ patch["moved"] = new /\ Step(e, "reparent", patch) /\ locks \subseteq locks'
    BY <1>2
  <2> HIDE DEF patch, new
  <2>5. /\ MergeShape(t) /\ Others(e) /\ DOMAIN txn'[e] = {"moved"} \cup DOMAIN t
        /\ txn'[e].op = "merge" /\ txn'[e].at = "reparent"
        /\ txn'[e].source = t.source /\ txn'[e].target = t.target /\ txn'[e].moved = patch["moved"]
        /\ \A x \in DOMAIN t : x \notin {"at", "moved"} => txn'[e][x] = t[x]
    BY <2>1, <2>4, MergeMoves
  <2>6. txn'[e].children = t.children /\ t.children \in BOOLEAN /\ "children" \in DOMAIN t
    BY <2>1, <2>5 DEF MergeShape
  <2>7. TxnShape(txn'[e])
    BY <2>1, <2>2, <2>4, <2>5, <2>6 DEF TxnShape, MergeShape
  <2>8. NamesNoUnborn(txn'[e]) /\ ~Creating(txn'[e]) /\ ~Deleting(txn'[e])
    BY <2>5 DEF NamesNoUnborn, Creating, Deleting
  <2>9. ASSUME overtaken = {} PROVE CreateSound(txn'[e]) /\ MergeSound(txn'[e])
    <3>1. SourceSound(t) /\ TargetSound(t)
      BY <2>1, <2>9 DEF TaxonomyInv, MergeSound
    <3>2. SourceSound(txn'[e]) /\ TargetSound(txn'[e])
      BY <2>5, <2>6, <3>1 DEF SourceSound, TargetSound
    <3>3. CarriersSound(txn'[e])
      BY <2>3, <2>4, <2>5 DEF CarriersSound
    <3> QED
      BY <2>5, <3>2, <3>3 DEF CreateSound, MergeSound
  <2> QED
    BY <1>2, <2>4, <2>5, <2>7, <2>8, <2>9, LocalStep
<1> QED
  BY <1>1, <1>2 DEF CopyReferences

LEMMA ReparentStep ==
    ASSUME TaxonomyInv, NEW e \in Editors, Reparent(e)
    PROVE  TaxonomyInv'
<1> DEFINE t == txn[e]
           patch == [reparented |-> Children(t.source)]
<1>1. CASE Rollback(e)
  BY <1>1, RollbackStep
<1>2. CASE /\ Step(e, "delete", patch)
           /\ locks' = locks \cup Lock(e, Children(t.source), "no_key_update")
                 \cup Lock(e, IF Children(t.source) = {} THEN {} ELSE {t.target}, "key_share")
           /\ UNCHANGED <<parent, carries, unused, begun, overtaken>>
  <2>1. t.op = "merge" /\ t.at = "reparent"
    BY DEF Reparent
  <2>2. DOMAIN patch = {"reparented"} /\ patch["reparented"] = Children(t.source)
        /\ Step(e, "delete", patch) /\ locks \subseteq locks'
    BY <1>2
  <2> HIDE DEF patch
  <2>3. /\ MergeShape(t) /\ Others(e) /\ DOMAIN txn'[e] = {"reparented"} \cup DOMAIN t
        /\ txn'[e].op = "merge" /\ txn'[e].at = "delete"
        /\ txn'[e].source = t.source /\ txn'[e].target = t.target
        /\ txn'[e].reparented = Children(t.source)
        /\ \A x \in DOMAIN t : x \notin {"at", "reparented"} => txn'[e][x] = t[x]
    BY <2>1, <2>2, MergeMoves
  <2>4. /\ txn'[e].children = t.children /\ t.children \in BOOLEAN /\ "children" \in DOMAIN t
        /\ txn'[e].moved = t.moved /\ t.moved \subseteq Bearers /\ "moved" \in DOMAIN t
    BY <2>1, <2>3 DEF MergeShape
  <2>5. Children(t.source) \subseteq Exists /\ Exists \subseteq Skills
    BY DEF Children, TaxonomyInv, TaxonomyTypes
  <2>6. TxnShape(txn'[e])
    BY <2>1, <2>3, <2>4, <2>5 DEF TxnShape, MergeShape
  <2>7. NamesNoUnborn(txn'[e]) /\ ~Creating(txn'[e]) /\ ~Deleting(txn'[e])
    BY <2>3, <2>5 DEF NamesNoUnborn, Creating, Deleting, TaxonomyInv, IdsOnce
  <2>8. ASSUME overtaken = {} PROVE CreateSound(txn'[e]) /\ MergeSound(txn'[e])
    <3>1. SourceSound(t) /\ TargetSound(t) /\ CarriersSound(t)
      BY <2>1, <2>8 DEF TaxonomyInv, MergeSound
    <3>2. SourceSound(txn'[e]) /\ TargetSound(txn'[e]) /\ CarriersSound(txn'[e])
      BY <2>3, <2>4, <3>1 DEF SourceSound, TargetSound, CarriersSound
    <3>3. ReparentSound(txn'[e])
      BY <2>3, <3>1 DEF ReparentSound, TargetSound, Childless, Children
    <3> QED
      BY <2>3, <3>2, <3>3 DEF CreateSound, MergeSound
  <2> QED
    BY <1>2, <2>2, <2>3, <2>6, <2>7, <2>8, LocalStep
<1> QED
  BY <1>1, <1>2 DEF Reparent

LEMMA DeleteSourceStep ==
    ASSUME TaxonomyInv, NEW e \in Editors, DeleteSource(e)
    PROVE  TaxonomyInv'
<1> DEFINE t == txn[e]
<1>1. /\ t.op = "merge" /\ t.at = "delete" /\ Free(e, t.source, "update")
      /\ locks' = locks \cup Lock(e, {t.source}, "update") /\ Step(e, "commit", <<>>)
      /\ UNCHANGED <<parent, carries, unused, begun, overtaken>>
  BY DEF DeleteSource
<1>2. locks \subseteq locks' /\ [editor |-> e, row |-> t.source, mode |-> "update"] \in locks'
  BY <1>1 DEF Lock
<1>3. /\ MergeShape(t) /\ Others(e) /\ DOMAIN txn'[e] = DOMAIN t
      /\ txn'[e].op = "merge" /\ txn'[e].at = "commit"
      /\ txn'[e].source = t.source /\ txn'[e].target = t.target
      /\ \A x \in DOMAIN t : x # "at" => txn'[e][x] = t[x]
  BY <1>1, MergeMovesOn
<1>4. /\ txn'[e].children = t.children /\ t.children \in BOOLEAN /\ "children" \in DOMAIN t
      /\ txn'[e].moved = t.moved /\ t.moved \subseteq Bearers /\ "moved" \in DOMAIN t
      /\ txn'[e].reparented = t.reparented /\ t.reparented \subseteq Skills /\ "reparented" \in DOMAIN t
  BY <1>1, <1>3 DEF MergeShape
<1>5. TxnShape(txn'[e])
  BY <1>1, <1>3, <1>4 DEF TxnShape, MergeShape
<1>6. NamesNoUnborn(txn'[e]) /\ ~Creating(txn'[e])
  BY <1>1, <1>3, <1>4 DEF NamesNoUnborn, Creating, TaxonomyInv, IdsOnce
<1>7. ASSUME NEW f \in Editors \ {e}, Creating(txn[f]) PROVE txn[f].under # t.source
  <2>1. t.source # Missing
    BY <1>3, TaxonomyConstants DEF MergeShape
  <2>2. SUFFICES ASSUME txn[f].under = t.source PROVE FALSE
    OBVIOUS
  <2> DEFINE l == [editor |-> f, row |-> txn[f].under, mode |-> "key_share"]
  <2>3. l \in locks /\ l.row = t.source /\ l.editor # e /\ l.mode = "key_share"
    BY <1>7, <2>1, <2>2 DEF TaxonomyInv, ParentsHeld
  <2> QED
    BY <2>3, <1>1 DEF Free, Conflict
<1>8. ASSUME overtaken = {} PROVE CreateSound(txn'[e]) /\ MergeSound(txn'[e])
  <2>1. SourceSound(t) /\ TargetSound(t) /\ CarriersSound(t) /\ ReparentSound(t)
    BY <1>1, <1>8 DEF TaxonomyInv, MergeSound
  <2>2. SourceSound(txn'[e]) /\ TargetSound(txn'[e]) /\ CarriersSound(txn'[e]) /\ ReparentSound(txn'[e])
    BY <1>3, <1>4, <2>1 DEF SourceSound, TargetSound, CarriersSound, ReparentSound
  <2> QED
    BY <1>3, <2>2 DEF CreateSound, MergeSound
<1>9. {l \in locks : l.editor # e} \subseteq locks' /\ Deleting(txn'[e])
  BY <1>2, <1>3 DEF Deleting
<1> QED
  BY <1>1, <1>2, <1>3, <1>5, <1>6, <1>7, <1>8, <1>9, LocalStep

-----------------------------------------------------------------------------
(* The commits.                                                            *)

LEMMA EndTxn ==
    ASSUME TaxonomyInv, NEW e \in Editors, End(e)
    PROVE  /\ Others(e) /\ txn'[e] = Rest /\ unused' = unused
           /\ locks' = {l \in locks : l.editor # e}
           /\ ~Creating(Rest) /\ ~Deleting(Rest)
           /\ \A s : Unborn(s)' => Unborn(s)
           /\ \A f \in Editors \ {e} : NamesNoUnborn(txn[f])'
<1>1. /\ Others(e) /\ txn'[e] = Rest /\ unused' = unused
      /\ locks' = {l \in locks : l.editor # e}
  BY DEF End, TaxonomyInv, TaxonomyTypes, Others
<1>2. ~Creating(Rest) /\ ~Deleting(Rest)
  BY DEF Creating, Deleting, Rest
<1>3. \A s : Unborn(s)' => Unborn(s)
  BY <1>1, <1>2 DEF Unborn, Others
<1>4. ASSUME NEW f \in Editors \ {e} PROVE NamesNoUnborn(txn[f])'
  <2>1. NamesNoUnborn(txn[f]) /\ txn'[f] = txn[f]
    BY <1>1 DEF TaxonomyInv, IdsOnce, Others
  <2> QED
    BY <2>1, <1>3 DEF NamesNoUnborn
<1> QED
  BY <1>1, <1>2, <1>3, <1>4

(* What a commit owes the invariant: the rest is kept by every commit.     *)
LEMMA CommitKeeps ==
    ASSUME TaxonomyInv, NEW e \in Editors, End(e),
           parent' \in [Exists' -> Skills \cup {Missing}], Exists' \subseteq Skills,
           carries' \subseteq Bearers \X Skills,
           \A s \in Exists' : ~Unborn(s)',
           \A f \in Editors \ {e} :
              Creating(txn[f]) /\ txn[f].under # Missing => txn[f].under \in Exists',
           overtaken' = {} =>
              /\ TwoLevels' /\ NoOrphans'
              /\ \A f \in Editors \ {e} : CreateSound(txn[f])' /\ MergeSound(txn[f])'
    PROVE  TaxonomyInv'
<1>1. /\ Others(e) /\ txn'[e] = Rest /\ unused' = unused
      /\ locks' = {l \in locks : l.editor # e}
      /\ ~Creating(Rest) /\ ~Deleting(Rest)
      /\ \A f \in Editors \ {e} : NamesNoUnborn(txn[f])'
  BY EndTxn
<1>2. TaxonomyTypes'
  BY <1>1 DEF TaxonomyInv, TaxonomyTypes, TxnShape, Others
<1>3. IdsOnce'
  <2>1. ASSUME NEW f \in Editors, Creating(txn'[f])
        PROVE  /\ txn'[f].skill \notin unused'
               /\ \A g \in Editors \ {f} : Creating(txn'[g]) => txn'[g].skill # txn'[f].skill
    BY <1>1, <2>1 DEF TaxonomyInv, IdsOnce, Others
  <2>2. NamesNoUnborn(txn[e])'
    BY <1>1 DEF NamesNoUnborn, Rest
  <2>3. \A f \in Editors : NamesNoUnborn(txn[f])'
    BY <1>1, <2>2
  <2> QED
    BY <2>1, <2>3 DEF IdsOnce
<1>4. ParentsHeld'
  <2>1. ASSUME NEW f \in Editors, Creating(txn'[f]), txn'[f].under # Missing
        PROVE  /\ txn'[f].under \in Exists'
               /\ [editor |-> f, row |-> txn'[f].under, mode |-> "key_share"] \in locks'
    <3>1. f # e /\ txn'[f] = txn[f]
      BY <1>1, <2>1 DEF Others
    <3>2. [editor |-> f, row |-> txn[f].under, mode |-> "key_share"] \in locks
      BY <2>1, <3>1 DEF TaxonomyInv, ParentsHeld
    <3> QED
      BY <1>1, <2>1, <3>1, <3>2
  <2>2. ASSUME NEW f \in Editors, Deleting(txn'[f])
        PROVE  [editor |-> f, row |-> txn'[f].source, mode |-> "update"] \in locks'
    <3>1. f # e /\ txn'[f] = txn[f]
      BY <1>1, <2>2 DEF Others
    <3>2. [editor |-> f, row |-> txn[f].source, mode |-> "update"] \in locks
      BY <2>2, <3>1 DEF TaxonomyInv, ParentsHeld
    <3> QED
      BY <1>1, <3>1, <3>2
  <2>3. ASSUME NEW f \in Editors, NEW g \in Editors, Creating(txn'[f]), Deleting(txn'[g])
        PROVE  txn'[f].under # txn'[g].source
    <3>1. f # e /\ g # e /\ txn'[f] = txn[f] /\ txn'[g] = txn[g]
      BY <1>1, <2>3 DEF Others
    <3> QED
      BY <2>3, <3>1 DEF TaxonomyInv, ParentsHeld
  <2> QED
    BY <2>1, <2>2, <2>3 DEF ParentsHeld
<1>5. CreateSound(txn[e])' /\ MergeSound(txn[e])'
  BY <1>1 DEF CreateSound, MergeSound, Rest
<1>6. overtaken' = {} =>
         /\ TwoLevels' /\ NoOrphans'
         /\ \A f \in Editors : CreateSound(txn[f])' /\ MergeSound(txn[f])'
  BY <1>5
<1> QED
  BY <1>2, <1>3, <1>4, <1>6 DEF TaxonomyInv

(* Unless a skill is overtaken, what a commit writes is no concern of any  *)
(* merge in progress.                                                      *)
LEMMA NotOvertaken ==
    ASSUME NEW e \in Editors, NEW S, overtaken' = overtaken \cup {s \in S : BeingMerged(s, e)},
           overtaken' = {}
    PROVE  /\ overtaken = {}
           /\ \A f \in Editors \ {e} : txn[f].op = "merge" /\ txn[f].at # "read_source" =>
                 txn[f].source \notin S /\ txn[f].target \notin S
BY DEF BeingMerged, MergedBy

LEMMA CommitReplaceStep ==
    ASSUME TaxonomyInv, NEW e \in Editors, CommitReplace(e)
    PROVE  TaxonomyInv'
<1> DEFINE t == txn[e]
<1>1. /\ t.op = "replace" /\ End(e) /\ parent' = parent /\ Exists' = Exists
      /\ carries' = {c \in carries : c[1] # t.bearer} \cup ({t.bearer} \X t.body)
      /\ overtaken' = overtaken \cup {s \in t.body : BeingMerged(s, e)}
  BY DEF CommitReplace, Exists
<1>2. ReplaceShape(t)
  BY <1>1 DEF TaxonomyInv, TaxonomyTypes, TxnShape, Rest
<1>3. carries' \subseteq Bearers \X Skills
  BY <1>1, <1>2 DEF ReplaceShape, TaxonomyInv, TaxonomyTypes
<1>4. /\ parent' \in [Exists' -> Skills \cup {Missing}] /\ Exists' \subseteq Skills
      /\ \A s \in Exists' : ~Unborn(s)'
  BY <1>1, EndTxn DEF TaxonomyInv, TaxonomyTypes, IdsOnce
<1>5. \A f \in Editors \ {e} : Creating(txn[f]) /\ txn[f].under # Missing => txn[f].under \in Exists'
  BY <1>1 DEF TaxonomyInv, ParentsHeld
<1>6. ASSUME overtaken' = {}
      PROVE  /\ TwoLevels' /\ NoOrphans'
             /\ \A f \in Editors \ {e} : CreateSound(txn[f])' /\ MergeSound(txn[f])'
  <2>1. /\ overtaken = {}
        /\ \A f \in Editors \ {e} : txn[f].op = "merge" /\ txn[f].at # "read_source" =>
              txn[f].source \notin t.body /\ txn[f].target \notin t.body
    BY <1>1, <1>6, NotOvertaken
  <2>2. TwoLevels' /\ NoOrphans'
    BY <1>1, <2>1 DEF TaxonomyInv, TwoLevels, NoOrphans, Exists
  <2>3. ASSUME NEW f \in Editors \ {e} PROVE CreateSound(txn[f])' /\ MergeSound(txn[f])'
    <3>1. txn'[f] = txn[f] /\ CreateSound(txn[f]) /\ MergeSound(txn[f])
      BY <1>1, <2>1, EndTxn DEF Others, TaxonomyInv
    <3>2. CreateSound(txn[f])'
      BY <1>1, <3>1 DEF CreateSound
    <3>3. ASSUME txn[f].op = "merge", txn[f].at \in {"reparent", "delete", "commit"}
          PROVE  CarriersSound(txn[f])'
      <4>1. txn[f].source \notin t.body /\ CarriersSound(txn[f])
        BY <2>1, <3>1, <3>3 DEF MergeSound
      <4>2. ASSUME NEW b \in Bearers, <<b, txn[f].source>> \in carries'
            PROVE  <<b, txn[f].target>> \in carries' \/ b \in txn[f].moved
        <5>1. <<b, txn[f].source>> \in carries /\ b # t.bearer
          BY <1>1, <4>1, <4>2
        <5>2. <<b, txn[f].target>> \in carries \/ b \in txn[f].moved
          BY <4>1, <5>1 DEF CarriersSound
        <5> QED
          BY <1>1, <5>1, <5>2
      <4> QED
        BY <3>1, <4>2 DEF CarriersSound
    <3>4. MergeSound(txn[f])'
      BY <1>1, <3>1, <3>3 DEF MergeSound, SourceSound, TargetSound, ReparentSound, Childless, Exists
    <3> QED
      BY <3>2, <3>4
  <2> QED
    BY <2>1, <2>2, <2>3
<1> QED
  BY <1>1, <1>3, <1>4, <1>5, <1>6, CommitKeeps

LEMMA CommitCreateStep ==
    ASSUME TaxonomyInv, NEW e \in Editors, CommitCreate(e)
    PROVE  TaxonomyInv'
<1> DEFINE t == txn[e]
<1>1. /\ t.op = "create" /\ t.at = "commit" /\ Creating(t) /\ End(e)
      /\ parent' = With(parent, t.skill, t.under) /\ carries' = carries
      /\ overtaken' = overtaken \cup {s \in {t.under} : BeingMerged(s, e)}
  BY DEF CommitCreate, Creating
<1>2. CreateShape(t) /\ t.skill \in Skills
  BY <1>1 DEF TaxonomyInv, TaxonomyTypes, TxnShape, CreateShape, Rest
<1>3. Unborn(t.skill) /\ t.skill \notin Exists
  BY <1>1 DEF Unborn, TaxonomyInv, IdsOnce
<1>4. t.under = Missing \/ t.under \in Exists
  BY <1>1 DEF TaxonomyInv, ParentsHeld
<1>5. /\ Exists' = Exists \cup {t.skill} /\ parent' \in [Exists' -> Skills \cup {Missing}]
      /\ parent'[t.skill] = t.under /\ \A s \in Exists : parent'[s] = parent[s]
  <2>1. parent' = [s \in Exists \cup {t.skill} |-> IF s = t.skill THEN t.under ELSE parent[s]]
    BY <1>1 DEF With, Exists
  <2>2. Exists' = Exists \cup {t.skill}
    BY <2>1 DEF Exists
  <2>3. \A s \in Exists : parent[s] \in Skills \cup {Missing}
    BY DEF TaxonomyInv, TaxonomyTypes
  <2>4. parent' \in [Exists' -> Skills \cup {Missing}]
    BY <2>1, <2>2, <2>3, <1>2 DEF CreateShape
  <2> QED
    BY <2>1, <2>2, <2>4, <1>3
<1> HIDE DEF t
<1>6. Exists' \subseteq Skills /\ carries' \subseteq Bearers \X Skills
  BY <1>1, <1>2, <1>5 DEF TaxonomyInv, TaxonomyTypes
<1>7. ASSUME NEW s \in Exists' PROVE ~Unborn(s)'
  <2>1. CASE s \in Exists
    BY <2>1, <1>1, EndTxn DEF TaxonomyInv, IdsOnce
  <2>2. CASE s = t.skill
    <3>1. t.skill \notin unused /\ \A f \in Editors \ {e} : Creating(txn[f]) => txn[f].skill # t.skill
      BY <1>1 DEF TaxonomyInv, IdsOnce, t
    <3> QED
      BY <2>2, <3>1, <1>1, EndTxn DEF Unborn, Others
  <2> QED
    BY <2>1, <2>2, <1>5
<1>8. \A f \in Editors \ {e} : Creating(txn[f]) /\ txn[f].under # Missing => txn[f].under \in Exists'
  BY <1>5 DEF TaxonomyInv, ParentsHeld
<1>9. ASSUME overtaken' = {}
      PROVE  /\ TwoLevels' /\ NoOrphans'
             /\ \A f \in Editors \ {e} : CreateSound(txn[f])' /\ MergeSound(txn[f])'
  <2>1. /\ overtaken = {}
        /\ \A f \in Editors \ {e} : txn[f].op = "merge" /\ txn[f].at # "read_source" =>
              txn[f].source \notin {t.under} /\ txn[f].target \notin {t.under}
    BY <1>1, <1>9, NotOvertaken
  <2>2. t.under \in Exists => parent[t.under] = Missing
    BY <1>1, <2>1 DEF TaxonomyInv, CreateSound, t
  <2>3. /\ \A s \in Exists : parent[s] \in Exists \cup {Missing}
        /\ \A s \in Exists : parent[s] # Missing => parent[parent[s]] = Missing
        /\ Missing \notin Exists
    BY <2>1, TaxonomyConstants DEF TaxonomyInv, TaxonomyTypes, NoOrphans, TwoLevels
  <2>4. TwoLevels' /\ NoOrphans'
    <3>1. ASSUME NEW s \in Exists'
          PROVE  parent'[s] \in Exists' \cup {Missing} /\ (parent'[s] # Missing => parent'[parent'[s]] = Missing)
      BY <1>4, <1>5, <2>2, <2>3
    <3> QED
      BY <3>1 DEF TwoLevels, NoOrphans
  <2>5. ASSUME NEW f \in Editors \ {e} PROVE CreateSound(txn[f])' /\ MergeSound(txn[f])'
    <3>1. txn'[f] = txn[f] /\ CreateSound(txn[f]) /\ MergeSound(txn[f]) /\ NamesNoUnborn(txn[f])
      BY <1>1, <2>1, EndTxn DEF Others, TaxonomyInv, IdsOnce
    <3>2. CreateSound(txn[f])'
      BY <1>3, <1>5, <3>1 DEF CreateSound, NamesNoUnborn
    <3>3. SUFFICES ASSUME txn[f].op = "merge" PROVE MergeSound(txn[f])'
      BY <3>1, <3>2 DEF MergeSound
    <3>4. ASSUME txn[f].at # "read_source", SourceSound(txn[f])
          PROVE  SourceSound(txn[f])' /\ (Childless(txn[f].source) => Childless(txn[f].source)')
      BY <1>5, <2>1, <3>1, <3>3, <3>4 DEF SourceSound, Childless
    <3>5. ASSUME txn[f].at \notin {"read_source", "read_target"}, SourceSound(txn[f]), TargetSound(txn[f])
          PROVE  TargetSound(txn[f])'
      BY <1>5, <3>1, <3>4, <3>5 DEF TargetSound
    <3>6. CarriersSound(txn[f]) => CarriersSound(txn[f])'
      BY <1>1, <3>1 DEF CarriersSound
    <3>7. ASSUME txn[f].at \in {"delete", "commit"}, TargetSound(txn[f]), ReparentSound(txn[f])
          PROVE  ReparentSound(txn[f])'
      <4>1. t.skill \notin txn[f].reparented
        BY <1>3, <3>1, <3>3, <3>7 DEF NamesNoUnborn
      <4> QED
        BY <1>5, <3>1, <3>7, <4>1 DEF ReparentSound, TargetSound
    <3> QED
      BY <3>1, <3>3, <3>4, <3>5, <3>6, <3>7 DEF MergeSound
  <2> QED
    BY <2>1, <2>4, <2>5
<1> QED
  BY <1>1, <1>5, <1>6, <1>7, <1>8, <1>9, CommitKeeps

(* The source goes, its children and its bearers go to the target.         *)
LEMMA CommitMergeStep ==
    ASSUME TaxonomyInv, NEW e \in Editors, CommitMerge(e)
    PROVE  TaxonomyInv'
<1> DEFINE t == txn[e]
<1>1. /\ t.op = "merge" /\ t.at = "commit" /\ Deleting(t) /\ End(e)
      /\ carries' = {c \in carries : c[2] # t.source} \cup (t.moved \X {t.target})
      /\ overtaken' = overtaken \cup {s \in {t.source, t.target} : BeingMerged(s, e)}
  BY DEF CommitMerge, Deleting
<1>2. /\ t.source \in Skills /\ t.target \in Skills /\ t.source # t.target
      /\ t.moved \subseteq Bearers /\ t.reparented \subseteq Skills
      /\ t.source # Missing /\ t.target # Missing
  BY <1>1, TaxonomyConstants DEF TaxonomyInv, TaxonomyTypes, TxnShape, MergeShape, Rest
<1>3. /\ Exists' = Exists \ {t.source} /\ parent' \in [Exists' -> Skills \cup {Missing}]
      /\ \A s \in Exists' :
            /\ s \in t.reparented => parent'[s] = t.target
            /\ s \notin t.reparented /\ parent[s] = t.source => parent'[s] = Missing
            /\ s \notin t.reparented /\ parent[s] # t.source => parent'[s] = parent[s]
  <2>1. parent' = [s \in Exists \ {t.source} |->
                      IF s \in t.reparented THEN t.target
                      ELSE IF parent[s] = t.source THEN Missing ELSE parent[s]]
    BY DEF CommitMerge
  <2>2. Exists' = Exists \ {t.source}
    BY <2>1 DEF Exists
  <2>3. \A s \in Exists : parent[s] \in Skills \cup {Missing}
    BY DEF TaxonomyInv, TaxonomyTypes
  <2> HIDE DEF t
  <2>4. parent' \in [Exists' -> Skills \cup {Missing}]
    BY <2>1, <2>2, <2>3, <1>2
  <2> QED
    BY <2>1, <2>2, <2>4
<1>4. \A f \in Editors \ {e} : Creating(txn[f]) => txn[f].under # t.source
  BY <1>1 DEF TaxonomyInv, ParentsHeld
<1>5. \A f \in Editors \ {e} : Creating(txn[f]) /\ txn[f].under # Missing => txn[f].under \in Exists'
  BY <1>3, <1>4 DEF TaxonomyInv, ParentsHeld
<1>6. overtaken = {} => SourceSound(t) /\ TargetSound(t) /\ CarriersSound(t) /\ ReparentSound(t)
  BY <1>1 DEF TaxonomyInv, MergeSound
<1> HIDE DEF t
<1>7. Exists' \subseteq Skills /\ carries' \subseteq Bearers \X Skills
  BY <1>1, <1>2, <1>3 DEF TaxonomyInv, TaxonomyTypes
<1>8. \A s \in Exists' : ~Unborn(s)'
  BY <1>1, <1>3, EndTxn DEF TaxonomyInv, IdsOnce
<1>9. ASSUME overtaken' = {}
      PROVE  /\ TwoLevels' /\ NoOrphans'
             /\ \A f \in Editors \ {e} : CreateSound(txn[f])' /\ MergeSound(txn[f])'
  <2>1. /\ overtaken = {}
        /\ \A f \in Editors \ {e} : txn[f].op = "merge" /\ txn[f].at # "read_source" =>
              txn[f].source \notin {t.source, t.target} /\ txn[f].target \notin {t.source, t.target}
    BY <1>1, <1>9, NotOvertaken
  <2>2. /\ t.target \in Exists' /\ parent[t.target] # t.source
        /\ t.target \notin t.reparented
        /\ t.reparented # {} => parent[t.target] = Missing
        /\ \A c \in t.reparented \cap Exists : parent[c] = t.source
    BY <1>2, <1>3, <1>6, <2>1 DEF TargetSound, ReparentSound
  <2>3. /\ \A s \in Exists : parent[s] \in Exists \cup {Missing}
        /\ \A s \in Exists : parent[s] # Missing => parent[parent[s]] = Missing
    BY <2>1 DEF TaxonomyInv, NoOrphans, TwoLevels
  (* A root stays a root; what has a parent has the one it had, the target or none. *)
  <2>4. ASSUME NEW s \in Exists'
        PROVE  /\ parent[s] = Missing => parent'[s] = Missing
               /\ parent'[s] # parent[s] => parent[s] = t.source /\ parent'[s] \in {t.target, Missing}
    BY <1>2, <1>3, <2>2
  <2>5. TwoLevels' /\ NoOrphans'
    <3>1. ASSUME NEW s \in Exists'
          PROVE  parent'[s] \in Exists' \cup {Missing} /\ (parent'[s] # Missing => parent'[parent'[s]] = Missing)
      <4>1. CASE s \in t.reparented
        BY <4>1, <1>3, <2>2, <2>4
      <4>2. CASE s \notin t.reparented /\ parent[s] = t.source
        BY <4>2, <1>3
      <4>3. CASE s \notin t.reparented /\ parent[s] # t.source
        <5>1. parent'[s] = parent[s]
          BY <4>3, <1>3
        <5>2. CASE parent[s] = Missing
          BY <5>1, <5>2
        <5>3. CASE parent[s] # Missing
          <6>1. parent[s] \in Exists' /\ parent[parent[s]] = Missing
            BY <4>3, <5>3, <1>3, <2>3
          <6> QED
            BY <5>1, <6>1, <2>4
        <5> QED
          BY <5>2, <5>3
      <4> QED
        BY <4>1, <4>2, <4>3
    <3> QED
      BY <3>1 DEF TwoLevels, NoOrphans
  <2>6. ASSUME NEW f \in Editors \ {e} PROVE CreateSound(txn[f])' /\ MergeSound(txn[f])'
    <3>1. txn'[f] = txn[f] /\ CreateSound(txn[f]) /\ MergeSound(txn[f])
      BY <1>1, <2>1, EndTxn DEF Others, TaxonomyInv
    <3>2. CreateSound(txn[f])'
      BY <1>3, <2>4, <3>1 DEF CreateSound
    <3>3. SUFFICES ASSUME txn[f].op = "merge" PROVE MergeSound(txn[f])'
      BY <3>1, <3>2 DEF MergeSound
    <3>4. ASSUME txn[f].at # "read_source", SourceSound(txn[f])
          PROVE  SourceSound(txn[f])' /\ (Childless(txn[f].source) => Childless(txn[f].source)')
      <4>1. txn[f].source \in Exists' /\ txn[f].source # t.target /\ txn[f].source # Missing
        BY <1>3, <2>1, <3>3, <3>4, TaxonomyConstants DEF SourceSound, TaxonomyInv, TaxonomyTypes
      <4>2. Childless(txn[f].source) => \A c \in Exists' : parent'[c] # txn[f].source
        BY <4>1, <1>3, <2>4 DEF Childless
      <4> QED
        BY <3>1, <3>4, <4>1, <4>2 DEF SourceSound, Childless
    <3>5. ASSUME txn[f].at \notin {"read_source", "read_target"}, SourceSound(txn[f]), TargetSound(txn[f])
          PROVE  TargetSound(txn[f])'
      <4>1. txn[f].target \in Exists' /\ txn[f].source # t.target /\ txn[f].source # Missing
        BY <1>3, <2>1, <3>3, <3>5, TaxonomyConstants DEF SourceSound, TargetSound, TaxonomyInv, TaxonomyTypes
      <4>2. parent'[txn[f].target] # txn[f].source
        BY <4>1, <2>4, <3>5 DEF TargetSound
      <4>3. Childless(txn[f].source)' \/ parent'[txn[f].target] = Missing
        BY <4>1, <2>4, <3>4, <3>5 DEF TargetSound
      <4> QED
        BY <3>1, <4>1, <4>2, <4>3 DEF TargetSound
    <3>6. ASSUME txn[f].at \in {"reparent", "delete", "commit"}, CarriersSound(txn[f])
          PROVE  CarriersSound(txn[f])'
      <4>1. txn[f].source # t.target /\ txn[f].target # t.source
        BY <2>1, <3>3, <3>6
      <4>2. ASSUME NEW b \in Bearers, <<b, txn[f].source>> \in carries'
            PROVE  <<b, txn[f].target>> \in carries' \/ b \in txn[f].moved
        <5>1. <<b, txn[f].source>> \in carries
          BY <1>1, <4>1, <4>2
        <5>2. <<b, txn[f].target>> \in carries \/ b \in txn[f].moved
          BY <3>6, <5>1 DEF CarriersSound
        <5> QED
          BY <1>1, <4>1, <5>2
      <4> QED
        BY <3>1, <4>2 DEF CarriersSound
    <3>7. ASSUME txn[f].at \in {"delete", "commit"}, TargetSound(txn[f]), ReparentSound(txn[f])
          PROVE  ReparentSound(txn[f])'
      <4>1. txn[f].target \in Exists' /\ txn[f].source # t.source
        BY <1>3, <2>1, <3>3, <3>7 DEF TargetSound
      <4>2. \A c \in txn[f].reparented \cap Exists' : parent'[c] = txn[f].source
        BY <4>1, <1>3, <2>4, <3>7 DEF ReparentSound
      <4> QED
        BY <2>4, <3>1, <3>7, <4>1, <4>2 DEF ReparentSound
    <3> QED
      BY <3>1, <3>3, <3>4, <3>5, <3>6, <3>7 DEF MergeSound
  <2> QED
    BY <2>1, <2>5, <2>6
<1> QED
  BY <1>1, <1>3, <1>5, <1>7, <1>8, <1>9, CommitKeeps

-----------------------------------------------------------------------------
(* The invariant, and what it is for.                                      *)

LEMMA TaxonomyStart == TaxonomyInit => TaxonomyInv
<1> SUFFICES ASSUME TaxonomyInit PROVE TaxonomyInv
  OBVIOUS
<1>1. PICK some \in SUBSET Skills :
         /\ parent \in [some -> {Missing} \cup some]
         /\ \A s \in some : IF s \in Global THEN parent[s] = Missing
                            ELSE parent[s] # Missing => parent[parent[s]] = Missing
  BY DEF TaxonomyInit
<1>2. Exists = some /\ carries \subseteq Bearers \X Exists /\ unused = Skills \ Exists
      /\ txn = [e \in Editors |-> Rest]
  BY <1>1 DEF TaxonomyInit, Exists
<1>3. TaxonomyTypes
  BY <1>1, <1>2 DEF TaxonomyTypes, TxnShape
<1>4. \A e \in Editors : /\ ~Creating(txn[e]) /\ ~Deleting(txn[e])
                         /\ NamesNoUnborn(txn[e]) /\ CreateSound(txn[e]) /\ MergeSound(txn[e])
  BY <1>2 DEF Creating, Deleting, NamesNoUnborn, CreateSound, MergeSound, Rest
<1>5. IdsOnce /\ ParentsHeld
  BY <1>2, <1>4 DEF IdsOnce, ParentsHeld, Unborn
<1>6. TwoLevels /\ NoOrphans
  BY <1>1, <1>2, TaxonomyConstants DEF TwoLevels, NoOrphans
<1> QED
  BY <1>3, <1>4, <1>5, <1>6 DEF TaxonomyInv

LEMMA TaxonomyStep == TaxonomyInv /\ [TaxonomyNext]_taxonomyVars => TaxonomyInv'
<1> SUFFICES ASSUME TaxonomyInv, [TaxonomyNext]_taxonomyVars PROVE TaxonomyInv'
  OBVIOUS
<1>1. CASE UNCHANGED taxonomyVars
  BY <1>1 DEF taxonomyVars, TaxonomyInv, TaxonomyTypes, IdsOnce, NamesNoUnborn, Unborn, ParentsHeld,
     TwoLevels, NoOrphans, CreateSound, MergeSound, SourceSound, TargetSound, CarriersSound,
     ReparentSound, Childless, Exists
<1>2. ASSUME NEW e \in Editors, NEW p \in Skills \cup {Missing}, BeginCreate(e, p) PROVE TaxonomyInv'
  BY <1>2, Begins
<1>3. ASSUME NEW e \in Editors, NEW b \in Bearers, NEW body \in SUBSET Skills, BeginReplace(e, b, body)
      PROVE  TaxonomyInv'
  BY <1>3, Begins
<1>4. ASSUME NEW e \in Editors, NEW s \in Skills, NEW t \in Skills, BeginMerge(e, s, t)
      PROVE  TaxonomyInv'
  BY <1>4, Begins
<1>5. ASSUME NEW e \in Editors,
             \/ CheckParent(e) \/ (\E s \in Skills : InsertSkill(e, s)) \/ RefuseInsert(e) \/ CommitCreate(e)
             \/ LockBearer(e) \/ AssertSkillsVisible(e) \/ ReplaceSkills(e) \/ CommitReplace(e)
             \/ ReadSource(e) \/ ReadTarget(e) \/ CopyReferences(e) \/ Reparent(e)
             \/ DeleteSource(e) \/ CommitMerge(e) \/ DeadlockVictim(e)
      PROVE  TaxonomyInv'
  <2>1. CASE RefuseInsert(e) \/ DeadlockVictim(e)
    BY <2>1, RollbackStep DEF RefuseInsert, DeadlockVictim
  <2> QED
    BY <1>5, <2>1, CheckParentStep, InsertSkillStep, CommitCreateStep, ReplaceSteps, CommitReplaceStep,
       ReadSourceStep, ReadTargetStep, CopyStep, ReparentStep, DeleteSourceStep, CommitMergeStep
<1> QED
  BY <1>1, <1>2, <1>3, <1>4, <1>5 DEF TaxonomyNext

THEOREM TaxonomyInvariance == TaxonomySpec => []TaxonomyInv
<1> QED
  BY TaxonomyStart, TaxonomyStep, PTL DEF TaxonomySpec

(* What goes wrong goes wrong only where an edit of a skill committed      *)
(* between a merge's check and its commit (mergeSkills, createSkill).      *)
THEOREM MergesAreSound == TaxonomySpec => []MergesKeepTheBank
<1>1. TaxonomyInv => MergesKeepTheBank
  <2> SUFFICES ASSUME TaxonomyInv, overtaken = {}
               PROVE  /\ TwoLevels /\ NoOrphans
                      /\ \A e \in Editors : (txn[e].op = "merge" /\ txn[e].at = "commit") =>
                            \A c \in carries : c[2] = txn[e].source =>
                                <<c[1], txn[e].target>> \in carries \/ c[1] \in txn[e].moved
    BY DEF MergesKeepTheBank, NoOrphans
  <2>1. TwoLevels /\ NoOrphans
    BY DEF TaxonomyInv
  <2>2. ASSUME NEW e \in Editors, txn[e].op = "merge", txn[e].at = "commit",
               NEW c \in carries, c[2] = txn[e].source
        PROVE  <<c[1], txn[e].target>> \in carries \/ c[1] \in txn[e].moved
    <3>1. c[1] \in Bearers /\ c = <<c[1], txn[e].source>>
      BY <2>2 DEF TaxonomyInv, TaxonomyTypes
    <3>2. CarriersSound(txn[e])
      BY <2>2 DEF TaxonomyInv, MergeSound
    <3> QED
      BY <3>1, <3>2 DEF CarriersSound
  <2> QED
    BY <2>1, <2>2
<1> QED
  BY <1>1, TaxonomyInvariance, PTL

-----------------------------------------------------------------------------
(* Sequences of rows that are never typed: what Append does to one.        *)
IsSeq(s) == \E S : s \in Seq(S)

LEMMA AppendShape ==
    ASSUME NEW s, IsSeq(s), NEW e
    PROVE  /\ Len(s) \in Nat /\ DOMAIN s = 1 .. Len(s)
           /\ IsSeq(Append(s, e)) /\ Len(Append(s, e)) = Len(s) + 1
           /\ DOMAIN Append(s, e) = 1 .. (Len(s) + 1)
           /\ \A n \in 1 .. Len(s) : Append(s, e)[n] = s[n]
           /\ Append(s, e)[Len(s) + 1] = e
<1>1. PICK S : s \in Seq(S)
  BY DEF IsSeq
<1>2. s \in Seq(S \cup {e})
  BY <1>1
<1>3. Append(s, e) \in Seq(S \cup {e})
  BY <1>2
<1>4. Len(s) \in Nat /\ Len(Append(s, e)) = Len(s) + 1 /\ DOMAIN s = 1 .. Len(s)
  BY <1>2
<1>5. DOMAIN Append(s, e) = 1 .. (Len(s) + 1)
  BY <1>3, <1>4
<1>6. /\ \A n \in 1 .. Len(s) : Append(s, e)[n] = s[n]
      /\ Append(s, e)[Len(s) + 1] = e
  BY <1>2
<1> QED
  BY <1>3, <1>4, <1>5, <1>6 DEF IsSeq

-----------------------------------------------------------------------------
(* Sections and documents.                                                 *)

(* A section of this build: its fields and no others, each with a legal    *)
(* value.                                                                  *)
Served(name, section) ==
    /\ section = [field \in DOMAIN Legal[name] |-> section[field]]
    /\ Valid(name, section)

LEMMA DefaultServed == \A name \in Sections : Served(name, DefaultSection(name))
BY SettingsConstants DEF Served, Valid, DefaultSection, Sections

(* Whatever the column holds, what is projected of it can be served.       *)
LEMMA SectionServed == \A name \in Sections : \A stored : Served(name, Section(name, stored))
<1> SUFFICES ASSUME NEW name \in Sections, NEW stored PROVE Served(name, Section(name, stored))
  OBVIOUS
<1> DEFINE merged == Over(stored, DefaultSection(name))
<1>1. Section(name, stored) = IF Valid(name, merged) THEN [field \in DOMAIN Legal[name] |-> merged[field]]
                              ELSE DefaultSection(name)
  BY DEF Section
<1> HIDE DEF merged
<1>2. CASE Valid(name, merged)
  BY <1>1, <1>2 DEF Served, Valid
<1>3. CASE ~Valid(name, merged)
  BY <1>1, <1>3, DefaultServed
<1> QED
  BY <1>2, <1>3

(* A section that can be served is projected to itself.                    *)
LEMMA SectionFixed ==
    ASSUME NEW name \in Sections, NEW section, Served(name, section)
    PROVE  Section(name, section) = section
<1> DEFINE merged == Over(section, DefaultSection(name))
<1>1. DOMAIN section = DOMAIN Legal[name] /\ section = [field \in DOMAIN Legal[name] |-> section[field]]
  BY DEF Served
<1>2. \A field \in DOMAIN Legal[name] : merged[field] = section[field]
  BY <1>1 DEF Over
<1>3. Section(name, section) = IF Valid(name, merged) THEN [field \in DOMAIN Legal[name] |-> merged[field]]
                               ELSE DefaultSection(name)
  BY DEF Section
<1> HIDE DEF merged
<1>4. Valid(name, merged)
  BY <1>2 DEF Served, Valid
<1> QED
  BY <1>1, <1>2, <1>3, <1>4

LEMMA ProjectServed ==
    ASSUME NEW doc
    PROVE  /\ DOMAIN ProjectOrgSettings(doc) = Sections
           /\ ProjectOrgSettings(doc) = [name \in Sections |-> ProjectOrgSettings(doc)[name]]
           /\ \A name \in Sections : Served(name, ProjectOrgSettings(doc)[name])
BY SectionServed DEF ProjectOrgSettings

(* An accepted patch over settings that can be served: the fields it names *)
(* are set, the others are left, and the result can be served.             *)
LEMMA MergeServed ==
    ASSUME NEW current, NEW patch, PatchAccepted(patch),
           \A name \in Sections : Served(name, current[name])
    PROVE  LET next == MergeOrgSettings(current, patch) IN
           /\ next = [name \in Sections |-> next[name]]
           /\ \A name \in Sections : Served(name, next[name])
           /\ \A s \in DOMAIN patch : \A f \in DOMAIN Legal[s] :
                 next[s][f] = IF f \in DOMAIN patch[s] THEN patch[s][f] ELSE current[s][f]
<1> DEFINE next == MergeOrgSettings(current, patch)
<1>1. /\ next = [name \in Sections |-> next[name]]
      /\ \A name \in Sections : next[name] = IF name \in DOMAIN patch THEN Over(patch[name], current[name])
                                             ELSE current[name]
  BY DEF MergeOrgSettings
<1> HIDE DEF next
<1>2. ASSUME NEW s \in DOMAIN patch
      PROVE  /\ Served(s, next[s])
             /\ \A f \in DOMAIN Legal[s] :
                   next[s][f] = IF f \in DOMAIN patch[s] THEN patch[s][f] ELSE current[s][f]
  <2>1. /\ s \in Sections /\ DOMAIN patch[s] \subseteq DOMAIN Legal[s]
        /\ \A f \in DOMAIN patch[s] : patch[s][f] \in Legal[s][f]
    BY DEF PatchAccepted
  <2>2. DOMAIN current[s] = DOMAIN Legal[s] /\ \A f \in DOMAIN Legal[s] : current[s][f] \in Legal[s][f]
    BY <2>1 DEF Served, Valid
  <2>3. next[s] = Over(patch[s], current[s])
    BY <1>1, <2>1
  <2>4. /\ next[s] = [f \in DOMAIN Legal[s] |-> next[s][f]]
        /\ \A f \in DOMAIN Legal[s] :
              next[s][f] = IF f \in DOMAIN patch[s] THEN patch[s][f] ELSE current[s][f]
    <3>1. DOMAIN patch[s] \cup DOMAIN current[s] = DOMAIN Legal[s]
      BY <2>1, <2>2
    <3> QED
      BY <2>3, <3>1, <2>2 DEF Over
  <2> QED
    BY <2>1, <2>2, <2>4 DEF Served, Valid
<1>3. \A name \in Sections : Served(name, next[name])
  BY <1>1, <1>2
<1> QED
  BY <1>1, <1>2, <1>3 DEF next

(* What is written is what is served afterwards, and no other key of the   *)
(* column is touched.                                                      *)
LEMMA WriteServed ==
    ASSUME NEW doc, NEW next, next = [name \in Sections |-> next[name]],
           \A name \in Sections : Served(name, next[name])
    PROVE  /\ ProjectOrgSettings(WriteOrgSettings(doc, next)) = next
           /\ \A key \in DOMAIN doc \ Sections :
                 key \in DOMAIN WriteOrgSettings(doc, next) /\ WriteOrgSettings(doc, next)[key] = doc[key]
<1> DEFINE after == WriteOrgSettings(doc, next)
<1>1. DOMAIN next = Sections
  OBVIOUS
<1>2. /\ DOMAIN after = DOMAIN next \cup DOMAIN doc
      /\ \A x \in DOMAIN next : after[x] = next[x]
      /\ \A x \in DOMAIN doc \ DOMAIN next : after[x] = doc[x]
  BY DEF WriteOrgSettings, Over
<1> HIDE DEF after
<1>3. \A name \in Sections : Section(name, IF name \in DOMAIN after THEN after[name] ELSE <<>>) = next[name]
  BY <1>1, <1>2, SectionFixed
<1>4. ProjectOrgSettings(after) = next
  BY <1>3 DEF ProjectOrgSettings
<1> QED
  BY <1>1, <1>2, <1>4 DEF after

-----------------------------------------------------------------------------
(* The document and its trail.                                             *)

(* Whoever is about to write holds the row and has read it as it is.       *)
PatchesHeld ==
    /\ DOMAIN patching = Admins
    /\ \A a \in Admins :
          \/ patching[a] = NoPatch
          \/ patching[a].at \in {"lock", "write"} /\ PatchAccepted(patching[a].patch)
    /\ \A a \in Admins : patching[a].at = "write" => orgLock = {a} /\ patching[a].stored = document

RowFollows(row, last) ==
    /\ row.before = last.after
    /\ \A s \in DOMAIN row.patch : \A f \in DOMAIN Legal[s] :
          row.after[s][f] = IF f \in DOMAIN row.patch[s] THEN row.patch[s][f] ELSE row.before[s][f]

TrailChained ==
    /\ IsSeq(trail) /\ Len(trail) # 0
    /\ \A i \in 2 .. Len(trail) : RowFollows(trail[i], trail[i - 1])
    /\ ProjectOrgSettings(document) = trail[Len(trail)].after
    /\ \A key \in DOMAIN trail[1].stored \ Sections :
          key \in DOMAIN document /\ document[key] = trail[1].stored[key]

SettingsInv == PatchesHeld /\ TrailChained

LEMMA SettingsStart == SettingsInit => SettingsInv
<1> SUFFICES ASSUME SettingsInit PROVE SettingsInv
  OBVIOUS
<1> DEFINE row == [after |-> ProjectOrgSettings(document), patch |-> <<>>, stored |-> document]
<1>1. PatchesHeld
  BY DEF SettingsInit, PatchesHeld, NoPatch
<1>2. trail = <<row>> /\ row.after = ProjectOrgSettings(document) /\ row.stored = document
  BY DEF SettingsInit
<1> HIDE DEF row
<1>3. trail \in Seq({row}) /\ Len(trail) = 1 /\ trail[1] = row
  BY <1>2
<1>4. IsSeq(trail)
  BY <1>3 DEF IsSeq
<1>5. \A i \in 2 .. Len(trail) : FALSE
  BY <1>3
<1> QED
  BY <1>1, <1>2, <1>3, <1>4, <1>5 DEF SettingsInv, TrailChained

LEMMA CommitPatchStep ==
    ASSUME SettingsInv, NEW a \in Admins, CommitPatch(a)
    PROVE  SettingsInv'
<1> DEFINE current == ProjectOrgSettings(document)
           given == patching[a].patch
           next == MergeOrgSettings(current, given)
           row == [before |-> current, after |-> next, patch |-> given]
<1>1. patching[a].at = "write" /\ orgLock = {a} /\ patching[a].stored = document
  BY DEF CommitPatch, SettingsInv, PatchesHeld
<1>2. PatchAccepted(given)
  BY <1>1 DEF SettingsInv, PatchesHeld, NoPatch
<1>3. \A name \in Sections : Served(name, current[name])
  BY ProjectServed
<1>4. /\ next = [name \in Sections |-> next[name]]
      /\ \A name \in Sections : Served(name, next[name])
      /\ \A s \in DOMAIN given : \A f \in DOMAIN Legal[s] :
            next[s][f] = IF f \in DOMAIN given[s] THEN given[s][f] ELSE current[s][f]
  <2> HIDE DEF current, given
  <2> QED
    BY <1>2, <1>3, MergeServed
<1>5. AssertServable(next)
  BY <1>4 DEF AssertServable, Served
<1>6. document' = WriteOrgSettings(document, next) /\ trail' = Append(trail, row)
  BY <1>1, <1>5 DEF CommitPatch
<1>7. row.before = current /\ row.after = next /\ row.patch = given
  OBVIOUS
<1> HIDE DEF next, current, given, row
<1>8. /\ ProjectOrgSettings(document') = next
      /\ \A key \in DOMAIN document \ Sections : key \in DOMAIN document' /\ document'[key] = document[key]
  BY <1>4, <1>6, WriteServed
<1>9. /\ Len(trail) \in Nat /\ Len(trail) # 0 /\ DOMAIN trail = 1 .. Len(trail)
      /\ IsSeq(trail') /\ Len(trail') = Len(trail) + 1
      /\ \A n \in 1 .. Len(trail) : trail'[n] = trail[n]
      /\ trail'[Len(trail) + 1] = row
  <2>1. IsSeq(trail) /\ Len(trail) # 0
    BY DEF SettingsInv, TrailChained
  <2>2. trail' = Append(trail, row)
    BY <1>6
  <2>3. /\ Len(trail) \in Nat /\ DOMAIN trail = 1 .. Len(trail)
        /\ IsSeq(Append(trail, row)) /\ Len(Append(trail, row)) = Len(trail) + 1
        /\ \A n \in 1 .. Len(trail) : Append(trail, row)[n] = trail[n]
        /\ Append(trail, row)[Len(trail) + 1] = row
    BY <2>1, AppendShape
  <2> QED
    BY <2>1, <2>2, <2>3
<1>10. RowFollows(row, trail[Len(trail)])
  <2>1. row.before = trail[Len(trail)].after
    BY <1>7 DEF SettingsInv, TrailChained, current
  <2>2. \A s \in DOMAIN row.patch : \A f \in DOMAIN Legal[s] :
           row.after[s][f] = IF f \in DOMAIN row.patch[s] THEN row.patch[s][f] ELSE row.before[s][f]
    BY <1>4, <1>7
  <2> QED
    BY <2>1, <2>2 DEF RowFollows
<1>11. \A i \in 2 .. Len(trail') : RowFollows(trail'[i], trail'[i - 1])
  <2>1. SUFFICES ASSUME NEW i \in 2 .. (Len(trail) + 1) PROVE RowFollows(trail'[i], trail'[i - 1])
    BY <1>9
  <2>2. CASE i \in 2 .. Len(trail)
    <3>1. trail'[i] = trail[i] /\ trail'[i - 1] = trail[i - 1]
      BY <1>9, <2>2
    <3> QED
      BY <2>2, <3>1 DEF SettingsInv, TrailChained
  <2>3. CASE i = Len(trail) + 1
    <3>1. trail'[i] = row /\ trail'[i - 1] = trail[Len(trail)]
      BY <1>9, <2>3
    <3> QED
      BY <1>10, <3>1
  <2> QED
    BY <1>9, <2>1, <2>2, <2>3
<1>12. trail'[1] = trail[1]
  BY <1>9
<1>13. TrailChained'
  <2>1. \A key \in DOMAIN trail'[1].stored \ Sections :
           key \in DOMAIN document' /\ document'[key] = trail'[1].stored[key]
    BY <1>8, <1>12 DEF SettingsInv, TrailChained
  <2>2. ProjectOrgSettings(document)' = trail'[Len(trail')].after
    BY <1>7, <1>8, <1>9
  <2> QED
    BY <1>9, <1>11, <2>1, <2>2 DEF TrailChained
<1>14. PatchesHeld'
  <2>1. patching' = [patching EXCEPT ![a] = NoPatch]
    BY DEF CommitPatch
  <2>2. \A b \in Admins \ {a} : patching'[b] = patching[b] /\ patching[b].at # "write"
    BY <1>1, <2>1 DEF SettingsInv, PatchesHeld
  <2>3. patching'[a] = NoPatch /\ NoPatch.at # "write" /\ DOMAIN patching' = Admins
    BY <2>1 DEF SettingsInv, PatchesHeld, NoPatch
  <2> QED
    BY <2>2, <2>3 DEF SettingsInv, PatchesHeld
<1> QED
  BY <1>13, <1>14 DEF SettingsInv

LEMMA SettingsStep == SettingsInv /\ [SettingsNext]_settingsVars => SettingsInv'
<1> SUFFICES ASSUME SettingsInv, [SettingsNext]_settingsVars PROVE SettingsInv'
  OBVIOUS
<1>1. CASE UNCHANGED settingsVars
  BY <1>1 DEF settingsVars, SettingsInv, PatchesHeld, TrailChained
<1>2. ASSUME NEW a \in Admins, NEW patch \in Patches, ReceivePatch(a, patch) PROVE SettingsInv'
  <2>1. patching' = [patching EXCEPT ![a] =
            IF PatchAccepted(patch) THEN [at |-> "lock", patch |-> patch] ELSE NoPatch]
        /\ UNCHANGED <<document, orgLock, trail>>
    BY <1>2 DEF ReceivePatch
  <2>2. \/ patching'[a] = NoPatch
        \/ patching'[a].at = "lock" /\ PatchAccepted(patching'[a].patch)
    BY <2>1 DEF SettingsInv, PatchesHeld
  <2>3. PatchesHeld'
    BY <2>1, <2>2 DEF SettingsInv, PatchesHeld, NoPatch
  <2>4. TrailChained'
    BY <2>1 DEF SettingsInv, TrailChained
  <2> QED
    BY <2>3, <2>4 DEF SettingsInv
<1>3. ASSUME NEW a \in Admins, ReadOrg(a) PROVE SettingsInv'
  <2> DEFINE reading == [at |-> "write", patch |-> patching[a].patch, stored |-> document]
  <2>1. /\ patching[a].at = "lock" /\ orgLock = {} /\ orgLock' = {a}
        /\ patching' = [patching EXCEPT ![a] = reading]
        /\ UNCHANGED <<document, trail>>
    BY <1>3 DEF ReadOrg
  <2>2. PatchAccepted(patching[a].patch)
    BY <2>1 DEF SettingsInv, PatchesHeld, NoPatch
  <2>3. /\ reading.at = "write" /\ PatchAccepted(reading.patch) /\ reading.stored = document'
    BY <2>1, <2>2
  <2> HIDE DEF reading
  <2>4. /\ DOMAIN patching' = Admins /\ patching'[a] = reading
        /\ \A b \in Admins \ {a} : patching'[b] = patching[b] /\ patching[b].at # "write"
    BY <2>1 DEF SettingsInv, PatchesHeld
  <2>5. PatchesHeld'
    BY <2>1, <2>3, <2>4 DEF SettingsInv, PatchesHeld
  <2>6. TrailChained'
    BY <2>1 DEF SettingsInv, TrailChained
  <2> QED
    BY <2>5, <2>6 DEF SettingsInv
<1> QED
  BY <1>1, <1>2, <1>3, CommitPatchStep DEF SettingsNext

LEMMA SettingsInvChain == SettingsInv => SettingsChain
<1> SUFFICES ASSUME SettingsInv PROVE SettingsChain
  OBVIOUS
<1>1. \A doc : AssertServable(ProjectOrgSettings(doc))
  BY ProjectServed DEF AssertServable, Served
<1>2. ASSUME NEW a \in Admins, patching[a].at = "write"
      PROVE  AssertServable(MergeOrgSettings(ProjectOrgSettings(patching[a].stored), patching[a].patch))
  <2>1. PatchAccepted(patching[a].patch)
    BY <1>2 DEF SettingsInv, PatchesHeld, NoPatch
  <2> DEFINE current == ProjectOrgSettings(patching[a].stored)
             given == patching[a].patch
  <2>2. \A name \in Sections : Served(name, current[name])
    BY ProjectServed
  <2> HIDE DEF current, given
  <2>3. \A name \in Sections : Served(name, MergeOrgSettings(current, given)[name])
    BY <2>1, <2>2, MergeServed DEF given
  <2> QED
    BY <2>3 DEF AssertServable, Served, current, given
<1> QED
  BY <1>1, <1>2 DEF SettingsInv, TrailChained, RowFollows, SettingsChain

-----------------------------------------------------------------------------
(* Job roles.                                                              *)

Kept(before, after) == \A f \in RoleFields : before[f] # Missing => after[f] # Missing

(* What a request is doing. *)
RoleRequest(t) ==
    \/ t = NoEdit
    \/ /\ t.code \in Codes
       /\ \/ t.at = "insert" /\ t.row["is_active"] \in BOOLEAN
          \/ t.at \in {"read", "update"} /\ RolePatchAccepted(t.patch)
          \/ t.at = "commit" /\ t.after["is_active"] \in BOOLEAN

RoleRequests == DOMAIN roleTxn = Recruiters /\ \A e \in Recruiters : RoleRequest(roleTxn[e])

(* A request that is going to write holds the role's row, or its place in  *)
(* the index, and has seen the role as it is.                              *)
RoleHeld(e) ==
    LET t == roleTxn[e] IN
    t.at \in {"update", "commit"} =>
        /\ roleLock[t.code] = e
        /\ IF t.code \in DOMAIN roles
           THEN t.before = roles[t.code] /\ (t.at = "commit" => Kept(t.before, t.after))
           ELSE t.at = "commit" /\ t.before = Missing

RolesWhole ==
    /\ DOMAIN roleLock = Codes
    /\ DOMAIN roles \subseteq Codes
    /\ \A code \in DOMAIN roles : roles[code]["is_active"] \in BOOLEAN

Histories == IsSeq(roleTrail) /\ \A code \in Codes : HistoryWhole(code)

RolesInv == RoleRequests /\ RolesWhole /\ Histories /\ \A e \in Recruiters : RoleHeld(e)

LEMMA RolesStart == RolesInit => RolesInv
<1> SUFFICES ASSUME RolesInit PROVE RolesInv
  OBVIOUS
<1>1. RoleRequests /\ RolesWhole /\ \A e \in Recruiters : RoleHeld(e)
  BY DEF RolesInit, RoleRequests, RoleRequest, RolesWhole, RoleHeld, NoEdit
<1>2. IsSeq(roleTrail)
  <2>1. roleTrail \in Seq({})
    BY DEF RolesInit
  <2> QED
    BY <2>1 DEF IsSeq
<1>3. \A code \in Codes : History(code) = {}
  BY DEF RolesInit, History
<1> QED
  BY <1>1, <1>2, <1>3 DEF RolesInit, RolesInv, Histories, HistoryWhole

(* A request moves and leaves the roles and their trail alone: what is     *)
(* left to show is that it still holds what it is about to write.          *)
LEMMA RequestStep ==
    ASSUME RolesInv, NEW e \in Recruiters, NEW t, RoleRequest(t),
           roleTxn' = [roleTxn EXCEPT ![e] = t], UNCHANGED <<roles, roleTrail>>,
           DOMAIN roleLock' = Codes,
           \A f \in Recruiters \ {e} : \A code \in Codes : roleLock[code] = f => roleLock'[code] = f,
           RoleHeld(e)'
    PROVE  RolesInv'
<1>1. RoleRequests'
  BY DEF RolesInv, RoleRequests
<1>2. RolesWhole'
  BY DEF RolesInv, RolesWhole
<1>3. Histories'
  BY DEF RolesInv, Histories, HistoryWhole, History
<1>4. ASSUME NEW f \in Recruiters \ {e} PROVE RoleHeld(f)'
  <2>1. roleTxn'[f] = roleTxn[f] /\ RoleHeld(f) /\ RoleRequest(roleTxn[f])
    BY DEF RolesInv, RoleRequests
  <2>2. roleTxn[f].at \in {"update", "commit"} => roleTxn[f].code \in Codes
    BY <2>1 DEF RoleRequest, NoEdit
  <2> QED
    BY <2>1, <2>2 DEF RoleHeld
<1> QED
  BY <1>1, <1>2, <1>3, <1>4 DEF RolesInv

(* No two requests are about to write one role. *)
LEMMA OneWriter ==
    ASSUME RolesInv, NEW e \in Recruiters, NEW f \in Recruiters,
           roleTxn[e].at \in {"update", "commit"}, roleTxn[f].at \in {"update", "commit"},
           roleTxn[e].code = roleTxn[f].code
    PROVE  e = f
BY DEF RolesInv, RoleHeld

LEMMA CommitRoleStep ==
    ASSUME RolesInv, NEW e \in Recruiters, CommitRole(e)
    PROVE  RolesInv'
<1> DEFINE code == roleTxn[e].code
           after == roleTxn[e].after
           row == [code |-> roleTxn[e].code, before |-> roleTxn[e].before, after |-> roleTxn[e].after]
           n == Len(roleTrail)
<1>1. /\ roleTxn[e].at = "commit" /\ roles' = With(roles, code, after)
      /\ roleTrail' = Append(roleTrail, row)
      /\ roleLock' = [roleLock EXCEPT ![code] = Missing]
      /\ roleTxn' = [roleTxn EXCEPT ![e] = NoEdit]
  BY DEF CommitRole
<1>2. code \in Codes /\ after["is_active"] \in BOOLEAN /\ roleLock[code] = e
  BY <1>1 DEF RolesInv, RoleRequests, RoleRequest, RoleHeld, NoEdit
<1>3. row.code = code /\ row.after = after
      /\ IF code \in DOMAIN roles THEN row.before = roles[code] /\ Kept(row.before, row.after)
         ELSE row.before = Missing
  BY <1>1 DEF RolesInv, RoleHeld
<1>4. /\ DOMAIN roles' = DOMAIN roles \cup {code} /\ roles'[code] = after
      /\ \A c \in DOMAIN roles \ {code} : roles'[c] = roles[c]
  BY <1>1 DEF With
<1>5. \A f \in Recruiters \ {e} : roleTxn'[f] = roleTxn[f]
      /\ (roleTxn[f].at \in {"update", "commit"} => roleTxn[f].code # code /\ roleTxn[f].code \in Codes)
  <2> SUFFICES ASSUME NEW f \in Recruiters \ {e}
               PROVE  roleTxn'[f] = roleTxn[f]
                      /\ (roleTxn[f].at \in {"update", "commit"} => roleTxn[f].code # code /\ roleTxn[f].code \in Codes)
    OBVIOUS
  <2>1. roleTxn'[f] = roleTxn[f]
    BY <1>1 DEF RolesInv, RoleRequests
  <2>2. roleTxn[f].at \in {"update", "commit"} => roleTxn[f].code # code
    BY <1>1, OneWriter
  <2>3. roleTxn[f].at \in {"update", "commit"} => roleTxn[f].code \in Codes
    BY DEF RolesInv, RoleRequests, RoleRequest, NoEdit
  <2> QED
    BY <2>1, <2>2, <2>3
<1> HIDE DEF row, code, after
<1>6. RoleRequests'
  BY <1>1 DEF RolesInv, RoleRequests, RoleRequest
<1>7. RolesWhole'
  BY <1>1, <1>2, <1>4 DEF RolesInv, RolesWhole
<1>8. ASSUME NEW f \in Recruiters PROVE RoleHeld(f)'
  <2>1. CASE f = e
    BY <1>1, <2>1 DEF RolesInv, RoleRequests, RoleHeld, NoEdit
  <2>2. CASE f # e
    <3>1. RoleHeld(f)
      BY DEF RolesInv
    <3>2. \A c \in Codes : c # code => roleLock'[c] = roleLock[c]
      BY <1>1 DEF RolesInv, RolesWhole
    <3> QED
      BY <1>4, <1>5, <2>2, <3>1, <3>2 DEF RoleHeld
  <2> QED
    BY <2>1, <2>2
<1>9. /\ n \in Nat /\ DOMAIN roleTrail = 1 .. n /\ IsSeq(roleTrail')
      /\ DOMAIN roleTrail' = 1 .. (n + 1)
      /\ \A i \in 1 .. n : roleTrail'[i] = roleTrail[i]
      /\ roleTrail'[n + 1] = row
  <2>1. IsSeq(roleTrail)
    BY DEF RolesInv, Histories
  <2>2. /\ n \in Nat /\ DOMAIN roleTrail = 1 .. n /\ IsSeq(Append(roleTrail, row))
        /\ DOMAIN Append(roleTrail, row) = 1 .. (n + 1)
        /\ \A i \in 1 .. n : Append(roleTrail, row)[i] = roleTrail[i]
        /\ Append(roleTrail, row)[n + 1] = row
    BY <2>1, AppendShape
  <2> QED
    BY <1>1, <2>2
<1> HIDE DEF n
<1>10. ASSUME NEW c \in Codes PROVE HistoryWhole(c)'
  <2>1. HistoryWhole(c)
    BY DEF RolesInv, Histories
  <2>2. History(c) \subseteq 1 .. n /\ \A i \in History(c) : roleTrail'[i] = roleTrail[i]
    BY <1>9 DEF History
  <2>3. CASE c # code
    <3>1. History(c)' = History(c)
      BY <1>3, <1>9, <2>3 DEF History
    <3>2. (c \in DOMAIN roles' <=> c \in DOMAIN roles) /\ (c \in DOMAIN roles => roles'[c] = roles[c])
      BY <1>4, <2>3
    <3> QED
      BY <2>1, <2>2, <3>1, <3>2 DEF HistoryWhole
  <2>4. CASE c = code
    <3>1. History(c)' = History(c) \cup {n + 1}
      BY <1>3, <1>9, <2>4 DEF History
    <3>2. c \in DOMAIN roles'
      BY <1>4, <2>4
    <3>3. ASSUME NEW i \in History(c)
          PROVE  LET earlier == {j \in History(c)' : j < i} IN
                 /\ earlier = {} => roleTrail'[i].before = Missing
                 /\ \A k \in earlier : (\A j \in earlier : j <= k) =>
                       /\ roleTrail'[i].before = roleTrail'[k].after
                       /\ Kept(roleTrail'[i].before, roleTrail'[i].after)
                 /\ ~(\A j \in History(c)' : j <= i)
      <4>1. {j \in History(c)' : j < i} = {j \in History(c) : j < i}
        BY <1>9, <2>2, <3>1
      <4>2. ~(\A j \in History(c)' : j <= i)
        BY <1>9, <2>2, <3>1
      <4> QED
        BY <2>1, <2>2, <4>1, <4>2 DEF HistoryWhole, Kept
    <3>4. LET earlier == {j \in History(c)' : j < n + 1} IN
          /\ earlier = {} => row.before = Missing
          /\ \A k \in earlier : (\A j \in earlier : j <= k) =>
                row.before = roleTrail'[k].after /\ Kept(row.before, row.after)
          /\ roles'[c] = row.after
      <4>1. {j \in History(c)' : j < n + 1} = History(c)
        BY <1>9, <2>2, <3>1
      <4>2. History(c) = {} => row.before = Missing
        BY <1>3, <2>1, <2>4 DEF HistoryWhole
      <4>3. ASSUME NEW k \in History(c), \A j \in History(c) : j <= k
            PROVE  row.before = roleTrail'[k].after /\ Kept(row.before, row.after)
        <5>1. code \in DOMAIN roles /\ roles[code] = roleTrail[k].after
          BY <2>1, <2>4, <4>3 DEF HistoryWhole
        <5> QED
          BY <1>3, <2>2, <5>1
      <4> QED
        BY <1>3, <1>4, <2>4, <4>1, <4>2, <4>3
    <3> QED
      BY <1>9, <3>1, <3>2, <3>3, <3>4 DEF HistoryWhole, Kept
  <2> QED
    BY <2>3, <2>4
<1> QED
  BY <1>6, <1>7, <1>8, <1>9, <1>10 DEF RolesInv, Histories

LEMMA RolesStep == RolesInv /\ [RolesNext]_roleVars => RolesInv'
<1> SUFFICES ASSUME RolesInv, [RolesNext]_roleVars PROVE RolesInv'
  OBVIOUS
<1>1. CASE UNCHANGED roleVars
  <2>1. RoleRequests' /\ RolesWhole' /\ \A e \in Recruiters : RoleHeld(e)'
    BY <1>1 DEF roleVars, RolesInv, RoleRequests, RolesWhole, RoleHeld
  <2>2. Histories'
    BY <1>1 DEF roleVars, RolesInv, Histories, HistoryWhole, History
  <2> QED
    BY <2>1, <2>2 DEF RolesInv
<1>2. ASSUME NEW e \in Recruiters, NEW code \in Codes, NEW body \in NewRoles, ReceiveCreate(e, code, body)
      PROVE  RolesInv'
  <2> DEFINE asked == [at |-> "insert", code |-> code, row |-> NewRole(body)]
             t == IF NewRoleAccepted(body) THEN asked ELSE NoEdit
  <2>1. roleTxn' = [roleTxn EXCEPT ![e] = t] /\ UNCHANGED <<roles, roleLock, roleTrail>>
    BY <1>2 DEF ReceiveCreate
  <2>2. NewRoleAccepted(body) => NewRole(body)["is_active"] = TRUE
    BY DEF NewRoleAccepted, NewRole, Over, RoleFields
  <2>3. RoleRequest(t) /\ t.at \notin {"update", "commit"}
    BY <2>2 DEF RoleRequest, NoEdit
  <2> HIDE DEF t
  <2>4. roleTxn'[e] = t /\ DOMAIN roleLock' = Codes
    BY <2>1 DEF RolesInv, RoleRequests, RolesWhole
  <2> QED
    BY <2>1, <2>3, <2>4, RequestStep DEF RoleHeld
<1>3. ASSUME NEW e \in Recruiters, NEW code \in Codes, NEW patch \in RolePatches, ReceiveUpdate(e, code, patch)
      PROVE  RolesInv'
  <2> DEFINE asked == [at |-> "read", code |-> code, patch |-> patch]
             t == IF RolePatchAccepted(patch) THEN asked ELSE NoEdit
  <2>1. roleTxn' = [roleTxn EXCEPT ![e] = t] /\ UNCHANGED <<roles, roleLock, roleTrail>>
    BY <1>3 DEF ReceiveUpdate
  <2>2. RoleRequest(t) /\ t.at \notin {"update", "commit"}
    BY DEF RoleRequest, NoEdit
  <2> HIDE DEF t
  <2>3. roleTxn'[e] = t /\ DOMAIN roleLock' = Codes
    BY <2>1 DEF RolesInv, RoleRequests, RolesWhole
  <2> QED
    BY <2>1, <2>2, <2>3, RequestStep DEF RoleHeld
<1>4. ASSUME NEW e \in Recruiters, CreateJobRole(e) PROVE RolesInv'
  <2> DEFINE code == roleTxn[e].code
             t == [at |-> "commit", code |-> code, before |-> Missing, after |-> roleTxn[e].row]
  <2>1. roleTxn[e].at = "insert" /\ code \in Codes /\ roleTxn[e].row["is_active"] \in BOOLEAN
    BY <1>4 DEF CreateJobRole, RolesInv, RoleRequests, RoleRequest, NoEdit
  <2>2. DOMAIN roleTxn = Recruiters /\ DOMAIN roleLock = Codes
    BY DEF RolesInv, RoleRequests, RolesWhole
  <2>3. CASE code \in DOMAIN roles
    <3>1. roleTxn' = [roleTxn EXCEPT ![e] = NoEdit] /\ UNCHANGED <<roles, roleLock, roleTrail>>
      BY <1>4, <2>3 DEF CreateJobRole
    <3>2. roleTxn'[e] = NoEdit /\ RoleRequest(NoEdit) /\ NoEdit.at = "none"
      BY <2>2, <3>1 DEF RoleRequest, NoEdit
    <3> QED
      BY <2>2, <3>1, <3>2, RequestStep DEF RoleHeld
  <2>4. CASE code \notin DOMAIN roles
    <3>1. /\ roleLock[code] = Missing /\ roleLock' = [roleLock EXCEPT ![code] = e]
          /\ roleTxn' = [roleTxn EXCEPT ![e] = t] /\ UNCHANGED <<roles, roleTrail>>
      BY <1>4, <2>4 DEF CreateJobRole
    <3>2. RoleRequest(t) /\ t.code = code /\ t.at = "commit" /\ t.before = Missing
      BY <2>1 DEF RoleRequest
    <3> HIDE DEF t, code
    <3>3. roleTxn'[e] = t /\ roleLock'[code] = e /\ DOMAIN roleLock' = Codes
      BY <2>1, <2>2, <3>1
    <3>4. \A f \in Recruiters \ {e} : \A c \in Codes : roleLock[c] = f => roleLock'[c] = f
      BY <2>2, <3>1, JobRoleConstants
    <3>5. RoleHeld(e)'
      BY <2>4, <3>1, <3>2, <3>3 DEF RoleHeld
    <3> QED
      BY <3>1, <3>2, <3>3, <3>4, <3>5, RequestStep
  <2> QED
    BY <2>3, <2>4
<1>5. ASSUME NEW e \in Recruiters, RequireJobRole(e) PROVE RolesInv'
  <2> DEFINE code == roleTxn[e].code
             t == [at |-> "update", code |-> code, patch |-> roleTxn[e].patch, before |-> roles[code]]
  <2>1. roleTxn[e].at = "read" /\ code \in Codes /\ RolePatchAccepted(roleTxn[e].patch)
    BY <1>5 DEF RequireJobRole, RolesInv, RoleRequests, RoleRequest, NoEdit
  <2>2. DOMAIN roleTxn = Recruiters /\ DOMAIN roleLock = Codes
    BY DEF RolesInv, RoleRequests, RolesWhole
  <2>3. CASE code \notin DOMAIN roles
    <3>1. roleTxn' = [roleTxn EXCEPT ![e] = NoEdit] /\ UNCHANGED <<roles, roleLock, roleTrail>>
      BY <1>5, <2>3 DEF RequireJobRole
    <3>2. roleTxn'[e] = NoEdit /\ RoleRequest(NoEdit) /\ NoEdit.at = "none"
      BY <2>2, <3>1 DEF RoleRequest, NoEdit
    <3> QED
      BY <2>2, <3>1, <3>2, RequestStep DEF RoleHeld
  <2>4. CASE code \in DOMAIN roles
    <3>1. /\ roleLock[code] = Missing /\ roleLock' = [roleLock EXCEPT ![code] = e]
          /\ roleTxn' = [roleTxn EXCEPT ![e] = t] /\ UNCHANGED <<roles, roleTrail>>
      BY <1>5, <2>4 DEF RequireJobRole
    <3>2. RoleRequest(t) /\ t.code = code /\ t.at = "update" /\ t.before = roles[code]
      BY <2>1 DEF RoleRequest
    <3> HIDE DEF t, code
    <3>3. roleTxn'[e] = t /\ roleLock'[code] = e /\ DOMAIN roleLock' = Codes
      BY <2>1, <2>2, <3>1
    <3>4. \A f \in Recruiters \ {e} : \A c \in Codes : roleLock[c] = f => roleLock'[c] = f
      BY <2>2, <3>1, JobRoleConstants
    <3>5. RoleHeld(e)'
      BY <2>4, <3>1, <3>2, <3>3 DEF RoleHeld
    <3> QED
      BY <3>1, <3>2, <3>3, <3>4, <3>5, RequestStep
  <2> QED
    BY <2>3, <2>4
<1>6. ASSUME NEW e \in Recruiters, UpdateJobRole(e) PROVE RolesInv'
  <2> DEFINE code == roleTxn[e].code
             after == Coalesce(roleTxn[e].patch, roles[code])
             t == [at |-> "commit", code |-> code, before |-> roleTxn[e].before, after |-> after]
  <2>1. roleTxn[e].at = "update" /\ code \in Codes /\ RolePatchAccepted(roleTxn[e].patch)
    BY <1>6 DEF UpdateJobRole, RolesInv, RoleRequests, RoleRequest, NoEdit
  <2>2. DOMAIN roleTxn = Recruiters /\ DOMAIN roleLock = Codes
    BY DEF RolesInv, RoleRequests, RolesWhole
  <2>3. roleLock[code] = e /\ code \in DOMAIN roles /\ roleTxn[e].before = roles[code]
    BY <2>1 DEF RolesInv, RoleHeld
  <2>4. /\ roleLock' = [roleLock EXCEPT ![code] = e] /\ roleTxn' = [roleTxn EXCEPT ![e] = t]
        /\ UNCHANGED <<roles, roleTrail>>
    BY <1>6 DEF UpdateJobRole
  <2>5. after["is_active"] \in BOOLEAN
    <3>1. roles[code]["is_active"] \in BOOLEAN
      BY <2>3 DEF RolesInv, RolesWhole
    <3> QED
      BY <2>1, <3>1 DEF Coalesce, RolePatchAccepted, RoleFields
  <2>6. Kept(roles[code], after)
    BY <2>1 DEF Kept, Coalesce, RolePatchAccepted
  <2> HIDE DEF after
  <2>7. RoleRequest(t) /\ t.code = code /\ t.at = "commit" /\ t.before = roles[code] /\ t.after = after
    BY <2>1, <2>3, <2>5 DEF RoleRequest
  <2> HIDE DEF t, code
  <2>8. roleTxn'[e] = t /\ roleLock'[code] = e /\ DOMAIN roleLock' = Codes
    BY <2>1, <2>2, <2>4
  <2>9. \A f \in Recruiters \ {e} : \A c \in Codes : roleLock[c] = f => roleLock'[c] = f
    BY <2>2, <2>3, <2>4
  <2>10. RoleHeld(e)'
    BY <2>3, <2>4, <2>6, <2>7, <2>8 DEF RoleHeld
  <2> QED
    BY <2>4, <2>7, <2>8, <2>9, <2>10, RequestStep
<1>7. ASSUME NEW e \in Recruiters, RollbackRole(e) PROVE RolesInv'
  <2>1. /\ roleTxn' = [roleTxn EXCEPT ![e] = NoEdit] /\ UNCHANGED <<roles, roleTrail>>
        /\ roleLock' = [code \in Codes |-> IF roleLock[code] = e THEN Missing ELSE roleLock[code]]
    BY <1>7 DEF RollbackRole
  <2>2. roleTxn'[e] = NoEdit /\ RoleRequest(NoEdit) /\ NoEdit.at = "none"
    BY <2>1 DEF RolesInv, RoleRequests, RoleRequest, NoEdit
  <2>3. \A f \in Recruiters \ {e} : \A c \in Codes : roleLock[c] = f => roleLock'[c] = f
    BY <2>1
  <2> QED
    BY <2>1, <2>2, <2>3, RequestStep DEF RoleHeld
<1> QED
  BY <1>1, <1>2, <1>3, <1>4, <1>5, <1>6, <1>7, CommitRoleStep DEF RolesNext

LEMMA RolesInvHistory == RolesInv => RoleHistory
<1> SUFFICES ASSUME RolesInv PROVE RoleHistory
  OBVIOUS
<1> DEFINE listed(active) == ListJobRoles([family |-> Missing, seniority |-> Missing, active |-> active])
<1>1. \A code \in DOMAIN roles : roles[code].is_active \in BOOLEAN
  BY DEF RolesInv, RolesWhole
<1>2. /\ listed("true") = {code \in DOMAIN roles : roles[code].is_active = TRUE}
      /\ listed("false") = {code \in DOMAIN roles : roles[code].is_active = FALSE}
      /\ listed(Missing) = DOMAIN roles
  BY JobRoleConstants DEF ListJobRoles
<1>3. listed("true") \cap listed("false") = {} /\ listed("true") \cup listed("false") = listed(Missing)
  BY <1>1, <1>2
<1> QED
  BY <1>3 DEF RoleHistory, RolesInv, Histories

(* What an organisation's settings and its job roles have on record joins  *)
(* up: patchOrgSettings and the job-role routes read the row under its     *)
(* lock and write it with its audit row in one transaction, so no request  *)
(* loses another's change and no row of the trail has a gap before it.     *)
THEOREM AuditRowsJoinUp == OrganisationSpec => []AuditChains
<1>1. SettingsSpec => []SettingsChain
  BY SettingsStart, SettingsStep, SettingsInvChain, PTL DEF SettingsSpec
<1>2. RolesSpec => []RoleHistory
  BY RolesStart, RolesStep, RolesInvHistory, PTL DEF RolesSpec
<1>3. SettingsChain /\ RoleHistory => AuditChains
  BY DEF AuditChains
<1> QED
  BY <1>1, <1>2, <1>3, PTL DEF OrganisationSpec

-----------------------------------------------------------------------------
(* Pages of the question list.                                             *)

LEMMA LeastNat == \A T \in SUBSET Nat : T # {} => \E m \in T : \A n \in T : m <= n
<1> SUFFICES ASSUME NEW T \in SUBSET Nat, T # {} PROVE \E m \in T : \A n \in T : m <= n
  OBVIOUS
<1>1. PICK m \in T : \A n \in T : ~ (<<n, m>> \in OpToRel(<, Nat))
  BY NatLessThanWellFounded, WFMin, Zenon
<1>2. \A n \in T : ~ (n < m)
  BY <1>1, Zenon DEF OpToRel
<1> QED
  BY <1>2

(* A bank of rows, each created at some instant. *)
Dated(bank, ids) == ids \subseteq Nat /\ IsFiniteSet(ids) /\ \A id \in ids : bank[id].at \in Nat

LEMMA BeforeIsAnOrder ==
    ASSUME NEW bank, NEW ids, Dated(bank, ids)
    PROVE  /\ \A a, b, c \in ids : Before(bank, a, b) /\ Before(bank, b, c) => Before(bank, a, c)
           /\ \A a, b \in ids : a = b \/ Before(bank, a, b) \/ Before(bank, b, a)
           /\ \A a \in ids : ~Before(bank, a, a)
BY DEF Dated, Before

LEMMA OldestIsThere ==
    ASSUME NEW bank, NEW ids, Dated(bank, ids), ids # {}
    PROVE  Oldest(bank, ids) \in ids /\ \A a \in ids \ {Oldest(bank, ids)} : Before(bank, a, Oldest(bank, ids))
<1> DEFINE ats == {bank[id].at : id \in ids}
<1>1. ats \subseteq Nat /\ ats # {}
  BY DEF Dated
<1>2. PICK m \in ats : \A n \in ats : m <= n
  BY <1>1, LeastNat
<1> DEFINE last == {id \in ids : bank[id].at = m}
<1>3. last \subseteq Nat /\ last # {}
  BY <1>2 DEF Dated
<1>4. PICK o \in last : \A n \in last : o <= n
  BY <1>3, LeastNat
<1>5. o \in ids /\ bank[o].at = m
  OBVIOUS
<1>6. ASSUME NEW a \in ids \ {o} PROVE Before(bank, a, o)
  <2>1. m \in Nat /\ bank[a].at \in Nat /\ m <= bank[a].at /\ a \in Nat /\ o \in Nat
    BY <1>2, <1>5 DEF Dated
  <2>2. bank[a].at = m => o <= a
    BY <1>4
  <2> QED
    BY <1>5, <2>1, <2>2 DEF Before
<1> QED
  BY <1>5, <1>6 DEF Oldest

LEMMA PageTaken ==
    ASSUME NEW bank, NEW ids, Dated(bank, ids), NEW limit \in Nat \ {0}
    PROVE  LET page == NewestFirst(bank, ids, limit) IN
           /\ Cardinality(ids) \in Nat
           /\ page \subseteq ids
           /\ \A id \in page : \A a \in ids : Before(bank, a, id) => a \in page
           /\ Cardinality(ids) <= limit => page = ids
           /\ ids # {} => page # {}
<1> DEFINE page == NewestFirst(bank, ids, limit)
           newer(id) == {a \in ids : Before(bank, a, id)}
<1>1. page = {id \in ids : Cardinality(newer(id)) < limit}
  BY DEF NewestFirst
<1>2. /\ IsFiniteSet(ids) /\ Cardinality(ids) \in Nat
      /\ \A id \in ids : newer(id) \in SUBSET ids /\ IsFiniteSet(newer(id)) /\ Cardinality(newer(id)) \in Nat
  <2>1. IsFiniteSet(ids)
    BY DEF Dated
  <2>2. \A id : newer(id) \in SUBSET ids
    OBVIOUS
  <2> HIDE DEF newer
  <2>3. \A id : IsFiniteSet(newer(id))
    BY <2>1, <2>2, FS_Subset
  <2> QED
    BY <2>1, <2>2, <2>3, FS_CardinalityType
<1>3. \A a, id \in ids : Before(bank, a, id) => newer(a) \subseteq newer(id) /\ a \in newer(id) /\ a \notin newer(a)
  BY BeforeIsAnOrder
<1>4. \A id \in ids : id \notin newer(id)
  BY BeforeIsAnOrder
<1> HIDE DEF newer, page
<1>5. \A a, id \in ids : Before(bank, a, id) => Cardinality(newer(a)) < Cardinality(newer(id))
  <2> SUFFICES ASSUME NEW a \in ids, NEW id \in ids, Before(bank, a, id)
               PROVE  Cardinality(newer(a)) < Cardinality(newer(id))
    OBVIOUS
  <2>1. newer(a) \in SUBSET newer(id) /\ newer(a) # newer(id)
    BY <1>3
  <2>2. Cardinality(newer(a)) <= Cardinality(newer(id)) /\ Cardinality(newer(a)) # Cardinality(newer(id))
    BY <1>2, <2>1, FS_Subset
  <2> QED
    BY <1>2, <2>2
<1>6. \A id \in page : \A a \in ids : Before(bank, a, id) => a \in page
  BY <1>1, <1>2, <1>5
<1>7. Cardinality(ids) <= limit => page = ids
  <2>1. ASSUME NEW id \in ids PROVE Cardinality(newer(id)) < Cardinality(ids)
    <3>1. newer(id) \in SUBSET ids /\ newer(id) # ids
      BY <1>2, <1>4
    <3>2. Cardinality(newer(id)) <= Cardinality(ids) /\ Cardinality(newer(id)) # Cardinality(ids)
      BY <1>2, <3>1, FS_Subset
    <3> QED
      BY <1>2, <3>2
  <2> QED
    BY <1>1, <1>2, <2>1
<1>8. ASSUME ids # {} PROVE page # {}
  <2> DEFINE ranks == {Cardinality(newer(id)) : id \in ids}
  <2>1. ranks \in SUBSET Nat /\ ranks # {}
    BY <1>2, <1>8
  <2>2. PICK m \in ranks : \A n \in ranks : m <= n
    BY <2>1, LeastNat
  <2>3. PICK first \in ids : m = Cardinality(newer(first))
    BY <2>2
  <2>4. newer(first) = {}
    <3>1. SUFFICES ASSUME NEW a \in newer(first) PROVE FALSE
      OBVIOUS
    <3>2. a \in ids /\ Before(bank, a, first)
      BY DEF newer
    <3>3. Cardinality(newer(a)) < Cardinality(newer(first)) /\ Cardinality(newer(a)) \in Nat
      BY <1>2, <1>5, <3>2
    <3>4. Cardinality(newer(first)) <= Cardinality(newer(a))
      BY <2>2, <2>3, <3>2
    <3> QED
      BY <1>2, <3>3, <3>4
  <2>5. Cardinality(newer(first)) = 0
    BY <2>4, FS_EmptySet
  <2> QED
    BY <1>1, <2>5
<1> QED
  BY <1>1, <1>2, <1>6, <1>7, <1>8 DEF page

(* A page and its cursor: the page is what was found, or the cursor        *)
(* divides what was found into the page and the rest.                      *)
Divides(bank, found, page) ==
    /\ page.ids \subseteq found
    /\ \/ page.next = Missing /\ page.ids = found
       \/ /\ page.next \in [at : Nat, id : Nat]
          /\ \E o \in found : page.next = [at |-> bank[o].at, id |-> o]
          /\ \A id \in page.ids : ~After(bank, id, page.next)
          /\ \A id \in found \ page.ids : After(bank, id, page.next)

LEMMA PageDivides ==
    ASSUME NEW bank, NEW ids, Dated(bank, ids), NEW limit \in Nat \ {0}, NEW cursor,
           NEW keyset, keyset = IF cursor \in {Missing, Mangled} THEN Missing ELSE cursor
    PROVE  Divides(bank, {id \in ids : After(bank, id, keyset)}, ListPage(bank, ids, limit, cursor))
<1> DEFINE found == {id \in ids : After(bank, id, keyset)}
           page == NewestFirst(bank, found, limit)
           next == IF Cardinality(found) > limit THEN EncodeKeysetCursor(bank, Oldest(bank, page)) ELSE Missing
<1>1. ListPage(bank, ids, limit, cursor) = [ids |-> page, next |-> next]
  <2>1. keyset = IF cursor = Missing THEN Missing ELSE DecodeKeysetCursor(cursor)
    BY DEF DecodeKeysetCursor
  <2> QED
    BY <2>1 DEF ListPage
<1>2. Dated(bank, found)
  <2>1. found \in SUBSET ids
    OBVIOUS
  <2>2. IsFiniteSet(found)
    BY <2>1, FS_Subset DEF Dated
  <2> QED
    BY <2>1, <2>2 DEF Dated
<1> HIDE DEF found
<1>3. /\ Cardinality(found) \in Nat /\ page \subseteq found
      /\ \A id \in page : \A a \in found : Before(bank, a, id) => a \in page
      /\ Cardinality(found) <= limit => page = found
      /\ found # {} => page # {}
  BY <1>2, PageTaken
<1> HIDE DEF page
<1> DEFINE list == ListPage(bank, ids, limit, cursor)
<1>4. list.ids = page /\ list.next = next
  BY <1>1
<1> HIDE DEF list
<1>5. CASE Cardinality(found) <= limit
  <2>1. next = Missing /\ page = found
    BY <1>3, <1>5
  <2>2. Divides(bank, found, list)
    BY <1>4, <2>1 DEF Divides
  <2> QED
    BY <2>2 DEF found, list
<1>6. CASE Cardinality(found) > limit
  <2> DEFINE o == Oldest(bank, page)
  <2>1. found # {}
    BY <1>6, FS_EmptySet
  <2>2. Dated(bank, page) /\ page # {}
    <3>1. IsFiniteSet(found) /\ page \in SUBSET found
      BY <1>2, <1>3 DEF Dated
    <3>2. IsFiniteSet(page)
      BY <3>1, FS_Subset
    <3> QED
      BY <1>2, <1>3, <2>1, <3>1, <3>2 DEF Dated
  <2>3. o \in page /\ \A a \in page \ {o} : Before(bank, a, o)
    BY <2>2, OldestIsThere
  <2> HIDE DEF o
  <2>4. next = [at |-> bank[o].at, id |-> o]
    BY <1>3, <1>6 DEF EncodeKeysetCursor, o
  <2> HIDE DEF next
  <2>5. o \in found /\ o \in Nat /\ bank[o].at \in Nat
    BY <1>2, <1>3, <2>3 DEF Dated
  <2>6. next \in [at : Nat, id : Nat] /\ next.at = bank[o].at /\ next.id = o
    BY <2>4, <2>5
  <2>7. next # Missing
    BY <2>6, ListingConstants
  <2>8. ASSUME NEW id \in page PROVE ~After(bank, id, next)
    <3>1. id \in Nat /\ bank[id].at \in Nat
      BY <2>2 DEF Dated
    <3>2. id = o \/ Before(bank, id, o)
      BY <2>3
    <3> QED
      BY <2>5, <2>6, <2>7, <3>1, <3>2 DEF After, Before
  <2>9. ASSUME NEW id \in found \ page PROVE After(bank, id, next)
    <3>1. id # o /\ ~Before(bank, id, o)
      BY <1>3, <2>3
    <3>2. id \in Nat /\ bank[id].at \in Nat
      BY <1>2 DEF Dated
    <3> QED
      BY <2>5, <2>6, <3>1, <3>2 DEF After, Before
  <2>10. Divides(bank, found, list)
    <3>1. \A id \in list.ids : ~After(bank, id, list.next)
      BY <1>4, <2>8
    <3>2. \A id \in found \ list.ids : After(bank, id, list.next)
      BY <1>4, <2>9
    <3>3. list.ids \subseteq found /\ list.next \in [at : Nat, id : Nat]
      BY <1>3, <1>4, <2>6
    <3>4. list.next = [at |-> bank[o].at, id |-> o]
      BY <1>4, <2>4
    <3> QED
      BY <2>5, <3>1, <3>2, <3>3, <3>4 DEF Divides
  <2> QED
    BY <2>10 DEF found, list
<1> QED
  BY <1>3, <1>5, <1>6, ListingConstants

-----------------------------------------------------------------------------
(* The walk.                                                               *)

(* A row that is being inserted is nobody's yet. *)
RowsDated ==
    /\ instant \in Nat
    /\ DOMAIN rows \subseteq RowIds
    /\ \A id \in DOMAIN rows :
          rows[id] = [at |-> rows[id].at, state |-> rows[id].state] /\ rows[id].at \in Nat
    /\ \A id \in DOMAIN inserting : id \in RowIds /\ id \notin DOMAIN rows /\ inserting[id] \in Nat

(* What the pages so far have shown lies before the next one's cursor, no  *)
(* page shares a row with another, and a row that has matched all along    *)
(* has been shown or lies behind the cursor.                               *)
WalkDivides ==
    /\ IsSeq(shown)
    /\ screen.next = Missing \/ screen.next \in [at : Nat, id : Nat]
    /\ \A i \in DOMAIN shown :
          /\ shown[i] \subseteq DOMAIN rows
          /\ \A id \in shown[i] : screen.next # Missing => ~After(rows, id, screen.next)
          /\ \A j \in DOMAIN shown : i # j => shown[i] \cap shown[j] = {}
    /\ steady \subseteq Matching(rows, screen.filters)
    /\ \A id \in steady :
          \/ \E i \in DOMAIN shown : id \in shown[i]
          \/ screen.next # Missing /\ After(rows, id, screen.next)

ListingInv == RowsDated /\ WalkDivides

LEMMA ListingStart == ListingInit => ListingInv
<1> SUFFICES ASSUME ListingInit PROVE ListingInv
  OBVIOUS
<1>1. PICK ids \in SUBSET RowIds : rows \in [ids -> [at : {0}, state : RowStates]]
  BY DEF ListingInit
<1>2. DOMAIN rows \subseteq RowIds /\ \A id \in DOMAIN rows :
          rows[id] = [at |-> rows[id].at, state |-> rows[id].state] /\ rows[id].at \in Nat
  BY <1>1
<1>3. shown \in Seq({}) /\ DOMAIN shown = {} /\ DOMAIN inserting = {}
  BY DEF ListingInit
<1> QED
  BY <1>2, <1>3 DEF ListingInit, ListingInv, RowsDated, WalkDivides, IsSeq

(* Whatever is written, a row that is there stays where it is in the list. *)
LEMMA RowsMove ==
    ASSUME ListingInv, RowsDated', DOMAIN rows \subseteq DOMAIN rows',
           \A id \in DOMAIN rows : rows'[id].at = rows[id].at,
           Keep, UNCHANGED <<screen, shown>>
    PROVE  ListingInv'
<1>1. \A id \in DOMAIN rows : \A c : After(rows', id, c) <=> After(rows, id, c)
  BY DEF After
<1>2. steady' \subseteq steady /\ steady' \subseteq Matching(rows', screen'.filters)
  BY DEF Keep, Matching
<1>3. steady \subseteq DOMAIN rows /\ \A i \in DOMAIN shown : shown[i] \subseteq DOMAIN rows
  BY DEF ListingInv, WalkDivides, Matching
<1>4. WalkDivides'
  <2>1. \A i \in DOMAIN shown' :
           /\ shown'[i] \subseteq DOMAIN rows'
           /\ \A id \in shown'[i] : screen'.next # Missing => ~After(rows', id, screen'.next)
           /\ \A j \in DOMAIN shown' : i # j => shown'[i] \cap shown'[j] = {}
    BY <1>1, <1>3 DEF ListingInv, WalkDivides
  <2>2. \A id \in steady' :
           \/ \E i \in DOMAIN shown' : id \in shown'[i]
           \/ screen'.next # Missing /\ After(rows', id, screen'.next)
    BY <1>1, <1>2, <1>3 DEF ListingInv, WalkDivides
  <2> QED
    BY <1>2, <2>1, <2>2 DEF ListingInv, WalkDivides
<1> QED
  BY <1>4 DEF ListingInv

LEMMA MatchingDated == ASSUME RowsDated, NEW f PROVE Dated(rows, Matching(rows, f))
<1>1. Matching(rows, f) \in SUBSET RowIds
  BY DEF Matching, RowsDated
<1>2. IsFiniteSet(Matching(rows, f))
  BY <1>1, FS_Subset, ListingConstants
<1> QED
  BY <1>1, <1>2, ListingConstants DEF Dated, Matching, RowsDated

(* A walk's first page. *)
LEMMA FirstPage ==
    ASSUME ListingInv, NEW f, NEW cursor \in {Missing, Mangled}, Show(f, cursor)
    PROVE  ListingInv'
<1> DEFINE page == ListQuestions(rows, f, PageSize, cursor)
           found == {id \in Matching(rows, f) : After(rows, id, Missing)}
<1>1. /\ screen' = [filters |-> f, next |-> page.next] /\ shown' = <<page.ids>>
      /\ steady' = Matching(rows, f) /\ UNCHANGED <<rows, inserting, instant>>
  BY DEF Show
<1>2. RowsDated'
  BY <1>1 DEF ListingInv, RowsDated
<1>3. Divides(rows, found, page)
  BY MatchingDated, PageDivides, ListingConstants DEF ListingInv, ListQuestions
<1>4. found = Matching(rows, f)
  BY DEF After
<1> HIDE DEF page, found
<1>5. shown' \in Seq({page.ids}) /\ DOMAIN shown' = {1} /\ shown'[1] = page.ids
  BY <1>1
<1>6. IsSeq(shown')
  BY <1>5 DEF IsSeq
<1>7. screen'.filters = f /\ screen'.next = page.next /\ found \subseteq DOMAIN rows
  BY <1>1, <1>4 DEF Matching
<1>8. page.next = Missing \/ page.next \in [at : Nat, id : Nat]
  BY <1>3 DEF Divides
<1>9. page.ids \subseteq found /\ \A id \in page.ids : page.next # Missing => ~After(rows, id, page.next)
  BY <1>3 DEF Divides
<1>10. \A id \in found : id \in page.ids \/ (page.next # Missing /\ After(rows, id, page.next))
  BY <1>3, ListingConstants DEF Divides
<1>11. /\ steady' \subseteq Matching(rows', screen'.filters)
       /\ \A id \in steady' : id \in shown'[1] \/ (screen'.next # Missing /\ After(rows', id, screen'.next))
  BY <1>1, <1>4, <1>5, <1>7, <1>10
<1>12. \A i \in DOMAIN shown' :
          /\ shown'[i] \subseteq DOMAIN rows'
          /\ \A id \in shown'[i] : screen'.next # Missing => ~After(rows', id, screen'.next)
          /\ \A j \in DOMAIN shown' : i # j => shown'[i] \cap shown'[j] = {}
  BY <1>1, <1>5, <1>7, <1>9
<1>13. WalkDivides'
  BY <1>5, <1>6, <1>7, <1>8, <1>11, <1>12 DEF WalkDivides
<1> QED
  BY <1>2, <1>13 DEF ListingInv

(* The next page of a walk. *)
LEMMA FurtherPage ==
    ASSUME ListingInv, NextPage
    PROVE  ListingInv'
<1> DEFINE cursor == screen.next
           f == screen.filters
           page == ListQuestions(rows, f, PageSize, cursor)
           found == {id \in Matching(rows, f) : After(rows, id, cursor)}
           n == Len(shown)
<1>1. cursor \in [at : Nat, id : Nat] /\ cursor \notin {Missing, Mangled}
  BY ListingConstants DEF NextPage, ListingInv, WalkDivides
<1>2. /\ screen' = [filters |-> f, next |-> page.next] /\ shown' = Append(shown, page.ids)
      /\ steady' = steady /\ UNCHANGED <<rows, inserting, instant>>
  BY <1>1 DEF NextPage, Show
<1>3. RowsDated'
  BY <1>2 DEF ListingInv, RowsDated
<1>4. Divides(rows, found, page)
  BY <1>1, MatchingDated, PageDivides, ListingConstants DEF ListingInv, ListQuestions
<1>5. IsSeq(shown)
  BY DEF ListingInv, WalkDivides
<1>6. /\ n \in Nat /\ DOMAIN shown = 1 .. n /\ IsSeq(Append(shown, page.ids))
      /\ DOMAIN Append(shown, page.ids) = 1 .. (n + 1)
      /\ \A i \in 1 .. n : Append(shown, page.ids)[i] = shown[i]
      /\ Append(shown, page.ids)[n + 1] = page.ids
  <2> HIDE DEF page
  <2> QED
    BY <1>5, AppendShape
<1>7. screen'.filters = f /\ screen'.next = page.next
  BY <1>2
<1>8. \A id \in found : id \in DOMAIN rows /\ id \in Matching(rows, f) /\ After(rows, id, cursor)
  BY DEF Matching
<1>9. \A id \in Matching(rows, f) : After(rows, id, cursor) => id \in found
  OBVIOUS
<1> HIDE DEF page, found
<1>10. page.next = Missing \/ page.next \in [at : Nat, id : Nat]
  BY <1>4 DEF Divides
<1>11. page.ids \subseteq found /\ \A id \in page.ids : page.next # Missing => ~After(rows, id, page.next)
  BY <1>4 DEF Divides
<1>12. \A id \in found : id \in page.ids \/ (page.next # Missing /\ After(rows, id, page.next))
  BY <1>4, ListingConstants DEF Divides
<1>13. \A id \in DOMAIN rows : page.next # Missing /\ After(rows, id, page.next) => After(rows, id, cursor)
  <2> SUFFICES ASSUME NEW id \in DOMAIN rows, page.next # Missing, After(rows, id, page.next)
               PROVE  After(rows, id, cursor)
    OBVIOUS
  <2>1. PICK o \in found : page.next = [at |-> rows[o].at, id |-> o]
    BY <1>4 DEF Divides
  <2>2. /\ id \in Nat /\ rows[id].at \in Nat /\ o \in Nat /\ rows[o].at \in Nat
        /\ cursor.at \in Nat /\ cursor.id \in Nat
    BY <1>1, <1>8, <2>1, ListingConstants DEF ListingInv, RowsDated
  <2>3. rows[o].at < cursor.at \/ (rows[o].at = cursor.at /\ o < cursor.id)
    BY <1>1, <1>8, <2>1 DEF After
  <2>4. rows[id].at < rows[o].at \/ (rows[id].at = rows[o].at /\ id < o)
    BY <2>1 DEF After
  <2> HIDE DEF cursor
  <2> QED
    BY <2>2, <2>3, <2>4 DEF After
<1>14. \A i \in 1 .. n : shown[i] \subseteq DOMAIN rows /\ \A id \in shown[i] : ~After(rows, id, cursor)
  BY <1>1, <1>6 DEF ListingInv, WalkDivides
<1>15. \A i \in 1 .. n : \A j \in 1 .. n : i # j => shown[i] \cap shown[j] = {}
  BY <1>6 DEF ListingInv, WalkDivides
<1>16. /\ steady \subseteq Matching(rows, f)
       /\ \A id \in steady : (\E i \in 1 .. n : id \in shown[i]) \/ After(rows, id, cursor)
  BY <1>6 DEF ListingInv, WalkDivides
<1> HIDE DEF cursor, f, n
<1>17. ASSUME NEW i \in DOMAIN shown'
       PROVE  /\ shown'[i] \subseteq DOMAIN rows'
              /\ \A id \in shown'[i] : screen'.next # Missing => ~After(rows', id, screen'.next)
              /\ \A j \in DOMAIN shown' : i # j => shown'[i] \cap shown'[j] = {}
  <2>1. CASE i \in 1 .. n
    <3>1. shown'[i] = shown[i]
      BY <1>2, <1>6, <2>1
    <3>2. shown[i] \cap page.ids = {}
      BY <1>8, <1>11, <1>14, <2>1
    <3>3. \A id \in shown[i] : page.next # Missing => ~After(rows, id, page.next)
      BY <1>13, <1>14, <2>1
    <3>4. \A j \in DOMAIN shown' : i # j => shown'[i] \cap shown'[j] = {}
      BY <1>2, <1>6, <1>15, <2>1, <3>1, <3>2
    <3> QED
      BY <1>2, <1>7, <1>14, <2>1, <3>1, <3>3, <3>4
  <2>2. CASE i = n + 1
    <3>1. shown'[i] = page.ids
      BY <1>2, <1>6, <2>2
    <3>2. page.ids \subseteq DOMAIN rows
      BY <1>8, <1>11
    <3>3. \A j \in 1 .. n : page.ids \cap shown[j] = {}
      BY <1>8, <1>11, <1>14
    <3>4. \A j \in DOMAIN shown' : i # j => shown'[i] \cap shown'[j] = {}
      BY <1>2, <1>6, <2>2, <3>1, <3>3
    <3> QED
      BY <1>2, <1>7, <1>11, <3>1, <3>2, <3>4
  <2> QED
    BY <1>2, <1>6, <2>1, <2>2
<1>18. ASSUME NEW id \in steady'
       PROVE  \/ \E i \in DOMAIN shown' : id \in shown'[i]
              \/ screen'.next # Missing /\ After(rows', id, screen'.next)
  <2>1. CASE \E i \in 1 .. n : id \in shown[i]
    BY <1>2, <1>6, <2>1
  <2>2. CASE After(rows, id, cursor)
    <3>1. id \in found
      BY <1>2, <1>9, <1>16, <2>2
    <3>2. n + 1 \in DOMAIN shown' /\ shown'[n + 1] = page.ids
      BY <1>2, <1>6
    <3> QED
      BY <1>2, <1>7, <1>12, <3>1, <3>2
  <2> QED
    BY <1>2, <1>16, <2>1, <2>2
<1>19. IsSeq(shown') /\ steady' \subseteq Matching(rows', screen'.filters)
  BY <1>2, <1>6, <1>7, <1>16
<1>20. WalkDivides'
  BY <1>7, <1>10, <1>17, <1>18, <1>19 DEF WalkDivides
<1> QED
  BY <1>3, <1>20 DEF ListingInv

LEMMA ListingStep == ListingInv /\ [ListingNext]_listingVars => ListingInv'
<1> SUFFICES ASSUME ListingInv, [ListingNext]_listingVars PROVE ListingInv'
  OBVIOUS
<1>1. CASE UNCHANGED listingVars
  BY <1>1 DEF listingVars, ListingInv, RowsDated, WalkDivides, Matching, After
<1>2. CASE PassInstant
  BY <1>2 DEF PassInstant, ListingInv, RowsDated, WalkDivides, Matching, After
<1>3. CASE NextPage
  BY <1>3, FurtherPage
<1>4. ASSUME NEW f \in FilterSets, SetFilter(f) \/ OpenOldLink(f) PROVE ListingInv'
  BY <1>4, FirstPage DEF SetFilter, OpenOldLink
<1>5. ASSUME NEW id \in RowIds, BeginInsert(id) PROVE ListingInv'
  <2>1. /\ id \notin DOMAIN rows /\ inserting' = With(inserting, id, instant)
        /\ UNCHANGED <<rows, instant, screen, shown, steady>>
    BY <1>5 DEF BeginInsert
  <2>2. /\ DOMAIN inserting' = DOMAIN inserting \cup {id} /\ inserting'[id] = instant
        /\ \A x \in DOMAIN inserting \ {id} : inserting'[x] = inserting[x]
    BY <2>1 DEF With
  <2>3. RowsDated'
    BY <2>1, <2>2 DEF ListingInv, RowsDated
  <2> QED
    BY <2>1, <2>3 DEF ListingInv, WalkDivides, Matching, After
<1>6. ASSUME NEW id \in RowIds, CommitInsert(id) PROVE ListingInv'
  <2>1. PICK state \in RowStates : rows' = With(rows, id, [at |-> inserting[id], state |-> state])
    BY <1>6 DEF CommitInsert
  <2>2. /\ id \in DOMAIN inserting /\ inserting' = [i \in DOMAIN inserting \ {id} |-> inserting[i]]
        /\ Keep /\ UNCHANGED <<instant, screen, shown>>
    BY <1>6 DEF CommitInsert
  <2>3. /\ DOMAIN rows' = DOMAIN rows \cup {id} /\ rows'[id] = [at |-> inserting[id], state |-> state]
        /\ \A x \in DOMAIN rows \ {id} : rows'[x] = rows[x]
    BY <2>1 DEF With
  <2>4. id \notin DOMAIN rows /\ inserting[id] \in Nat
    BY <2>2 DEF ListingInv, RowsDated
  <2>5. /\ DOMAIN inserting' = DOMAIN inserting \ {id}
        /\ \A x \in DOMAIN inserting' : inserting'[x] = inserting[x]
    BY <2>2
  <2>6. RowsDated'
    <3>1. \A x \in DOMAIN rows' :
             rows'[x] = [at |-> rows'[x].at, state |-> rows'[x].state] /\ rows'[x].at \in Nat
      BY <2>3, <2>4 DEF ListingInv, RowsDated
    <3> QED
      BY <2>2, <2>3, <2>5, <3>1 DEF ListingInv, RowsDated
  <2> QED
    BY <2>2, <2>3, <2>4, <2>6, RowsMove
<1>7. ASSUME NEW id \in RowIds, ChangeRow(id) PROVE ListingInv'
  <2>1. PICK state \in RowStates : rows' = [rows EXCEPT ![id].state = state]
    BY <1>7 DEF ChangeRow
  <2>2. id \in DOMAIN rows /\ Keep /\ UNCHANGED <<inserting, instant, screen, shown>>
    BY <1>7 DEF ChangeRow
  <2>3. rows[id] = [at |-> rows[id].at, state |-> rows[id].state] /\ rows[id].at \in Nat
    BY <2>2 DEF ListingInv, RowsDated
  <2>4. /\ DOMAIN rows' = DOMAIN rows /\ rows'[id] = [rows[id] EXCEPT !.state = state]
        /\ \A x \in DOMAIN rows \ {id} : rows'[x] = rows[x]
    BY <2>1, <2>2
  <2>5. rows'[id] = [at |-> rows[id].at, state |-> state]
    BY <2>3, <2>4
  <2>6. RowsDated'
    BY <2>2, <2>3, <2>4, <2>5 DEF ListingInv, RowsDated
  <2> QED
    BY <2>2, <2>4, <2>5, <2>6, RowsMove
<1> QED
  BY <1>1, <1>2, <1>3, <1>4, <1>5, <1>6, <1>7 DEF ListingNext

LEMMA ListingInvPages == ListingInv => PagesTile
<1> SUFFICES ASSUME ListingInv PROVE PagesTile
  OBVIOUS
<1>1. screen.next = Missing => steady \subseteq UNION {shown[i] : i \in DOMAIN shown}
  BY DEF ListingInv, WalkDivides
<1>2. \A i, j \in DOMAIN shown : i # j => shown[i] \cap shown[j] = {}
  BY DEF ListingInv, WalkDivides
<1> QED
  BY <1>1, <1>2 DEF PagesTile

(* A walk through listQuestions by its cursor, whatever is created,        *)
(* committed late, changed or archived between two pages: no question is   *)
(* on two pages, and none that matched all along is on no page at the end. *)
THEOREM PagesDivideTheList == ListingSpec => []PagesTile
<1>1. ListingInit => ListingInv
  BY ListingStart
<1>2. ListingInv /\ [ListingNext]_listingVars => ListingInv'
  BY ListingStep
<1>3. ListingInv => PagesTile
  BY ListingInvPages
<1> QED
  BY <1>1, <1>2, <1>3, PTL DEF ListingSpec
=============================================================================
