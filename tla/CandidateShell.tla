--------------------------- MODULE CandidateShell ---------------------------
(***************************************************************************)
(* The candidate application's shell: the countdown that estimates the     *)
(* server's clock (time/countdown.ts), the connection monitor              *)
(* (net/connection.ts) and the announcer that decides what the two live    *)
(* regions say (shell/announcer.ts), wired together by candidate-shell.tsx.*)
(*                                                                         *)
(* Time is in Units, several to a displayed second.  A message is its      *)
(* place in the order messages were offered; its text is left out.         *)
(***************************************************************************)
EXTENDS Absent, Integers, Sequences, FiniteSets

CONSTANTS
    Units,          \* clock units in a displayed second
    FirstDeadline,  \* the deadline the attempt starts with; it starts at 0
    Fixed,          \* the ten, five and one minute boundaries, in units
    Gap,            \* least gap between messages of a region, in units
    Extensions,     \* later deadlines the server may send
    MaxShellTime,   \* bound on the monotonic clock
    MaxOffered,     \* bound on messages offered to the announcer
    MaxPending,     \* bound on writes buffered at once
    Offsets         \* what samples may say of the server's clock: drift, travel time

ASSUME ShellConstants ==
    /\ Units \in Nat \ {0} /\ FirstDeadline \in Nat \ {0} /\ Extensions \subseteq Nat
    /\ MaxShellTime \in Nat /\ MaxOffered \in Nat /\ MaxPending \in Nat /\ Offsets \subseteq Int
    /\ \A t \in {"ten-minutes", "five-minutes", "one-minute"} : Fixed[t] \in Nat
    /\ \A c \in {"polite", "assertive"} : Gap[c] \in Nat
    /\ Missing \notin Int

Channels == {"polite", "assertive"}
Thresholds == <<"half", "ten-minutes", "five-minutes", "one-minute">>
ThresholdSet == {"half", "ten-minutes", "five-minutes", "one-minute"}

VARIABLES
    mono,       \* performance.now()
    offset,     \* the last sample: the server's time minus mono when it was read
    deadline,   \* the server's deadline, as last heard
    snapshot,   \* what the timer renders
    latest,     \* the last estimate computed, rendered or not
    spoken,     \* how often each threshold's message was offered to the announcer
    link,       \* the monitor's snapshot
    rendered,   \* its announcement has been through the effect
    offered,    \* messages offered so far
    region,     \* each channel: text, last emission, waiting message, timer
    late        \* a timer was overtaken by a message offered after it was due

shellVars == <<mono, offset, deadline, snapshot, latest, spoken, link, rendered,
               offered, region, late>>

Silent == 0

ShellInit ==
    /\ mono = 0 /\ offset = 0
    /\ deadline = FirstDeadline
    /\ snapshot = [remaining |-> FirstDeadline, deadline |-> FirstDeadline]
    /\ latest = FirstDeadline
    /\ spoken = [t \in ThresholdSet |-> 0]
    /\ link = [state |-> "online", pending |-> 0, announcement |-> ""]
    /\ rendered = TRUE
    /\ offered = 0
    /\ region = [c \in Channels |-> [says |-> Silent, last |-> -Gap[c], waiting |-> Silent, due |-> Missing]]
    /\ late = FALSE

----------------------------------------------------------------------------
(* The announcer. *)
Emit(channel, message) == [channel EXCEPT !.says = message, !.last = mono]

(* Mutant of Announce: what waits is not replaced. *)
AnnounceKeepingFirst(channels, c, message) ==
    LET r == channels[c] IN
    [channels EXCEPT ![c] =
        IF mono - r.last >= Gap[c] THEN Emit(r, message)
        ELSE IF r.due # Missing THEN r
        ELSE [r EXCEPT !.waiting = message, !.due = r.last + Gap[c]]]

(* Publish if the budget allows, else replace what waits. *)
Announce(channels, c, message) ==
    LET r == channels[c] IN
    [channels EXCEPT ![c] =
        IF mono - r.last >= Gap[c] THEN Emit(r, message)
        ELSE [r EXCEPT !.waiting = message,
                       !.due = IF @ = Missing THEN r.last + Gap[c] ELSE @]]

Overtakes(c) == region[c].due # Missing /\ mono - region[c].last >= Gap[c]

(* setTimeout runs at its time or after. *)
TimerFires(c) ==
    /\ region[c].due # Missing /\ mono >= region[c].due
    /\ LET r == [region[c] EXCEPT !.due = Missing, !.waiting = Silent]
       IN  region' = [region EXCEPT ![c] = IF region[c].waiting = Silent THEN r
                                           ELSE Emit(r, region[c].waiting)]
    /\ UNCHANGED <<mono, offset, deadline, snapshot, latest, spoken, link, rendered,
                   offered, late>>

----------------------------------------------------------------------------
(* The countdown. *)
Remaining(s, d) ==
    LET left == d - (mono + s) IN IF left > 0 THEN left ELSE 0

Seconds(remaining) == (remaining + Units - 1) \div Units

(* Half the attempt may fall inside a second: boundaries are doubled. *)
TwiceBoundary(t) == IF t = "half" THEN FirstDeadline ELSE 2 * Fixed[t]

(* Mutant of ThresholdsCrossed: the boundary itself is not a crossing. *)
CrossedOpen(previous, current, t) ==
    /\ current < previous
    /\ 2 * previous >= TwiceBoundary(t) /\ 2 * current < TwiceBoundary(t)

ThresholdsCrossed(previous, current, t) ==
    /\ current < previous
    /\ 2 * previous > TwiceBoundary(t) /\ 2 * current <= TwiceBoundary(t)

RegionFor(t) == IF t = "one-minute" THEN "assertive" ELSE "polite"

(* One threshold's turn: if it was crossed, its message goes to its region. *)
Tell(news, next, t) ==
    IF ThresholdsCrossed(snapshot.remaining, next, t)
    THEN [region |-> Announce(news.region, RegionFor(t), news.offered + 1),
          offered |-> news.offered + 1]
    ELSE news

(* #update: announce what was crossed since the snapshot, in order, and    *)
(* keep the old snapshot while the displayed second is the same.           *)
UpdateCountdown(s, d) ==
    LET next == Remaining(s, d)
        half == Tell([region |-> region, offered |-> offered], next, Thresholds[1])
        ten == Tell(half, next, Thresholds[2])
        five == Tell(ten, next, Thresholds[3])
        one == Tell(five, next, Thresholds[4])
        crossed == {t \in ThresholdSet : ThresholdsCrossed(snapshot.remaining, next, t)}
    IN
    /\ one.offered <= MaxOffered
    /\ offset' = s /\ deadline' = d
    /\ latest' = next
    /\ spoken' = [t \in ThresholdSet |-> spoken[t] + (IF t \in crossed THEN 1 ELSE 0)]
    /\ region' = one.region
    /\ offered' = one.offered
    /\ late' = (late \/ \E t \in crossed : Overtakes(RegionFor(t)))
    /\ snapshot' = IF /\ Seconds(next) = Seconds(snapshot.remaining)
                      /\ d = snapshot.deadline
                      /\ (next = 0) = (snapshot.remaining = 0)
                   THEN snapshot ELSE [remaining |-> next, deadline |-> d]
    /\ UNCHANGED <<mono, link, rendered>>

TickCountdown == latest # Remaining(offset, deadline) /\ UpdateCountdown(offset, deadline)
Reconcile(s) == s # offset /\ UpdateCountdown(s, deadline)
ApplyServerDeadline(d) == d # deadline /\ UpdateCountdown(offset, d)

----------------------------------------------------------------------------
(* The connection monitor.  A change it does not narrate clears the        *)
(* announcement.                                                           *)
Become(state, pending, announcement) ==
    /\ link' = [state |-> state, pending |-> pending, announcement |-> announcement]
    /\ link' # link \/ announcement # ""
    /\ rendered' = FALSE
    /\ UNCHANGED <<mono, offset, deadline, snapshot, latest, spoken, offered, region, late>>

GoOffline == link.state # "offline" /\ Become("offline", link.pending, "offline")

BeginReconnect ==
    /\ link.state \notin {"reconnecting", "syncing"}
    /\ Become("reconnecting", link.pending, "reconnecting")

GoOnline ==
    IF link.pending > 0 THEN link.state # "syncing" /\ Become("syncing", link.pending, "")
    ELSE link.state # "online" /\ Become("online", 0, "reconnected")

NoteBufferedWrite == link.pending < MaxPending /\ Become(link.state, link.pending + 1, "")

NoteFlushedWrite ==
    LET left == IF link.pending = 0 THEN 0 ELSE link.pending - 1 IN
    IF left = 0 /\ link.state = "syncing" THEN Become("online", 0, "reconnected")
    ELSE Become(link.state, left, "")

----------------------------------------------------------------------------
(* The shell.  Calls made in one task are rendered together, and the       *)
(* effect hands on the announcement of what was rendered.                  *)
Offer ==
    /\ offered < MaxOffered
    /\ offered' = offered + 1
    /\ late' = (late \/ Overtakes("polite"))
    /\ region' = Announce(region, "polite", offered + 1)
    /\ UNCHANGED <<mono, offset, deadline, snapshot, latest, spoken, link>>

RunEffects ==
    /\ ~rendered /\ rendered' = TRUE
    /\ IF link.announcement = ""
       THEN UNCHANGED <<mono, offset, deadline, snapshot, latest, spoken, link,
                        offered, region, late>>
       ELSE Offer

OnRequestStatus == Offer /\ UNCHANGED rendered

Elapse ==
    /\ mono < MaxShellTime
    /\ mono' = mono + 1
    /\ UNCHANGED <<offset, deadline, snapshot, latest, spoken, link, rendered, offered, region, late>>

ShellNext ==
    \/ Elapse \/ TickCountdown
    \/ \E s \in Offsets : Reconcile(s)
    \/ \E d \in Extensions : ApplyServerDeadline(d)
    \/ GoOffline \/ BeginReconnect \/ GoOnline \/ NoteBufferedWrite \/ NoteFlushedWrite
    \/ RunEffects \/ OnRequestStatus
    \/ \E c \in Channels : TimerFires(c)

ShellSpec == ShellInit /\ [][ShellNext]_shellVars

----------------------------------------------------------------------------
(* A threshold the estimate has fallen to is one whose message the         *)
(* announcer was offered, whatever jumps, corrections and extensions the   *)
(* estimate took, and whichever updates were not rendered.  It may have    *)
(* been offered more than once: each time the estimate climbs back over    *)
(* the threshold, and for a half that falls inside a second, at every      *)
(* update before the second ends.  What a region then says is NewestStands.*)
NoThresholdMissed ==
    \A t \in ThresholdSet :
        (2 * FirstDeadline > TwiceBoundary(t) /\ 2 * latest <= TwiceBoundary(t)) => spoken[t] > 0

(* When nothing waits, a region says the last thing it was offered, unless *)
(* its timer ran so late that a newer message got past it.                 *)
NewestStands ==
    (~late /\ \A c \in Channels : region[c].due = Missing) =>
        offered = 0 \/ \E c \in Channels : region[c].says = offered
=============================================================================
