------------------------------ MODULE SolcastQuota ------------------------------
(***************************************************************************)
(* The Solcast quota gate of one entry and the polls and flows that spend  *)
(* it.  A call is charged and read back from the store before it is sent;  *)
(* the last calls of a UTC day are reserved for one poll before the charge *)
(* window; a fresh key earns one extra fetch.  Midnight may fall between   *)
(* any two steps.                                                          *)
(*                                                                         *)
(* The variables turns, strays and lost are history: no action reads them, *)
(* and properties use them where the gate's own record may be wrong.       *)
(*                                                                         *)
(* Abstracted: forecasts (only the outcome of a call is kept), the         *)
(* instants of the day's polls, and a quota file removed by hand.          *)
(***************************************************************************)
EXTENDS Naturals

CONSTANTS
    Calls,          \* calls_limit: 10 or 50 in the code
    Sites,          \* resource ids: one or two, a call each
    Days,           \* bound on UTC days
    QuotaFaults     \* failed saves, reloads, crashes and clock steps in a behaviour

ASSUME QuotaAssumption ==
    Sites \in Nat \ {0} /\ Calls \in Nat /\ Calls > Sites /\ Days \in Nat \ {0}
    /\ QuotaFaults \in Nat

VARIABLES
    today,          \* the UTC day
    gate,           \* QuotaState in memory
    file,           \* the quota store
    gateFailed,     \* _failed: the gate is closed until Home Assistant restarts
    holder,         \* who holds the gate's lock, and where
    poll,           \* the poll under _poll_lock; "release" is a reserved one in its finally
    status,         \* of the forecast cache: only auth_failed stops polls
    tried,          \* the last day whose reserved instant has passed
    sent,           \* calls sent on each day
    marks,          \* keys accepted by a flow
    quotaFaults,    \* QuotaFaults left
    turns,          \* days whose own reserved poll has had its last answer
    strays,         \* days on which the reserved poll of another day was under way
    lost            \* days whose calls the store forgot

store     == <<gate, file, gateFailed, quotaFaults>>
history   == <<turns, strays, lost>>
quotaVars == <<today, store, holder, poll, status, tried, sent, marks, history>>

Spent      == Calls + 1          \* 1000 in the code: nothing left whatever the limit
Quota      == [day : 1 .. Days, used : 0 .. Spent, until : 0 .. Days + 1, pending : BOOLEAN,
               released : 0 .. Days]
NoFile     == [day |-> 0, found |-> FALSE]
Unreadable == [day |-> 0, found |-> TRUE]
NewGate(used) == [day |-> today, used |-> used, until |-> 0, pending |-> FALSE, released |-> 0]
FreeGate   == [who |-> "none", pc |-> "idle"]
NoPoll     == [kind |-> "none", site |-> 0, retries |-> 0]
Asking     == {"day", "reserved", "first"}
Statuses   == {"auth_failed", "other"}

QuotaTypeOK ==
    /\ today \in 1 .. Days /\ gate \in Quota /\ file \in Quota \union {NoFile, Unreadable}
    /\ gateFailed \in BOOLEAN /\ status \in Statuses /\ tried \in 0 .. Days
    /\ holder \in [who : {"none", "poll", "flow"}, pc : {"idle", "recovering", "saving", "sent"}]
    /\ poll \in [kind : Asking \union {"none", "release"}, site : 0 .. Sites, retries : 0 .. 2]
    /\ sent \in [1 .. Days -> Nat] /\ marks \in Nat
    /\ quotaFaults \in 0 .. QuotaFaults
    /\ turns \subseteq 0 .. Days /\ strays \subseteq 1 .. Days /\ lost \subseteq 1 .. Days

QuotaInit ==
    /\ today = 1 /\ gate = NewGate(0) /\ file = NoFile /\ gateFailed = FALSE
    /\ holder = FreeGate /\ poll = NoPoll /\ status = "other"
    /\ tried = 0 /\ sent = [d \in 1 .. Days |-> 0] /\ marks = 0
    /\ quotaFaults = QuotaFaults /\ turns = {} /\ strays = {} /\ lost = {}

-----------------------------------------------------------------------------
(* SolcastBudget *)

QuotaFault  == quotaFaults > 0 /\ quotaFaults' = quotaFaults - 1

\* A mutant for TLC: one call too few held back.
HeldBackLess(g)  == g.released # today /\ Calls - g.used < Sites

Rolled(g)   == IF g.day < today THEN [g EXCEPT !.day = today, !.used = 0, !.until = 0] ELSE g
Exhausted   == gate.until > today
FirstTaken(g) == [g EXCEPT !.pending = FALSE]
HeldBack(g) == g.released # today /\ Calls - (g.used + 1) < Sites
Refuses(g, reserved) ==
    g.day > today \/ g.until > today \/ g.used >= Calls \/ (~reserved /\ HeldBack(g))

\* A save that fails, or is not read back, closes the gate.
SaveQuota(g) ==
    /\ gate' = g
    /\ \/ file' = g /\ UNCHANGED <<gateFailed, quotaFaults>>
       \/ QuotaFault /\ file' \in {file, g} /\ gateFailed' = TRUE

\* The first load after a start.  A file that does not parse costs the day; the store moves it
\* away before that can be saved, and a start without a file counts from nothing.
Load(f) ==
    \/ /\ gateFailed' = FALSE
       /\ gate' = IF f \in Quota THEN f ELSE NewGate(IF f = NoFile THEN 0 ELSE Spent)
       /\ file' \in IF f = Unreadable THEN {NoFile, Unreadable} ELSE {f}
       /\ holder' = IF f = Unreadable THEN [FreeGate EXCEPT !.pc = "recovering"] ELSE FreeGate
       /\ lost' = lost \union {d \in 1 .. Days : f \notin Quota /\ sent[d] > 0
                                   /\ (d > today \/ (d = today /\ f = NoFile))}
    \/ gateFailed' = TRUE /\ gate' = NewGate(0) /\ file' = f /\ holder' = FreeGate
       /\ UNCHANGED lost

\* The save of a spent day fails, or an entry that unloads meanwhile leaves it out.
Recover ==
    /\ holder.pc = "recovering" /\ holder' = FreeGate
    /\ SaveQuota(gate) \/ UNCHANGED store
    /\ UNCHANGED <<today, poll, status, tried, sent, marks, history>>

-----------------------------------------------------------------------------
(* Polls *)

\* A reserved poll goes on to its release, whatever came of it.
Finish(outcome) ==
    /\ status' = IF outcome = "auth_failed" THEN outcome ELSE "other"
    /\ IF poll.kind = "reserved"
       THEN poll' = [NoPoll EXCEPT !.kind = "release"] /\ turns' = turns \union {tried}
       ELSE poll' = NoPoll /\ UNCHANGED turns

\* async_finish_reserved waits for the gate; what it marks is the day it comes to.
ReleaseDay ==
    /\ poll.kind = "release" /\ holder = FreeGate /\ poll' = NoPoll
    /\ IF gateFailed THEN UNCHANGED store ELSE SaveQuota([gate EXCEPT !.released = today])
    /\ UNCHANGED <<today, holder, status, tried, sent, marks, history>>

Declined(who) ==
    /\ holder' = FreeGate
    /\ IF who = "flow" THEN UNCHANGED <<poll, status, turns>> ELSE Finish("declined")

\* async_request up to the save: one call is charged, to the day that has come.
Charge(who, reserved) ==
    /\ \/ gateFailed /\ Declined(who) /\ UNCHANGED gate
       \/ ~gateFailed /\ Refuses(Rolled(gate), reserved) /\ gate' = Rolled(gate) /\ Declined(who)
       \/ /\ ~gateFailed /\ ~Refuses(Rolled(gate), reserved)
          /\ gate' = [Rolled(gate) EXCEPT !.used = @ + 1]
          /\ holder' = [who |-> who, pc |-> "saving"] /\ UNCHANGED <<poll, status, turns>>
    /\ UNCHANGED <<file, gateFailed, quotaFaults>>

Starts(kind) ==
    /\ poll = NoPoll /\ status # "auth_failed" /\ poll' = [NoPoll EXCEPT !.kind = kind]
    /\ UNCHANGED <<today, holder, status, sent, marks, turns, lost>>

DayPoll == Starts("day") /\ ~Exhausted /\ UNCHANGED <<store, tried, strays>>

\* At its instant, or late within twenty minutes of it, which may be after midnight.
ReservedPoll ==
    /\ Starts("reserved") /\ UNCHANGED store
    /\ \/ tried # today /\ ~Exhausted /\ tried' = today /\ UNCHANGED strays
       \/ /\ tried > 0 /\ today \in {tried, tried + 1} /\ gate.released # today
          /\ strays' = strays \union ({today} \ {tried}) /\ UNCHANGED tried

\* A reserved instant without a poll: another is under way, or the account is exhausted.
ReservedPasses ==
    /\ poll.kind \notin {"reserved", "release"} /\ tried # today /\ tried' = today
    /\ UNCHANGED <<today, store, holder, poll, status, sent, marks, history>>

\* The mark of a new key is used up before its fetch.
FirstFetch ==
    /\ gate.pending /\ ~gateFailed /\ holder = FreeGate /\ SaveQuota(FirstTaken(gate))
    /\ IF gateFailed' THEN UNCHANGED <<today, holder, poll, status, sent, marks, turns, lost>>
       ELSE Starts("first")
    /\ UNCHANGED <<tried, strays>>

PollAsks ==
    /\ poll.kind \in Asking /\ holder = FreeGate /\ Charge("poll", poll.kind = "reserved")
    /\ UNCHANGED <<today, tried, sent, marks, strays, lost>>

FlowAsks ==
    /\ holder = FreeGate /\ marks < Days /\ Charge("flow", FALSE)
    /\ UNCHANGED <<today, tried, sent, marks, strays, lost>>

\* The save may straddle midnight: then the new day is charged before the call is sent.
Dispatch ==
    /\ holder.pc = "saving"
    /\ IF gate.day = today
       THEN /\ file' = gate /\ sent' = [sent EXCEPT ![today] = @ + 1]
            /\ holder' = [holder EXCEPT !.pc = "sent"]
            /\ UNCHANGED <<gate, gateFailed, quotaFaults, poll, status, turns>>
       ELSE Charge(holder.who, holder.who = "poll" /\ poll.kind = "reserved") /\ UNCHANGED sent
    /\ UNCHANGED <<today, tried, marks, strays, lost>>

ChargeFails ==
    /\ holder.pc = "saving" /\ QuotaFault
    /\ file' \in {file, gate} /\ gateFailed' = TRUE /\ Declined(holder.who)
    /\ UNCHANGED <<today, gate, tried, sent, marks, strays, lost>>

\* The service says how long the account is exhausted: until the next UTC day.
Exhaust ==
    LET g == IF gate.day < today THEN [gate EXCEPT !.day = today, !.used = 0] ELSE gate IN
    SaveQuota([g EXCEPT !.until = today + 1])

PollAnswered(outcome) ==
    /\ holder.pc = "sent" /\ holder.who = "poll" /\ holder' = FreeGate
    /\ IF outcome = "quota_exhausted" THEN Exhaust ELSE UNCHANGED store
    /\ LET busy == outcome = "busy" /\ poll.retries < 2
           more == outcome = "ok" /\ poll.site + 1 < Sites
       IN  \/ busy /\ poll' = [poll EXCEPT !.retries = @ + 1] /\ UNCHANGED <<status, turns>>
           \/ more /\ poll' = [poll EXCEPT !.site = @ + 1] /\ UNCHANGED <<status, turns>>
           \/ ~busy /\ ~more /\ Finish(outcome)
    /\ UNCHANGED <<today, tried, sent, marks, strays, lost>>

\* A flow that accepts a key marks its first fetch before saving the entry, which reloads it.
FlowAnswered(outcome) ==
    /\ holder.pc = "sent" /\ holder.who = "flow" /\ holder' = FreeGate
    /\ \/ /\ outcome = "ok" /\ SaveQuota([gate EXCEPT !.pending = TRUE]) /\ marks' = marks + 1
          /\ IF gateFailed' THEN UNCHANGED <<poll, status>> ELSE poll' = NoPoll /\ status' = "other"
       \/ outcome = "quota_exhausted" /\ Exhaust /\ UNCHANGED <<marks, poll, status>>
       \/ outcome \notin {"ok", "quota_exhausted"} /\ UNCHANGED <<store, marks, poll, status>>
    /\ UNCHANGED <<today, tried, sent, history>>

-----------------------------------------------------------------------------
(* Days, reloads and restarts *)

DayChanges ==
    /\ strays' = IF poll.kind \in {"reserved", "release"} THEN strays \union {today'} ELSE strays
    /\ UNCHANGED <<gate, file, gateFailed, holder, poll, status, tried, sent, marks, turns, lost>>

Midnight == today < Days /\ today' = today + 1 /\ UNCHANGED quotaFaults /\ DayChanges

\* A wrong clock is corrected.
ClockBack == today > 1 /\ QuotaFault /\ today' = today - 1 /\ DayChanges

\* The midnight timer rolls the count without a call.
RollOver ==
    /\ holder = FreeGate /\ ~gateFailed /\ gate.day < today /\ SaveQuota(Rolled(gate))
    /\ UNCHANGED <<today, holder, poll, status, tried, sent, marks, history>>

\* A new charge window is learned: only the save matters here.
LearnWindow ==
    /\ holder = FreeGate /\ ~gateFailed /\ SaveQuota(gate)
    /\ UNCHANGED <<today, holder, poll, status, tried, sent, marks, history>>

\* A reload cancels the poll; the write it waits for is drained, and the gate is kept.
Reload ==
    /\ QuotaFault /\ poll # NoPoll /\ poll' = NoPoll
    /\ IF holder.who = "poll" THEN holder' = FreeGate ELSE UNCHANGED holder
    /\ IF holder = [who |-> "poll", pc |-> "saving"] THEN file' \in {file, gate} ELSE UNCHANGED file
    /\ UNCHANGED <<today, gate, gateFailed, status, tried, sent, marks, history>>

\* Home Assistant stops at any moment; by its next start the file may not parse.
Crash ==
    /\ QuotaFault /\ poll' = NoPoll
    /\ Load(file) \/ Load(Unreadable) \/ (holder.pc = "saving" /\ Load(gate))
    /\ UNCHANGED <<today, status, tried, sent, marks, turns, strays>>

QuotaNext ==
    \/ DayPoll \/ ReservedPoll \/ ReservedPasses \/ FirstFetch \/ PollAsks \/ ReleaseDay
    \/ FlowAsks \/ Dispatch \/ ChargeFails
    \/ (\E o \in {"ok", "auth_failed", "quota_exhausted", "busy", "stale"} :
            PollAnswered(o) \/ FlowAnswered(o))
    \/ Midnight \/ ClockBack \/ RollOver \/ LearnWindow \/ Reload \/ Crash \/ Recover

QuotaSpec == QuotaInit /\ [][QuotaNext]_quotaVars

-----------------------------------------------------------------------------
(* Properties *)

\* Whatever is lost, reloaded or straddled, no UTC day sees more calls than the account has,
\* unless the store forgot calls of that day: a start found no file, because the repair of one
\* that did not parse was not saved, or found none readable and the clock before days called.
QuotaHeld == \A d \in (1 .. Days) \ lost : sent[d] <= Calls

\* Nor does any call but the reserved poll's own leave a day less than a call per site before
\* the day's own reserved poll has had its last answer.  Left out are days that the reserved
\* poll of another day runs into: async_finish_reserved marks the day on which it ends.
QuotaKept ==
    [][/\ QuotaHeld'
       /\ sent' # sent /\ ~(holder.who = "poll" /\ poll.kind = "reserved")
          /\ today \notin turns \union strays \union lost
            => sent'[today] + Sites <= Calls]_quotaVars
=============================================================================
