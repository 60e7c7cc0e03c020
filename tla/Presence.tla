------------------------------ MODULE Presence ------------------------------
(***************************************************************************)
(* Presence of one session or machine (agentrejoin-server,                 *)
(* sources/app/presence): heartbeats go through the activity cache, which  *)
(* validates them against the database and writes only some of them, in    *)
(* batches; a sweep marks what has been silent for ten minutes inactive;   *)
(* 'session-end' and the archive route write past the cache.               *)
(*                                                                         *)
(* Instants are kept as ages, counted in ticks and no further than they    *)
(* matter, so that time needs no bound.  Between two ticks a running agent *)
(* sends a heartbeat, the batch timer fires (every 5 s, so at least once), *)
(* and the database answers what it was asked for heartbeats and flushes.  *)
(***************************************************************************)
EXTENDS Integers, FiniteSets

CONSTANTS Handlers,     \* heartbeats whose handler awaits the database at one time
          TTL,          \* CACHE_TTL in ticks
          Threshold,    \* UPDATE_THRESHOLD in ticks
          Timeout,      \* the sweep's ten minutes in ticks
          MaxDelay,     \* bound: age of a heartbeat's time when it arrives
          MaxUpsets     \* bound: archive requests and restarts of the server

(* A session's heartbeat comes every 2 s: in ticks of the batch timer's    *)
(* 5 s TTL and Threshold are 6 and Timeout is 120.  A machine's comes every*)
(* 20 s: in ticks of that they are 2, 1 and 30.  An entry outlives one     *)
(* batch, and heartbeats are not under way for anything like ten minutes.  *)
ASSUME TimesAssumption == /\ {TTL, Threshold, Timeout, MaxDelay, MaxUpsets} \subseteq Nat
                          /\ TTL >= 2
                          /\ Timeout > Threshold + 2 * MaxDelay + 4

VARIABLES kind,         \* "session" or "machine"; stays what it is
          agent,        \* "running" | "silent" (crashed, offline) | "ended"
          db,           \* the row: active, and the age of lastActiveAt
          cache,        \* the row's cache entry
          alive,        \* heartbeat handlers that wait for the database
          writes,       \* timestamps (as ages) that flushes are writing
          sweep,        \* has the sweep found the row, and not marked it yet?
          upsets,       \* archive requests and restarts so far
          flushed,      \* the batch timer has fired in this tick
          beat,         \* history: a heartbeat arrived in this tick
          streak        \* history: ticks with a heartbeat, and no failure, in a row

presenceVars == <<kind, agent, db, cache, alive, writes, sweep, upsets, flushed, beat, streak>>

Cap(n, most) == IF n > most THEN most ELSE n
Apart(m, n) == IF m > n THEN m - n ELSE n - m

None == -1              \* pendingUpdate: null
Patience == Threshold + MaxDelay + 4 \* ticks until a heartbeat is sure to be in the database
SentMost == Threshold + MaxDelay + 1

NoEntry == [present |-> FALSE, age |-> 0, sent |-> 0, pending |-> None, active |-> FALSE]
NoAlive == [phase |-> "none", t |-> 0, sent |-> 0, active |-> FALSE]

Valid == cache.present /\ cache.age < TTL

(* queueSessionUpdate and queueMachineUpdate on an entry of the cache.     *)
Queued(entry, t) ==
    IF Apart(entry.sent, t) > Threshold \/ (kind = "machine" /\ ~entry.active)
    THEN [entry EXCEPT !.pending = t]
    ELSE entry

-----------------------------------------------------------------------------
(* 'session-alive' and 'machine-alive'.                                    *)

AliveHit(t) ==
    /\ agent = "running" /\ Valid
    /\ cache' = Queued(cache, t)
    /\ beat' = TRUE
    /\ UNCHANGED <<kind, agent, db, alive, writes, sweep, upsets, flushed, streak>>

AliveMiss(h, t) ==
    /\ agent = "running" /\ ~Valid
    /\ alive[h].phase = "none"
    /\ alive' = [alive EXCEPT ![h] = [NoAlive EXCEPT !.phase = "asking", !.t = t]]
    /\ beat' = TRUE
    /\ UNCHANGED <<kind, agent, db, cache, writes, sweep, upsets, flushed, streak>>

AliveRead(h) ==
    /\ alive[h].phase = "asking"
    /\ alive' = [alive EXCEPT ![h].phase = "read", ![h].active = db.active,
                              ![h].sent = Cap(db.age, SentMost)]
    /\ UNCHANGED <<kind, agent, db, cache, writes, sweep, upsets, flushed, beat, streak>>

(* The entry is replaced, whatever other handlers put into it meanwhile.   *)
MutAliveCached(h) ==     \* mutant: the entry's timestamp is now, not lastActiveAt
    /\ alive[h].phase = "read"
    /\ cache' = Queued([present |-> TRUE, age |-> 0, sent |-> 0,
                        pending |-> None, active |-> alive[h].active], alive[h].t)
    /\ alive' = [alive EXCEPT ![h] = NoAlive]
    /\ UNCHANGED <<kind, agent, db, writes, sweep, upsets, flushed, beat, streak>>
AliveCached(h) ==
    /\ alive[h].phase = "read"
    /\ cache' = Queued([present |-> TRUE, age |-> 0, sent |-> alive[h].sent,
                        pending |-> None, active |-> alive[h].active], alive[h].t)
    /\ alive' = [alive EXCEPT ![h] = NoAlive]
    /\ UNCHANGED <<kind, agent, db, writes, sweep, upsets, flushed, beat, streak>>

(* The database fails the lookup: the heartbeat is not valid.              *)
AliveFails(h) ==
    /\ alive[h].phase = "asking"
    /\ alive' = [alive EXCEPT ![h] = NoAlive]
    /\ streak' = 0
    /\ UNCHANGED <<kind, agent, db, cache, writes, sweep, upsets, flushed, beat>>

-----------------------------------------------------------------------------
(* flushPendingUpdates and cleanup.                                        *)

FlushCollects ==
    /\ ~flushed \/ cache.pending # None
    /\ flushed' = TRUE
    /\ IF cache.pending # None
       THEN /\ writes' = writes \union {cache.pending}
            /\ cache' = [cache EXCEPT !.sent = cache.pending, !.pending = None,
                                      !.active = TRUE]
       ELSE UNCHANGED <<writes, cache>>
    /\ UNCHANGED <<kind, agent, db, alive, sweep, upsets, beat, streak>>

MutFlushWrites(t) ==     \* mutant: lastActiveAt without active
    /\ t \in writes
    /\ writes' = writes \ {t}
    /\ db' = [db EXCEPT !.age = t]
    /\ UNCHANGED <<kind, agent, cache, alive, sweep, upsets, flushed, beat, streak>>
FlushWrites(t) ==
    /\ t \in writes
    /\ writes' = writes \ {t}
    /\ db' = [active |-> TRUE, age |-> t]
    /\ UNCHANGED <<kind, agent, cache, alive, sweep, upsets, flushed, beat, streak>>

(* The error is logged; lastUpdateSent says that it was written.           *)
FlushFails(t) ==
    /\ t \in writes
    /\ writes' = writes \ {t}
    /\ streak' = 0
    /\ UNCHANGED <<kind, agent, db, cache, alive, sweep, upsets, flushed, beat>>

(* cleanup: an expired entry goes, with a pending update it may have.      *)
Cleanup ==
    /\ cache.present /\ cache.age >= TTL
    /\ cache' = NoEntry
    /\ UNCHANGED <<kind, agent, db, alive, writes, sweep, upsets, flushed, beat, streak>>

-----------------------------------------------------------------------------
(* The sweep of timeout.ts: two statements, without a transaction.         *)

SweepFinds ==
    /\ ~sweep
    /\ db.active /\ db.age >= Timeout
    /\ sweep' = TRUE
    /\ UNCHANGED <<kind, agent, db, cache, alive, writes, upsets, flushed, beat, streak>>

(* where: { id, active: true } - silence is not looked at again.           *)
MutSweepMarks ==         \* mutant: the update is forgotten
    /\ sweep
    /\ sweep' = FALSE
    /\ UNCHANGED <<kind, agent, db, cache, alive, writes, upsets, flushed, beat, streak>>
SweepMarks ==
    /\ sweep
    /\ sweep' = FALSE
    /\ db' = [db EXCEPT !.active = FALSE]
    /\ UNCHANGED <<kind, agent, cache, alive, writes, upsets, flushed, beat, streak>>

-----------------------------------------------------------------------------
(* The agent, and what writes past the cache.                              *)

(* 'session-end' is handled: the agent's last word.                        *)
SessionEnd(t) ==
    /\ kind = "session" /\ agent = "running"
    /\ agent' = "ended"
    /\ db' = [active |-> FALSE, age |-> t]
    /\ streak' = 0
    /\ UNCHANGED <<kind, cache, alive, writes, sweep, upsets, flushed, beat>>

(* POST /v1/sessions/:id/archive                                           *)
Archive ==
    /\ kind = "session" /\ db # [active |-> FALSE, age |-> 0]
    /\ upsets < MaxUpsets /\ upsets' = upsets + 1
    /\ db' = [active |-> FALSE, age |-> 0]
    /\ UNCHANGED <<kind, agent, cache, alive, writes, sweep, flushed, beat, streak>>

(* 'machine-update-state' writes active and lastActiveAt itself.           *)
MachineState ==
    /\ kind = "machine" /\ agent = "running"
    /\ db' = [active |-> TRUE, age |-> 0]
    /\ UNCHANGED <<kind, agent, cache, alive, writes, sweep, upsets, flushed, beat, streak>>

(* A crash, a lost connection, or the daemon's end.                        *)
FallSilent ==
    /\ agent = "running"
    /\ agent' = "silent"
    /\ streak' = 0
    /\ UNCHANGED <<kind, db, cache, alive, writes, sweep, upsets, flushed, beat>>

(* The agent is back, or the session is resumed.                           *)
Resume ==
    /\ agent # "running"
    /\ agent' = "running"
    /\ UNCHANGED <<kind, db, cache, alive, writes, sweep, upsets, flushed, beat, streak>>

(* The server is restarted: the cache and everything in flight are gone,   *)
(* unless shutdown() flushes, which is FlushCollects.                      *)
Restart ==
    /\ upsets < MaxUpsets /\ upsets' = upsets + 1
    /\ cache' = NoEntry
    /\ alive' = [h \in Handlers |-> NoAlive]
    /\ writes' = {} /\ sweep' = FALSE
    /\ streak' = 0
    /\ UNCHANGED <<kind, agent, db, flushed, beat>>

Tick ==
    /\ agent = "running" => beat
    /\ \A h \in Handlers : alive[h].phase = "none"
    /\ writes = {}
    /\ flushed /\ flushed' = FALSE
    /\ db' = [db EXCEPT !.age = Cap(db.age + 1, Timeout)]
    /\ cache' = IF ~cache.present THEN cache
                ELSE [cache EXCEPT !.age = Cap(cache.age + 1, TTL),
                                   !.sent = Cap(cache.sent + 1, SentMost),
                                   !.pending = IF @ = None THEN None ELSE @ + 1]
    /\ streak' = IF beat THEN Cap(streak + 1, Patience) ELSE 0
    /\ beat' = FALSE
    /\ UNCHANGED <<kind, agent, alive, writes, sweep, upsets>>

-----------------------------------------------------------------------------
(* A session is created active, a machine inactive; both with lastActiveAt *)
(* now.                                                                    *)
PresenceInit ==
    /\ kind \in {"session", "machine"}
    /\ agent = "running"
    /\ db = [active |-> kind = "session", age |-> 0]
    /\ cache = NoEntry
    /\ alive = [h \in Handlers |-> NoAlive]
    /\ writes = {} /\ sweep = FALSE
    /\ upsets = 0 /\ flushed = FALSE /\ beat = FALSE /\ streak = 0

Heartbeat == \E t \in 0 .. MaxDelay : AliveHit(t) \/ \E h \in Handlers : AliveMiss(h, t)

PresenceNext ==
    \/ \E t \in 0 .. MaxDelay : AliveHit(t) \/ SessionEnd(t)
                                \/ \E h \in Handlers : AliveMiss(h, t)
    \/ \E h \in Handlers : AliveRead(h) \/ AliveCached(h) \/ AliveFails(h)
    \/ FlushCollects \/ Cleanup
    \/ \E t \in writes : FlushWrites(t) \/ FlushFails(t)
    \/ SweepFinds \/ SweepMarks
    \/ Archive \/ MachineState
    \/ FallSilent \/ Resume \/ Restart \/ Tick

PresenceSpec == PresenceInit /\ [][PresenceNext]_presenceVars

(* Time passes, timers fire, and the database does not fail for ever.      *)
PresenceFairness ==
    /\ WF_presenceVars(Tick) /\ WF_presenceVars(SweepFinds \/ SweepMarks)
    /\ WF_presenceVars(Heartbeat) /\ WF_presenceVars(FlushCollects)
    /\ WF_presenceVars(\E h \in Handlers : AliveCached(h))
    /\ SF_presenceVars(\E h \in Handlers : AliveRead(h))
    /\ SF_presenceVars(\E t \in writes : FlushWrites(t))

PresenceLiveSpec == PresenceSpec /\ PresenceFairness

-----------------------------------------------------------------------------
(* Every variable has its type, and an update waits for the batch timer for*)
(* one tick at most.                                                       *)
PresenceTypeOK ==
    LET ages == 0 .. MaxDelay + 1
    IN  /\ agent \in {"running", "silent", "ended"}
        /\ db \in [active : BOOLEAN, age : 0 .. Timeout]
        /\ cache \in [present : BOOLEAN, age : 0 .. TTL, sent : 0 .. SentMost,
                      pending : ages \union {None}, active : BOOLEAN]
        /\ alive \in [Handlers -> [phase : {"none", "asking", "read"}, t : 0 .. MaxDelay,
                                   sent : 0 .. SentMost, active : BOOLEAN]]
        /\ writes \subseteq ages
        /\ sweep \in BOOLEAN /\ upsets \in 0 .. MaxUpsets /\ flushed \in BOOLEAN
        /\ beat \in BOOLEAN /\ streak \in 0 .. Patience

(* The sweep never picks an agent that has sent heartbeats for some ticks: *)
(* what the cache skips, a replaced entry and a cleanup do not add up to a *)
(* live agent that looks dead for ten minutes.                             *)
SweepSparesTheLive == [][~sweep /\ sweep' => streak < Patience]_presenceVars

(* The protocol document says that session-end marks the session inactive: *)
(* it stays so until the session is resumed.                               *)
EndedIsInactive == agent = "ended" => ~db.active

(* An agent that keeps running becomes active.                             *)
RunningBecomesActive == (agent = "running") ~> (db.active \/ agent # "running")

(* An agent that is gone for good ends up inactive, and stays so.          *)
GoneBecomesInactive == <>[](agent # "running") => <>[](~db.active)

=============================================================================
