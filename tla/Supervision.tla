---------------------------- MODULE Supervision ----------------------------
(***************************************************************************)
(* The worker and scheduler processes under concurrently, which restarts   *)
(* whatever exits with an error: the watch on a worker's run loop, the     *)
(* heartbeat the API reads, the way out at a signal, and the registration  *)
(* of the repeatable jobs by schedulers that start side by side.           *)
(***************************************************************************)
EXTENDS Naturals, FiniteSets

CONSTANTS
    Workers,        \* one for each queue
    Schedulers,     \* replicas of the scheduler
    Names,          \* the repeatable jobs it registers
    Patterns,       \* how often they have been told to repeat, over time
    Pattern,        \* how often they are to repeat now
    Budget          \* bound: deaths, stopped run loops, outages of Redis

SupervisionAssumption == Pattern \in Patterns /\ Schedulers # {} /\ Budget \in Nat

VARIABLES
    proc,           \* where each process is
    registering,    \* of each scheduler and name: what it does about it
    registered,     \* the registrations at Redis
    beats,          \* the workers whose heartbeat key exists
    redis,          \* whether Redis can be reached, and whether it always could
    stop,           \* the whole tree was signalled
    excused,        \* history: the processes that were failing at that moment, or crashed after it
    faults          \* counts towards Budget

vars == << proc, registering, registered, beats, redis, stop, excused, faults >>

Processes == Workers \cup Schedulers
Live == { "up", "wedged", "dying", "clearing", "closing" }

\* A scheduler lists a name's registrations, removes them one by one and adds its own.
Registering == [ at : { "list", "remove", "done" }, keys : SUBSET Patterns ]
Listing == [ at |-> "list", keys |-> {} ]

TypeOK ==
    /\ proc \in [ Processes -> Live \cup { "restarting", "gone" } ]
    /\ registering \in [ Schedulers \X Names -> Registering ]
    /\ registered \subseteq Names \X Patterns
    /\ beats \subseteq Workers
    /\ redis \in [ reachable : BOOLEAN, always : BOOLEAN ]
    /\ stop \in BOOLEAN /\ excused \subseteq Processes /\ faults \in 0 .. Budget

Init ==
    /\ proc = [ p \in Processes |-> "restarting" ]
    /\ registering = [ x \in Schedulers \X Names |-> Listing ]
    /\ registered \in SUBSET (Names \X Patterns)
    /\ beats = {}
    /\ redis = [ reachable |-> TRUE, always |-> TRUE ]
    /\ stop = FALSE /\ excused = {} /\ faults = 0

Strikes == faults < Budget /\ faults' = faults + 1
Becomes(p, state) == proc' = [ proc EXCEPT ![p] = state ]

\* superviseWorker writes the heartbeat at once and then at every check; what is
\* sent to a Redis that is away arrives later, with a later beat.
WriteHeartbeat(p) ==
    beats' = IF p \in Workers /\ redis.reachable THEN beats \cup {p} ELSE beats

\* withTimeout: the key is deleted, or the deadline passes first.
ClearHeartbeat(p) == beats' = IF redis.reachable THEN beats \ {p} ELSE beats

-----------------------------------------------------------------------------
(* A process and its end                                                   *)

\* concurrently starts it, and again whenever it exits with an error.
Start(p) ==
    /\ proc[p] = "restarting"
    /\ Becomes(p, "up")
    /\ WriteHeartbeat(p)
    /\ registering' = [ x \in DOMAIN registering |-> IF x[1] = p THEN Listing ELSE registering[x] ]
    /\ UNCHANGED << registered, redis, stop, excused, faults >>

ExitsWith(p, code) == Becomes(p, IF code = 0 THEN "gone" ELSE "restarting")

\* BullMQ's run loop ends, the process lives on.
RunLoopEnds(w) ==
    /\ Strikes
    /\ proc[w] = "up"
    /\ Becomes(w, "wedged")
    /\ UNCHANGED << registering, registered, beats, redis, stop, excused >>

\* The check every 30 seconds, until the process is stopping.
Check(w) ==
    \/ /\ proc[w] = "up"
       /\ WriteHeartbeat(w)
       /\ UNCHANGED << proc, registering, registered, redis, stop, excused, faults >>
    \/ /\ proc[w] = "wedged"
       /\ Becomes(w, "dying")
       /\ UNCHANGED << registering, registered, beats, redis, stop, excused, faults >>

WatchExits(w) ==
    /\ proc[w] = "dying"
    /\ ClearHeartbeat(w)
    /\ ExitsWith(w, 1)
    /\ UNCHANGED << registering, registered, redis, stop, excused, faults >>

\* A crash or a kill.  Its heartbeat stays.
Dies(p) ==
    /\ Strikes
    /\ proc[p] \in Live
    /\ ExitsWith(p, 1)
    /\ excused' = IF stop THEN excused \cup {p} ELSE excused
    /\ UNCHANGED << registering, registered, beats, redis, stop >>

\* A fault: the scheduler has no handler, dies by the signal and is started again.
Signal_Fault ==
    /\ ~ stop
    /\ stop' = TRUE
    /\ excused' = { p \in Processes : proc[p] \in { "dying", "restarting" } }
    /\ proc' = [ p \in Processes |->
         IF proc[p] \in { "up", "wedged" } THEN IF p \in Workers THEN "clearing" ELSE "restarting" ELSE proc[p] ]
    /\ UNCHANGED << registering, registered, beats, redis, faults >>

\* exitOnSignals: one that the watch is about to end may end either way.
Signal ==
    /\ ~ stop
    /\ stop' = TRUE
    /\ excused' = { p \in Processes : proc[p] \in { "dying", "restarting" } }
    /\ proc' = [ p \in Processes |->
         IF proc[p] \in { "up", "wedged" } THEN IF p \in Workers THEN "clearing" ELSE "closing" ELSE proc[p] ]
    /\ UNCHANGED << registering, registered, beats, redis, faults >>

Cleans(w) ==
    /\ proc[w] = "clearing"
    /\ ClearHeartbeat(w)
    /\ Becomes(w, "closing")
    /\ UNCHANGED << registering, registered, redis, stop, excused, faults >>

\* worker.close or queue.close, or the deadline.
Exits(p) ==
    /\ proc[p] = "closing" \/ (proc[p] = "dying" /\ stop)
    /\ ExitsWith(p, 0)
    /\ UNCHANGED << registering, registered, beats, redis, stop, excused, faults >>

\* A key nobody refreshes goes after ten minutes.
Expires(w) ==
    /\ w \in beats /\ proc[w] \notin Live
    /\ beats' = beats \ {w}
    /\ UNCHANGED << proc, registering, registered, redis, stop, excused, faults >>

RedisLeaves ==
    /\ Strikes
    /\ redis.reachable
    /\ redis' = [ reachable |-> FALSE, always |-> FALSE ]
    /\ UNCHANGED << proc, registering, registered, beats, stop, excused >>

RedisReturns ==
    /\ ~ redis.reachable
    /\ redis' = [ redis EXCEPT !.reachable = TRUE ]
    /\ UNCHANGED << proc, registering, registered, beats, stop, excused, faults >>

\* isWorkerAlive, when the API asks.
SaidAlive(w) == redis.reachable => w \in beats

-----------------------------------------------------------------------------
(* The schedulers                                                          *)

Registers(s, n) == proc[s] \in { "up", "closing" } /\ redis.reachable /\ registering[<< s, n >>].at # "done"

List(s, n) ==
    /\ Registers(s, n) /\ registering[<< s, n >>].at = "list"
    /\ registering' = [ registering EXCEPT ![<< s, n >>] =
         [ at |-> "remove", keys |-> { pattern \in Patterns : << n, pattern >> \in registered } ] ]
    /\ UNCHANGED << proc, registered, beats, redis, stop, excused, faults >>

\* removeRepeatableByKey of a registration that another scheduler removed is no error.
Remove(s, n, pattern) ==
    /\ Registers(s, n) /\ pattern \in registering[<< s, n >>].keys
    /\ registered' = registered \ {<< n, pattern >>}
    /\ registering' = [ registering EXCEPT ![<< s, n >>].keys = @ \ {pattern} ]
    /\ UNCHANGED << proc, beats, redis, stop, excused, faults >>

\* A fault: it does not wait until the old ones are removed.
Add_Fault(s, n) ==
    /\ Registers(s, n) /\ registering[<< s, n >>].at = "remove"
    /\ registered' = registered \cup {<< n, Pattern >>}
    /\ registering' = [ registering EXCEPT ![<< s, n >>].at = "done" ]
    /\ UNCHANGED << proc, beats, redis, stop, excused, faults >>

\* The registration's key comes from the name and the pattern.
Add(s, n) ==
    /\ Registers(s, n) /\ registering[<< s, n >>] = [ at |-> "remove", keys |-> {} ]
    /\ registered' = registered \cup {<< n, Pattern >>}
    /\ registering' = [ registering EXCEPT ![<< s, n >>].at = "done" ]
    /\ UNCHANGED << proc, beats, redis, stop, excused, faults >>

Next ==
    \/ \E p \in Processes : Start(p) \/ Dies(p) \/ Exits(p)
    \/ \E w \in Workers : RunLoopEnds(w) \/ Check(w) \/ WatchExits(w) \/ Cleans(w) \/ Expires(w)
    \/ \E s \in Schedulers, n \in Names :
        List(s, n) \/ Add(s, n) \/ \E pattern \in Patterns : Remove(s, n, pattern)
    \/ Signal \/ RedisLeaves \/ RedisReturns

Spec == Init /\ [][Next]_vars

-----------------------------------------------------------------------------
\* Only a signal ends a process for good, and it ends every process that was
\* not failing already.
StopsForGood ==
    \A p \in Processes :
        /\ proc[p] = "gone" => stop
        /\ stop /\ proc[p] \in { "up", "wedged", "restarting" } => p \in excused

\* The API takes a worker for alive while it runs, and does not once it has
\* been shut down.
HeartbeatTells ==
    \A w \in Workers :
        /\ redis.always /\ proc[w] = "up" => SaidAlive(w)
        /\ redis.always /\ proc[w] = "gone" /\ w \notin excused => ~ SaidAlive(w)

\* When its schedulers have started, each repeatable job is registered once,
\* with the pattern it has now.
OneRegistration ==
    \A n \in Names :
        (\A s \in Schedulers : proc[s] = "up" /\ registering[<< s, n >>].at = "done")
        => { r \in registered : r[1] = n } = {<< n, Pattern >>}
=============================================================================
