-------------------------- MODULE WorkspaceProofs --------------------------
(***************************************************************************)
(* Proofs about Workspace, for any number of processes, users and          *)
(* requests.  The processes keep ProcessInv: whoever runs has its          *)
(* heartbeat, and whoever has listed a job's registrations knows the old   *)
(* ones.  The accounts keep AccountInv: what every request under way has   *)
(* read of the tables, and when that is still so, and what the page of     *)
(* users shows of them.  The list of messages keeps BrowseInv, the page of *)
(* one ReadInv: the order of its loads and parses.  The page of sources    *)
(* keeps PageInv: what each request under way has changed of the groups it *)
(* is about, and that nothing else differs.  The extraction keeps TextInv: *)
(* how far the heap can grow between samples.  No step leaves its side.    *)
(***************************************************************************)
EXTENDS Workspace, FiniteSetTheorems, SequenceTheorems, TLAPS

-----------------------------------------------------------------------------
(* The processes: only a signal ends one for good, the heartbeat tells      *)
(* which worker runs, and of each repeatable job one registration is left.  *)

StopInv ==
    \A p \in Processes!Processes :
        /\ proc[p] \in { "clearing", "closing", "gone" } => stop
        /\ stop /\ proc[p] \in { "up", "wedged", "dying", "restarting" } => p \in excused

BeatInv ==
    /\ redis.always => redis.reachable
    /\ \A w \in Workers :
        /\ redis.always /\ proc[w] = "up" => w \in beats
        /\ redis.always /\ proc[w] \in { "closing", "gone" } /\ w \notin excused => w \notin beats

\* Whoever has listed a job's registrations still knows the old ones to remove,
\* and one that removed the new one will add it again.
RegistrationInv ==
    \A n \in Names :
        /\ \A s \in Schedulers, q \in Patterns \ {Pattern} : << n, q >> \in registered =>
             /\ registering[<< s, n >>].at # "done"
             /\ registering[<< s, n >>].at = "remove" => q \in registering[<< s, n >>].keys
        /\ (\A s \in Schedulers : registering[<< s, n >>].at = "done") => << n, Pattern >> \in registered

ProcessTypes ==
    /\ proc \in [ Processes!Processes -> Processes!Live \cup { "restarting", "gone" } ]
    /\ registering \in [ Schedulers \X Names -> Processes!Registering ]
    /\ registered \subseteq Names \X Patterns
    /\ redis = [ reachable |-> redis.reachable, always |-> redis.always ]

ProcessInv == ProcessTypes /\ StopInv /\ BeatInv /\ RegistrationInv

LEMMA ProcessInit == Processes!Init => ProcessInv
<1> SUFFICES ASSUME Processes!Init PROVE ProcessInv
  OBVIOUS
<1>1. ProcessTypes
  <2>1. redis = [ reachable |-> redis.reachable, always |-> redis.always ]
    BY Zenon DEF Processes!Init
  <2>2. registering \in [ Schedulers \X Names -> Processes!Registering ]
    BY DEF Processes!Init, Processes!Listing, Processes!Registering
  <2> QED
    BY <2>1, <2>2 DEF Processes!Init, ProcessTypes
<1>2. StopInv /\ BeatInv
  BY DEF Processes!Init, StopInv, BeatInv, Processes!Processes
<1>3. RegistrationInv
  BY WorkspaceAssumption DEF Processes!SupervisionAssumption, Processes!Init, RegistrationInv, Processes!Listing
<1> QED
  BY <1>1, <1>2, <1>3 DEF ProcessInv

\* A process starts, ends or is told to end.
Lives ==
    \/ \E p \in Processes!Processes : Processes!Start(p) \/ Processes!Dies(p) \/ Processes!Exits(p)
    \/ \E w \in Workers : Processes!RunLoopEnds(w) \/ Processes!Check(w) \/ Processes!WatchExits(w)
       \/ Processes!Cleans(w) \/ Processes!Expires(w)
    \/ Processes!Signal \/ Processes!RedisLeaves \/ Processes!RedisReturns

Schedules(s, n) == Processes!List(s, n) \/ Processes!Add(s, n)
   \/ \E pattern \in Patterns : Processes!Remove(s, n, pattern)

LEMMA LivesTypes ==
  ASSUME ProcessTypes, Lives
  PROVE  ProcessTypes'
<1> USE DEF ProcessTypes
<1>1. proc' \in [ Processes!Processes -> Processes!Live \cup { "restarting", "gone" } ]
  BY DEF Lives, Processes!Start, Processes!Dies, Processes!Exits, Processes!RunLoopEnds, Processes!Check,
     Processes!WatchExits, Processes!Cleans, Processes!Expires, Processes!Signal, Processes!RedisLeaves,
     Processes!RedisReturns, Processes!Becomes, Processes!ExitsWith, Processes!Live
<1>2. registering' \in [ Schedulers \X Names -> Processes!Registering ]
  BY DEF Lives, Processes!Start, Processes!Dies, Processes!Exits, Processes!RunLoopEnds, Processes!Check,
     Processes!WatchExits, Processes!Cleans, Processes!Expires, Processes!Signal, Processes!RedisLeaves,
     Processes!RedisReturns, Processes!Registering, Processes!Listing
<1>3. registered' = registered
  BY DEF Lives, Processes!Start, Processes!Dies, Processes!Exits, Processes!RunLoopEnds, Processes!Check,
     Processes!WatchExits, Processes!Cleans, Processes!Expires, Processes!Signal, Processes!RedisLeaves,
     Processes!RedisReturns
<1>4. (redis = [ reachable |-> redis.reachable, always |-> redis.always ])'
  BY Zenon DEF Lives, Processes!Start, Processes!Dies, Processes!Exits, Processes!RunLoopEnds, Processes!Check,
     Processes!WatchExits, Processes!Cleans, Processes!Expires, Processes!Signal, Processes!RedisLeaves,
     Processes!RedisReturns
<1> QED
  BY <1>1, <1>2, <1>3, <1>4

LEMMA LivesStop ==
  ASSUME ProcessTypes, StopInv, Lives
  PROVE  StopInv'
  BY DEF ProcessTypes, StopInv, Lives, Processes!Start, Processes!Dies, Processes!Exits, Processes!RunLoopEnds,
     Processes!Check, Processes!WatchExits, Processes!Cleans, Processes!Expires, Processes!Signal,
     Processes!RedisLeaves, Processes!RedisReturns, Processes!Becomes, Processes!ExitsWith, Processes!Live,
     Processes!Processes

LEMMA LivesBeat ==
  ASSUME ProcessTypes, StopInv, BeatInv, Lives
  PROVE  BeatInv'
  BY DEF ProcessTypes, StopInv, BeatInv, Lives, Processes!Start, Processes!Dies, Processes!Exits,
     Processes!RunLoopEnds, Processes!Check, Processes!WatchExits, Processes!Cleans, Processes!Expires,
     Processes!Signal, Processes!RedisLeaves, Processes!RedisReturns, Processes!Becomes, Processes!ExitsWith,
     Processes!Live, Processes!Processes, Processes!WriteHeartbeat, Processes!ClearHeartbeat

LEMMA LivesRegistration ==
  ASSUME ProcessTypes, RegistrationInv, Lives
  PROVE  RegistrationInv'
<1>1. registered' = registered
  BY DEF Lives, Processes!Start, Processes!Dies, Processes!Exits, Processes!RunLoopEnds, Processes!Check,
     Processes!WatchExits, Processes!Cleans, Processes!Expires, Processes!Signal, Processes!RedisLeaves,
     Processes!RedisReturns
<1>2. \A s \in Schedulers, n \in Names :
        registering'[<< s, n >>] = registering[<< s, n >>] \/ registering'[<< s, n >>] = Processes!Listing
  BY DEF ProcessTypes, Lives, Processes!Start, Processes!Dies, Processes!Exits, Processes!RunLoopEnds,
     Processes!Check, Processes!WatchExits, Processes!Cleans, Processes!Expires, Processes!Signal,
     Processes!RedisLeaves, Processes!RedisReturns
<1> QED
  BY <1>1, <1>2 DEF RegistrationInv, Processes!Listing

LEMMA ScheduleSteps ==
  ASSUME ProcessInv, NEW s \in Schedulers, NEW n \in Names, Schedules(s, n)
  PROVE  ProcessInv'
<1>1. UNCHANGED << proc, beats, redis, stop, excused >>
  BY DEF Schedules, Processes!List, Processes!Add, Processes!Remove
<1>0. << s, n >> \in Schedulers \X Names /\ registering[<< s, n >>] \in Processes!Registering
  BY DEF ProcessInv, ProcessTypes
<1>2. ProcessTypes'
  <2>1. registering' \in [ Schedulers \X Names -> Processes!Registering ]
    <3>1. PICK v \in Processes!Registering : registering' = [ registering EXCEPT ![<< s, n >>] = v ]
      <4>1. CASE Processes!List(s, n)
        BY <4>1 DEF Processes!List, Processes!Registering
      <4>2. CASE Processes!Add(s, n)
        <5>1. [ registering[<< s, n >>] EXCEPT !.at = "done" ] \in Processes!Registering
          BY <1>0 DEF Processes!Registering
        <5> QED
          BY <4>2, <5>1 DEF Processes!Add
      <4>3. ASSUME NEW q \in Patterns, Processes!Remove(s, n, q)
            PROVE  \E v \in Processes!Registering : registering' = [ registering EXCEPT ![<< s, n >>] = v ]
        <5>1. [ registering[<< s, n >>] EXCEPT !.keys = @ \ {q} ] \in Processes!Registering
          BY <1>0 DEF Processes!Registering
        <5> QED
          BY <4>3, <5>1 DEF Processes!Remove
      <4> QED
        BY <4>1, <4>2, <4>3 DEF Schedules
    <3> QED
      BY <3>1 DEF ProcessInv, ProcessTypes
  <2>2. registered' \subseteq Names \X Patterns
    <3>1. registered' \subseteq registered \cup {<< n, Pattern >>}
      BY DEF Schedules, Processes!List, Processes!Add, Processes!Remove
    <3>2. << n, Pattern >> \in Names \X Patterns
      BY WorkspaceAssumption DEF Processes!SupervisionAssumption
    <3> QED
      BY <3>1, <3>2 DEF ProcessInv, ProcessTypes
  <2> QED
    BY <1>1, <2>1, <2>2 DEF ProcessInv, ProcessTypes
<1>3. StopInv' /\ BeatInv'
  BY <1>1 DEF ProcessInv, StopInv, BeatInv
<1>4. RegistrationInv'
  <2>0. /\ RegistrationInv
        /\ registering \in [ Schedulers \X Names -> Processes!Registering ]
    BY DEF ProcessInv, ProcessTypes
  <2>1. CASE Processes!List(s, n)
    BY <2>0, <2>1, <1>0 DEF RegistrationInv, Processes!List, Processes!Registering
  <2>2. CASE Processes!Add(s, n)
    BY <2>0, <2>2, <1>0, WorkspaceAssumption DEF Processes!SupervisionAssumption, RegistrationInv, Processes!Add,
       Processes!Registering
  <2>3. ASSUME NEW q \in Patterns, Processes!Remove(s, n, q) PROVE RegistrationInv'
    BY <2>0, <2>3, <1>0 DEF RegistrationInv, Processes!Remove, Processes!Registers, Processes!Registering
  <2> QED
    BY <2>1, <2>2, <2>3 DEF Schedules
<1> QED
  BY <1>2, <1>3, <1>4 DEF ProcessInv

LEMMA ProcessSteps == ProcessInv /\ [Processes!Next]_Processes!vars => ProcessInv'
<1> SUFFICES ASSUME ProcessInv, [Processes!Next]_Processes!vars PROVE ProcessInv'
  OBVIOUS
<1>1. CASE Lives
  BY <1>1, LivesTypes, LivesStop, LivesBeat, LivesRegistration DEF ProcessInv
<1>2. CASE \E s \in Schedulers, n \in Names : Schedules(s, n)
  BY <1>2, ScheduleSteps
<1>3. CASE UNCHANGED Processes!vars
  BY <1>3 DEF Processes!vars, ProcessInv, ProcessTypes, StopInv, BeatInv, RegistrationInv
<1> QED
  BY <1>1, <1>2, <1>3 DEF Processes!Next, Lives, Schedules

LEMMA ProcessesTell == ProcessInv => Processes!StopsForGood /\ Processes!HeartbeatTells /\ Processes!OneRegistration
<1> SUFFICES ASSUME ProcessInv PROVE Processes!StopsForGood /\ Processes!HeartbeatTells /\ Processes!OneRegistration
  OBVIOUS
<1>1. Processes!StopsForGood
  BY DEF ProcessInv, StopInv, Processes!StopsForGood
<1>2. Processes!HeartbeatTells
  BY DEF ProcessInv, BeatInv, Processes!HeartbeatTells, Processes!SaidAlive
<1>3. Processes!OneRegistration
  <2> SUFFICES ASSUME NEW n \in Names, \A s \in Schedulers : proc[s] = "up" /\ registering[<< s, n >>].at = "done"
               PROVE  { r \in registered : r[1] = n } = {<< n, Pattern >>}
    BY DEF Processes!OneRegistration
  <2>1. << n, Pattern >> \in registered
    BY DEF ProcessInv, RegistrationInv
  <2>2. \A q \in Patterns : << n, q >> \in registered => q = Pattern
    BY WorkspaceAssumption DEF Processes!SupervisionAssumption, ProcessInv, RegistrationInv
  <2> QED
    BY <2>1, <2>2 DEF ProcessInv, ProcessTypes
<1> QED
  BY <1>1, <1>2, <1>3
-----------------------------------------------------------------------------
(* The accounts                                                             *)

Persons == [ email : UserEmails, provider : { "local", "oidc" }, roles : SUBSET Roles ]
Phases == { "none", "sent", "refused", "counted", "checked", "assessed", "updated", "stripped", "given", "done" }
CallType ==
    [ op : { "none", "setup", "create", "update", "profile", "delete" }, phase : Phases, id : Users \cup {None},
      email : UserEmails \cup {None}, role : Roles \cup {None}, original : Persons \cup {None} ]

\* What a request holds in each of its phases.
CallFits(c) ==
    /\ calls[c].phase # "none" => calls[c].id \in Users
    /\ calls[c].phase = "none" => calls[c].id = None
    /\ calls[c].op \in { "setup", "create" } => calls[c].email \in UserEmails /\ calls[c].role \in Roles
    /\ calls[c].phase = "counted" => calls[c].op \in { "setup", "delete" }
    /\ calls[c].phase = "checked" => calls[c].op \in { "setup", "create" }
    /\ calls[c].phase \in { "assessed", "updated" } => calls[c].op \in { "update", "profile" }
    /\ calls[c].phase = "stripped" => calls[c].role \in Roles
    /\ calls[c].phase \in { "assessed", "updated", "stripped", "given" } /\ calls[c].op \in { "update", "profile" }
         => calls[c].original \in Persons
    /\ calls[c].op = "delete" => calls[c].phase \in { "sent", "refused", "counted", "done" }

AccountTypes ==
    /\ people \in [ Users -> Persons \cup {None} ]
    /\ roles \subseteq Roles
    /\ calls \in [ Accounts!Callers -> CallType ]
    /\ \A c \in Accounts!Callers : CallFits(c)
    /\ trail \in [ Users -> UserEmails \cup {None} ]

\* A request about an account that no other has crossed, which is there.
Clear(c) == calls[c].id \in Users \ disturbed /\ Accounts!Present(calls[c].id)

RoleInv ==
    /\ \A u \in Users \ disturbed : Accounts!Present(u) =>
         \/ \E r \in Roles : people[u].roles = {r}
         \/ people[u].roles = {} /\ \E c \in Accounts!Callers : calls[c].id = u /\ calls[c].phase = "stripped"
    /\ \A c \in Accounts!Callers : Clear(c) /\ calls[c].phase = "stripped" => people[calls[c].id].roles = {}

\* The address is written and not yet logged.
Unlogged(c) ==
    /\ calls[c].phase \in { "updated", "stripped", "given" } /\ calls[c].op \in { "update", "profile" }
    /\ calls[c].email # None

TrailInv ==
    /\ \A u \in Users \ disturbed : Accounts!Present(u) =>
         trail[u] = people[u].email \/ \E c \in Accounts!Callers : calls[c].id = u /\ Unlogged(c)
    /\ \A c \in Accounts!Callers : Clear(c) =>
         /\ calls[c].phase = "assessed" => calls[c].original.email = people[calls[c].id].email
         /\ Unlogged(c) => people[calls[c].id].email = calls[c].email /\ trail[calls[c].id] = calls[c].original.email
         /\ \A d \in Accounts!Callers : d # c /\ calls[d].id = calls[c].id => ~ (Unlogged(c) /\ Unlogged(d))

TakenInv ==
    \A c \in Accounts!Callers :
        calls[c].id \in Users \ disturbed /\ calls[c].phase \in { "assessed", "updated" } /\ calls[c].email # None
        => \A v \in Users \ {calls[c].id} : Accounts!Present(v) => Lower[people[v].email] # calls[c].email

RemainInv ==
    /\ Accounts!SomeoneRemains
    /\ \A c \in Accounts!Callers : disturbed = {} /\ calls[c].phase = "counted" /\ calls[c].op = "delete" =>
         \E u, v \in Users : u # v /\ Accounts!Present(u) /\ Accounts!Present(v)

LEMMA SameCardinality == \A S : Accounts!Cardinality(S) = Cardinality(S)
  BY DEF Cardinality, Accounts!Cardinality

LEMMA PersonTypes ==
  /\ \A person \in Persons : person # None
  /\ \A email \in UserEmails, provider \in { "local", "oidc" }, grants \in SUBSET Roles :
       Accounts!Person(email, provider, grants) \in Persons
  BY WorkspaceAssumption DEF Accounts!UsersAssumption, Persons, Accounts!Person

LEMMA InitTypes == Accounts!Init => AccountTypes
<1> SUFFICES ASSUME Accounts!Init PROVE AccountTypes
  OBVIOUS
<1>1. people \in [ Users -> Persons \cup {None} ] /\ roles \subseteq Roles
  <2>1. CASE people = [ u \in Users |-> None ] /\ roles = Roles \ {SuperAdmin}
    BY <2>1
  <2>2. ASSUME roles = Roles, NEW other \in Roles, NEW provider \in { "local", "oidc" },
               NEW a \in UserEmails, NEW h \in UserEmails,
               people = [ [ u \in Users |-> None ] EXCEPT ![Administrator] = Accounts!Person(a, "local", {SuperAdmin}),
                                                            ![Holder] = Accounts!Person(h, provider, {other}) ]
        PROVE  people \in [ Users -> Persons \cup {None} ]
    <3>1. Accounts!Person(a, "local", {SuperAdmin}) \in Persons /\ Accounts!Person(h, provider, {other}) \in Persons
      BY WorkspaceAssumption, PersonTypes DEF Accounts!UsersAssumption
    <3> QED
      BY <2>2, <3>1
  <2>3. CASE ~ (people = [ u \in Users |-> None ] /\ roles = Roles \ {SuperAdmin})
    <3>1. PICK other \in Roles, provider \in { "local", "oidc" } :
            \E a, h \in UserEmails :
                /\ Lower[a] # Lower[h] /\ a = Lower[a]
                /\ people = [ [ u \in Users |-> None ] EXCEPT ![Administrator] = Accounts!Person(a, "local",
                   {SuperAdmin}),
                                                            ![Holder] = Accounts!Person(h, provider, {other}) ]
      BY <2>3, Zenon DEF Accounts!Init
    <3>2. PICK a \in UserEmails, h \in UserEmails :
                /\ Lower[a] # Lower[h] /\ a = Lower[a]
                /\ people = [ [ u \in Users |-> None ] EXCEPT ![Administrator] = Accounts!Person(a, "local",
                   {SuperAdmin}),
                                                            ![Holder] = Accounts!Person(h, provider, {other}) ]
      BY <3>1, Zenon
    <3>3. roles = Roles
      BY <2>3 DEF Accounts!Init
    <3> QED
      BY <2>2, <3>2, <3>3
  <2> QED
    BY <2>1, <2>3
<1>2. Accounts!Idle \in CallType
  BY DEF Accounts!Idle, CallType, Phases
<1>3. calls \in [ Accounts!Callers -> CallType ] /\ \A c \in Accounts!Callers : CallFits(c)
  BY <1>2 DEF Accounts!Init, CallFits, Accounts!Idle
<1>4. trail \in [ Users -> UserEmails \cup {None} ]
  BY <1>1 DEF Accounts!Init, Persons
<1> QED
  BY <1>1, <1>3, <1>4 DEF AccountTypes

\* Whoever is there at first has one role.
LEMMA InitPeople ==
  Accounts!Init => /\ \A u \in Users : Accounts!Present(u) => \E r \in Roles : people[u].roles = {r}
                   /\ SuperAdmin \in roles => \E u \in Users : Accounts!Present(u)
<1> SUFFICES ASSUME Accounts!Init
             PROVE  /\ \A u \in Users : Accounts!Present(u) => \E r \in Roles : people[u].roles = {r}
                    /\ SuperAdmin \in roles => \E u \in Users : Accounts!Present(u)
  OBVIOUS
<1>1. CASE people = [ u \in Users |-> None ] /\ roles = Roles \ {SuperAdmin}
  BY <1>1 DEF Accounts!Present
<1>2. CASE ~ (people = [ u \in Users |-> None ] /\ roles = Roles \ {SuperAdmin})
  <2>1. PICK other \in Roles, provider \in { "local", "oidc" } :
          \E a, h \in UserEmails :
              /\ Lower[a] # Lower[h] /\ a = Lower[a]
              /\ people = [ [ u \in Users |-> None ] EXCEPT ![Administrator] = Accounts!Person(a, "local",
                 {SuperAdmin}),
                                                            ![Holder] = Accounts!Person(h, provider, {other}) ]
    BY <1>2, Zenon DEF Accounts!Init
  <2>2. PICK a \in UserEmails, h \in UserEmails :
              /\ Lower[a] # Lower[h] /\ a = Lower[a]
              /\ people = [ [ u \in Users |-> None ] EXCEPT ![Administrator] = Accounts!Person(a, "local",
                 {SuperAdmin}),
                                                            ![Holder] = Accounts!Person(h, provider, {other}) ]
    BY <2>1, Zenon
  <2>3. Accounts!Person(a, "local", {SuperAdmin}) \in Persons /\ Accounts!Person(h, provider, {other}) \in Persons
    BY WorkspaceAssumption, PersonTypes DEF Accounts!UsersAssumption
  <2>4. Accounts!Person(a, "local", {SuperAdmin}).roles = {SuperAdmin}
        /\ Accounts!Person(h, provider, {other}).roles = {other}
    BY DEF Accounts!Person
  <2>5. people[Holder] = Accounts!Person(h, provider, {other}) /\ Holder \in Users /\ Administrator \in Users
        /\ SuperAdmin \in Roles
    BY <2>2, WorkspaceAssumption DEF Accounts!UsersAssumption
  <2>6. \A u \in Users : Accounts!Present(u) => people[u].roles = {SuperAdmin} \/ people[u].roles = {other}
    BY <2>2, <2>4, <2>5 DEF Accounts!Present
  <2>7. Accounts!Present(Holder)
    BY <2>3, <2>5, PersonTypes DEF Accounts!Present
  <2> QED
    BY <2>5, <2>6, <2>7
<1> QED
  BY <1>1, <1>2

PeopleInv == AccountTypes /\ RoleInv /\ TrailInv /\ TakenInv /\ RemainInv

LEMMA PeopleInit == Accounts!Init => PeopleInv
<1> SUFFICES ASSUME Accounts!Init PROVE PeopleInv
  OBVIOUS
<1>1. \A c \in Accounts!Callers : calls[c] = Accounts!Idle
  BY DEF Accounts!Init
<1>2. RoleInv
  BY <1>1, InitPeople DEF RoleInv, Accounts!Idle
<1>3. TrailInv
  BY <1>1 DEF TrailInv, Accounts!Init, Accounts!Present, Accounts!Idle, Unlogged
<1>4. TakenInv /\ RemainInv
  BY <1>1, InitPeople DEF TakenInv, RemainInv, Accounts!SomeoneRemains, Accounts!Idle
<1> QED
  BY <1>2, <1>3, <1>4, InitTypes DEF PeopleInv

-----------------------------------------------------------------------------

\* A request goes on and keeps what it holds.
Moved(c, phase) ==
    /\ calls' \in [ Accounts!Callers -> CallType ]
    /\ calls'[c].phase = phase
    /\ calls'[c].op = calls[c].op /\ calls'[c].id = calls[c].id /\ calls'[c].email = calls[c].email
    /\ calls'[c].role = calls[c].role /\ calls'[c].original = calls[c].original
    /\ \A d \in Accounts!Callers \ {c} : calls'[d] = calls[d]

LEMMA GoesStep ==
  ASSUME AccountTypes, NEW c \in Accounts!Callers, NEW phase \in Phases, Accounts!Goes(c, phase)
  PROVE  Moved(c, phase)
<1>1. calls[c] \in CallType
  BY DEF AccountTypes
<1>2. [ calls[c] EXCEPT !.phase = phase ] \in CallType
  BY <1>1 DEF CallType
<1> QED
  BY <1>1, <1>2 DEF AccountTypes, Accounts!Goes, CallType, Moved

LEMMA AsksStep ==
  ASSUME AccountTypes, NEW c \in Accounts!Callers,
         NEW op \in { "setup", "create", "update", "profile", "delete" },
         NEW id \in Users, NEW email \in UserEmails \cup {None}, NEW role \in Roles \cup {None},
            Accounts!Asks(c, op, id, email, role)
  PROVE  /\ calls' \in [ Accounts!Callers -> CallType ] /\ calls[c].phase = "none"
         /\ calls'[c] = [ op |-> op, phase |-> "sent", id |-> id, email |-> email, role |-> role, original |-> None ]
         /\ \A d \in Accounts!Callers \ {c} : calls'[d] = calls[d]
         /\ UNCHANGED << people, roles, failures, trail, disturbed >>
<1> DEFINE v == [ op |-> op, phase |-> "sent", id |-> id, email |-> email, role |-> role, original |-> None ]
<1>1. v \in CallType
  BY DEF CallType, Phases
<1>2. calls' = [ calls EXCEPT ![c] = v ] /\ calls[c] = Accounts!Idle
  BY DEF Accounts!Asks
<1> HIDE DEF v
<1>3. calls' \in [ Accounts!Callers -> CallType ] /\ calls'[c] = v
      /\ \A d \in Accounts!Callers \ {c} : calls'[d] = calls[d]
  BY <1>1, <1>2 DEF AccountTypes
<1> QED
  BY <1>2, <1>3 DEF v, Accounts!Asks, Accounts!Idle

\* A request writes one row, and so crosses the others that stand midway.
Written(c, id, row) ==
    /\ people' \in [ Users -> Persons \cup {None} ] /\ people'[id] = row
    /\ \A u \in Users \ {id} : people'[u] = people[u]
    /\ disturbed \subseteq disturbed'
    /\ \A d \in Accounts!Callers \ {c} : calls[d].phase \notin { "none", "sent", "refused" } =>
       calls[d].id \in disturbed'

LEMMA WritesStep ==
  ASSUME AccountTypes, NEW c \in Accounts!Callers, NEW id \in Users, NEW row \in Persons \cup {None},
         Accounts!Writes(c, [ people EXCEPT ![id] = row ])
  PROVE  Written(c, id, row)
  BY DEF Accounts!Writes, Accounts!Midway, AccountTypes, Written

LEMMA BreaksStep ==
  ASSUME AccountTypes, NEW c \in Accounts!Callers, Accounts!Breaks(c)
  PROVE  /\ people' = people /\ disturbed' = disturbed \cup {calls[c].id}
         /\ Accounts!Goes(c, "refused")
  BY DEF Accounts!Breaks, Accounts!Refused

\* A page, or the holder, sends a request.
Sends ==
    \/ \E p \in Pages : Accounts!Setup(p) \/ Accounts!ConfirmDelete(p) \/ Accounts!SubmitNew(p)
       \/ Accounts!SubmitEdit(p)
    \/ Accounts!SubmitProfile

Sent(c, op, id, email, role) ==
    /\ Accounts!Asks(c, op, id, email, role)
    /\ op \in { "setup", "create" } => email \in UserEmails /\ role \in Roles

LEMMA SendsStep ==
  ASSUME Sends
  PROVE  \E c \in Accounts!Callers, op \in { "setup", "create", "update", "profile", "delete" },
            id \in Users, email \in UserEmails \cup {None}, role \in Roles \cup {None} : Sent(c, op, id, email, role)
<1>0. Pages \subseteq Accounts!Callers /\ Holder \in Accounts!Callers /\ SuperAdmin \in Roles /\ Holder \in Users
  BY WorkspaceAssumption DEF Accounts!Callers, Accounts!UsersAssumption
<1>1. ASSUME NEW p \in Pages, Accounts!Setup(p) PROVE \E id \in Users,
      email \in UserEmails : Sent(p, "setup", id, email, SuperAdmin)
  BY <1>0, <1>1 DEF Accounts!Setup, Sent
<1>2. ASSUME NEW p \in Pages, Accounts!ConfirmDelete(p) PROVE \E id \in Users : Sent(p, "delete", id, None, None)
  BY <1>2 DEF Accounts!ConfirmDelete, Sent
<1>3. ASSUME NEW p \in Pages, Accounts!SubmitNew(p)
      PROVE \E id \in Users, email \in UserEmails, role \in Roles : Sent(p, "create", id, email, role)
  BY <1>3 DEF Accounts!SubmitNew, Sent
<1>4. ASSUME NEW p \in Pages, Accounts!SubmitEdit(p)
      PROVE \E id \in Users, email \in UserEmails \cup {None}, role \in Roles : Sent(p, "update", id, email, role)
  BY <1>4 DEF Accounts!SubmitEdit, Sent
<1>5. ASSUME Accounts!SubmitProfile PROVE \E email \in UserEmails : Sent(Holder, "profile", Holder, email, None)
  BY <1>5 DEF Accounts!SubmitProfile, Sent
<1> QED
  BY <1>0, <1>1, <1>2, <1>3, <1>4, <1>5 DEF Sends

ReadingStep(c) == Accounts!CountsNone(c) \/ Accounts!Admits(c) \/ Accounts!CountUsers(c)
   \/ Accounts!AssessEmailChange(c)

\* What a request that only reads does next.
ReadMoves(c) ==
    /\ UNCHANGED << people, roles, lists, used, failures, trail, disturbed >>
    /\ \A d \in Accounts!Callers \ {c} : calls'[d] = calls[d]
    /\ calls' \in [ Accounts!Callers -> CallType ]
    /\ calls[c].phase \in { "sent", "counted" }
    /\ calls'[c].phase \in { "counted", "checked", "assessed", "refused" }
    /\ calls'[c].op = calls[c].op /\ calls'[c].id = calls[c].id /\ calls'[c].role = calls[c].role
    /\ calls'[c].phase # "assessed" => calls'[c].email = calls[c].email /\ calls'[c].original = calls[c].original
    /\ calls'[c].phase = "assessed" =>
         /\ calls[c].op \in { "update", "profile" }
         /\ calls'[c].original \in Persons /\ calls'[c].original = people[calls[c].id]
         /\ calls'[c].email # None => ~ Accounts!Taken(calls[c].id, calls'[c].email)
    /\ calls'[c].phase = "counted" => calls[c].op \in { "setup", "delete" }
    /\ calls'[c].phase = "counted" /\ calls[c].op = "delete" =>
         Accounts!Authorized /\ Cardinality({ u \in Users : Accounts!Present(u) }) # 1
    /\ calls'[c].phase = "checked" => calls[c].op \in { "setup", "create" }

LEMMA ReadsStep ==
  ASSUME AccountTypes, NEW c \in Accounts!Callers, ReadingStep(c)
  PROVE  ReadMoves(c)
<1>1. CASE Accounts!CountsNone(c)
  <2>1. calls[c].op = "setup" /\ calls[c].phase \in {"sent", "counted"} /\ UNCHANGED << people, roles, lists,
        used, failures, trail, disturbed >>
    BY <1>1 DEF Accounts!CountsNone, Accounts!Reads
  <2>2. PICK phase \in { "refused", "counted", "checked" } : Accounts!Goes(c, phase)
    BY <1>1 DEF Accounts!CountsNone, Accounts!Refused
  <2>3. phase \in Phases
    BY DEF Phases
  <2> QED
    BY <2>1, <2>2, <2>3, GoesStep DEF Moved, ReadMoves
<1>2. CASE Accounts!Admits(c)
  <2>1. calls[c].op = "create" /\ calls[c].phase = "sent" /\ UNCHANGED << people, roles, lists, used, failures,
        trail, disturbed >>
    BY <1>2 DEF Accounts!Admits, Accounts!Reads
  <2>2. PICK phase \in { "refused", "checked" } : Accounts!Goes(c, phase)
    BY <1>2 DEF Accounts!Admits, Accounts!Refused
  <2>3. phase \in Phases
    BY DEF Phases
  <2> QED
    BY <2>1, <2>2, <2>3, GoesStep DEF Moved, ReadMoves
<1>3. CASE Accounts!CountUsers(c)
  <2>1. calls[c].op = "delete" /\ calls[c].phase = "sent" /\ UNCHANGED << people, roles, lists, used, failures,
        trail, disturbed >>
    BY <1>3 DEF Accounts!CountUsers, Accounts!Reads
  <2>2. PICK phase \in { "refused", "counted" } :
          Accounts!Goes(c, phase) /\ (phase = "counted" => Accounts!Authorized
             /\ Cardinality({ u \in Users : Accounts!Present(u) }) # 1)
    BY <1>3, SameCardinality DEF Accounts!CountUsers, Accounts!Refused
  <2>3. phase \in Phases
    BY DEF Phases
  <2> QED
    BY <2>1, <2>2, <2>3, GoesStep DEF Moved, ReadMoves
<1>4. CASE Accounts!AssessEmailChange(c)
  <2>1. calls[c].op \in { "update", "profile" } /\ calls[c].phase = "sent" /\ UNCHANGED << people, roles, lists,
        used, failures, trail, disturbed >>
    BY <1>4 DEF Accounts!AssessEmailChange, Accounts!Reads
  <2>2. CASE Accounts!Refused(c)
    <3>1. "refused" \in Phases
      BY DEF Phases
    <3> QED
      BY <2>1, <2>2, <3>1, GoesStep DEF Accounts!Refused, Moved, ReadMoves
  <2>3. CASE ~ Accounts!Refused(c)
    <3> DEFINE id == calls[c].id
               mail == IF Accounts!Unchanged(id, calls[c].email) THEN None ELSE Lower[calls[c].email]
               v == [ calls[c] EXCEPT !.phase = "assessed", !.original = people[id], !.email = mail ]
    <3>1. /\ Accounts!Present(id) /\ calls' = [ calls EXCEPT ![c].phase = "assessed", ![c].original = people[id],
             ![c].email = mail ]
          /\ Accounts!Unchanged(id, calls[c].email) \/ ~ Accounts!Taken(id, Lower[calls[c].email])
      BY <1>4, <2>3 DEF Accounts!AssessEmailChange
    <3>2. calls[c] \in CallType /\ id \in Users /\ people[id] \in Persons
      BY <2>1, <3>1 DEF AccountTypes, CallFits, Accounts!Present
    <3>3. mail \in UserEmails \cup {None} /\ (mail # None => ~ Accounts!Taken(id, mail))
      BY <3>1, <3>2, WorkspaceAssumption DEF Accounts!UsersAssumption, CallType, Accounts!Unchanged
    <3> HIDE DEF mail
    <3>4. v \in CallType /\ v.phase = "assessed" /\ v.original = people[id] /\ v.email = mail /\ v.op = calls[c].op
          /\ v.id = calls[c].id /\ v.role = calls[c].role
      BY <3>2, <3>3 DEF CallType, Phases
    <3>5. calls' = [ calls EXCEPT ![c] = v ]
      BY <3>1, <3>2 DEF AccountTypes
    <3> HIDE DEF v
    <3>6. calls' \in [ Accounts!Callers -> CallType ] /\ calls'[c] = v
          /\ \A d \in Accounts!Callers \ {c} : calls'[d] = calls[d]
      BY <3>4, <3>5 DEF AccountTypes
    <3> QED
      BY <2>1, <3>2, <3>3, <3>4, <3>6 DEF ReadMoves
  <2> QED
    BY <2>2, <2>3
<1> QED
  BY <1>1, <1>2, <1>3, <1>4 DEF ReadingStep

-----------------------------------------------------------------------------

\* The requests, when one of them goes on and keeps what it holds.
LEMMA FitsStep ==
  ASSUME AccountTypes, NEW c \in Accounts!Callers, NEW phase \in Phases \ { "none" }, Accounts!Goes(c, phase),
         CallFits(c)', calls[c].phase # "none"
  PROVE  calls' \in [ Accounts!Callers -> CallType ] /\ \A d \in Accounts!Callers : CallFits(d)'
  BY GoesStep DEF Moved, AccountTypes, CallFits

LEMMA SendsPeople ==
  ASSUME PeopleInv, Sends
  PROVE  PeopleInv'
<1>1. PICK c \in Accounts!Callers, op \in { "setup", "create", "update", "profile", "delete" },
           id \in Users, email \in UserEmails \cup {None}, role \in Roles \cup {None} : Sent(c, op, id, email, role)
  BY SendsStep
<1>2. /\ calls' \in [ Accounts!Callers -> CallType ] /\ calls[c].phase = "none"
      /\ calls'[c] = [ op |-> op, phase |-> "sent", id |-> id, email |-> email, role |-> role, original |-> None ]
      /\ \A d \in Accounts!Callers \ {c} : calls'[d] = calls[d]
      /\ UNCHANGED << people, roles, failures, trail, disturbed >>
      /\ op \in { "setup", "create" } => email \in UserEmails /\ role \in Roles
  BY <1>1, AsksStep DEF PeopleInv, Sent
<1>3. calls'[c].phase = "sent" /\ calls'[c].op = op /\ calls'[c].id = id /\ calls'[c].email = email
      /\ calls'[c].role = role
  BY <1>2
<1>4. AccountTypes'
  BY <1>2, <1>3 DEF PeopleInv, AccountTypes, CallFits
<1>5. RoleInv' /\ TrailInv' /\ TakenInv' /\ RemainInv'
  <2>1. RoleInv'
    BY <1>2, <1>3, SMTT(30) DEF PeopleInv, RoleInv, Clear, Accounts!Present
  <2>2. TrailInv'
    BY <1>2, <1>3 DEF PeopleInv, TrailInv, Clear, Accounts!Present, Unlogged
  <2>3. TakenInv'
    BY <1>2, <1>3 DEF PeopleInv, TakenInv, Accounts!Present
  <2>4. RemainInv'
    BY <1>2, <1>3 DEF PeopleInv, RemainInv, Accounts!SomeoneRemains, Accounts!Present
  <2> QED
    BY <2>1, <2>2, <2>3, <2>4
<1> QED
  BY <1>4, <1>5 DEF PeopleInv

LEMMA TwoAreThere ==
  ASSUME Accounts!Authorized, Cardinality({ u \in Users : Accounts!Present(u) }) # 1, Administrator \in Users
  PROVE  \E u, v \in Users : u # v /\ Accounts!Present(u) /\ Accounts!Present(v)
<1>1. SUFFICES ASSUME \A u, v \in Users : Accounts!Present(u) /\ Accounts!Present(v) => u = v PROVE FALSE
  OBVIOUS
<1>2. { u \in Users : Accounts!Present(u) } = {Administrator}
  BY <1>1 DEF Accounts!Authorized
<1> QED
  BY <1>2, FS_Singleton

LEMMA ReadsPeople ==
  ASSUME PeopleInv, NEW c \in Accounts!Callers, ReadingStep(c)
  PROVE  PeopleInv'
<1>1. AccountTypes /\ ReadMoves(c)
  BY ReadsStep DEF PeopleInv
<1>2. AccountTypes'
  BY <1>1 DEF ReadMoves, AccountTypes, CallFits
<1>3. RoleInv'
  BY <1>1, SMTT(30) DEF ReadMoves, PeopleInv, RoleInv, Clear, Accounts!Present
<1>4. TrailInv'
  BY <1>1 DEF ReadMoves, PeopleInv, TrailInv, Clear, Accounts!Present, Unlogged
<1>5. TakenInv'
  BY <1>1 DEF ReadMoves, PeopleInv, TakenInv, Accounts!Present, Accounts!Taken
<1>6. RemainInv'
  <2>1. Administrator \in Users
    BY WorkspaceAssumption DEF Accounts!UsersAssumption
  <2> QED
    BY <1>1, <2>1, TwoAreThere DEF ReadMoves, PeopleInv, RemainInv, Accounts!SomeoneRemains, Accounts!Present
<1> QED
  BY <1>2, <1>3, <1>4, <1>5, <1>6 DEF PeopleInv

LEMMA InsertPeople ==
  ASSUME PeopleInv, NEW c \in Accounts!Callers, Accounts!InsertUser(c)
  PROVE  PeopleInv'
<1> DEFINE id == calls[c].id
           person == Accounts!Person(calls[c].email, "local", {})
<1>0. AccountTypes /\ "refused" \in Phases \ { "none" } /\ "stripped" \in Phases \ { "none" }
  BY DEF PeopleInv, Phases
<1>1. /\ calls[c].phase = "checked" /\ calls[c].op \in { "setup", "create" } /\ id \in Users
      /\ calls[c].email \in UserEmails /\ calls[c].role \in Roles /\ CallFits(c)
  BY <1>0 DEF Accounts!InsertUser, AccountTypes, CallFits
<1>2. person \in Persons /\ person # None /\ person.email = calls[c].email /\ person.roles = {}
  BY <1>1, PersonTypes DEF Accounts!Person
<1> HIDE DEF person
<1>3. CASE Accounts!Refused(c) /\ UNCHANGED << people, roles, lists, trail, disturbed >>
  <2>1. Moved(c, "refused")
    BY <1>0, <1>3, GoesStep DEF Accounts!Refused
  <2>2. AccountTypes'
    BY <1>0, <1>1, <1>3, <2>1 DEF Moved, AccountTypes, CallFits
  <2>3. RoleInv' /\ TrailInv' /\ TakenInv' /\ RemainInv'
    <3>1. RoleInv'
      BY <1>1, <1>3, <2>1, SMTT(30) DEF Moved, PeopleInv, RoleInv, Clear, Accounts!Present
    <3>2. TrailInv'
      BY <1>1, <1>3, <2>1 DEF Moved, PeopleInv, TrailInv, Clear, Accounts!Present, Unlogged
    <3>3. TakenInv'
      BY <1>1, <1>3, <2>1 DEF Moved, PeopleInv, TakenInv, Accounts!Present
    <3>4. RemainInv'
      BY <1>1, <1>3, <2>1 DEF Moved, PeopleInv, RemainInv, Accounts!SomeoneRemains, Accounts!Present
    <3> QED
      BY <3>1, <3>2, <3>3, <3>4
  <2> QED
    BY <2>2, <2>3 DEF PeopleInv
<1>4. CASE ~ (Accounts!Refused(c) /\ UNCHANGED << people, roles, lists, trail, disturbed >>)
  <2>1. /\ Accounts!Goes(c, "stripped") /\ Accounts!Writes(c, [ people EXCEPT ![id] = person ])
           /\ ~ Accounts!Present(id)
        /\ trail' = [ trail EXCEPT ![id] = calls[c].email ]
        /\ roles' = IF calls[c].op = "setup" THEN roles \cup {SuperAdmin} ELSE roles
    BY <1>4 DEF Accounts!InsertUser, person
  <2>2. Written(c, id, person)
    BY <1>0, <1>1, <1>2, <2>1, WritesStep
  <2>3. /\ trail' \in [ Users -> UserEmails \cup {None} ] /\ trail'[id] = calls[c].email
        /\ \A u \in Users \ {id} : trail'[u] = trail[u]
    BY <1>0, <1>1, <2>1 DEF AccountTypes
  <2>9. Moved(c, "stripped")
    BY <1>0, <2>1, GoesStep
  <2>4. AccountTypes'
    <3>1. roles' \subseteq Roles
      BY <1>0, <2>1, WorkspaceAssumption DEF AccountTypes, Accounts!UsersAssumption
    <3>2. CallFits(c)'
      BY <1>0, <1>1, <2>1, <2>9 DEF Moved, CallFits
    <3> QED
      BY <1>0, <1>1, <2>1, <2>2, <2>3, <3>1, <3>2, FitsStep DEF Written, AccountTypes
  <2>5. RoleInv'
    BY <1>0, <1>1, <1>2, <2>1, <2>2, <2>9, SMTT(30) DEF Moved, Written, PeopleInv, RoleInv, Clear, Accounts!Present
  <2>6. TrailInv'
    BY <1>0, <1>1, <1>2, <2>1, <2>2, <2>3, <2>9 DEF Moved, Written, PeopleInv, TrailInv, Clear, Accounts!Present,
       Unlogged
  <2>7. TakenInv'
    BY <1>0, <1>1, <1>2, <2>1, <2>2, <2>9 DEF Moved, Written, PeopleInv, TakenInv, Accounts!Present
  <2>8. RemainInv'
    BY <1>0, <1>1, <1>2, <2>1, <2>2, <2>9 DEF Moved, Written, PeopleInv, RemainInv, Accounts!SomeoneRemains,
       Accounts!Present
  <2> QED
    BY <2>4, <2>5, <2>6, <2>7, <2>8 DEF PeopleInv
<1> QED
  BY <1>3, <1>4

LEMMA DeletePeople ==
  ASSUME PeopleInv, NEW c \in Accounts!Callers, Accounts!DeleteUser(c)
  PROVE  PeopleInv'
<1> DEFINE id == calls[c].id
<1>0. AccountTypes /\ "done" \in Phases \ { "none" }
  BY DEF PeopleInv, Phases
<1>1. calls[c].phase = "counted" /\ calls[c].op = "delete" /\ id \in Users /\ CallFits(c)
  BY <1>0 DEF Accounts!DeleteUser, AccountTypes, CallFits
<1>2. Moved(c, "done") /\ Written(c, id, None) /\ roles' = roles /\ trail' = [ trail EXCEPT ![id] = None ]
  BY <1>0, <1>1, GoesStep, WritesStep DEF Accounts!DeleteUser
<1>3. /\ trail' \in [ Users -> UserEmails \cup {None} ]
      /\ \A u \in Users \ {id} : trail'[u] = trail[u]
  BY <1>0, <1>2 DEF AccountTypes
<1>4. AccountTypes'
  BY <1>0, <1>1, <1>2, <1>3 DEF Moved, Written, AccountTypes, CallFits
<1>5. RoleInv'
  BY <1>0, <1>1, <1>2, SMTT(30) DEF Moved, Written, PeopleInv, RoleInv, Clear, Accounts!Present
<1>6. TrailInv'
  BY <1>0, <1>1, <1>2, <1>3 DEF Moved, Written, PeopleInv, TrailInv, Clear, Accounts!Present, Unlogged
<1>7. TakenInv'
  BY <1>0, <1>1, <1>2 DEF Moved, Written, PeopleInv, TakenInv, Accounts!Present
<1>8. RemainInv'
  BY <1>0, <1>1, <1>2 DEF Moved, Written, PeopleInv, RemainInv, Accounts!SomeoneRemains, Accounts!Present
<1> QED
  BY <1>4, <1>5, <1>6, <1>7, <1>8 DEF PeopleInv

\* A request that breaks has disturbed its account.
LEMMA BreaksPeople ==
  ASSUME PeopleInv, NEW c \in Accounts!Callers, Accounts!Breaks(c), calls[c].phase # "none", UNCHANGED << roles,
         trail >>
  PROVE  PeopleInv'
<1>0. AccountTypes /\ "refused" \in Phases
  BY DEF PeopleInv, Phases
<1>1. Moved(c, "refused") /\ people' = people /\ disturbed' = disturbed \cup {calls[c].id} /\ CallFits(c)
  BY <1>0, BreaksStep, GoesStep DEF AccountTypes
<1>4. AccountTypes'
  BY <1>0, <1>1 DEF Moved, AccountTypes, CallFits
<1>5. RoleInv'
  BY <1>0, <1>1, SMTT(30) DEF Moved, PeopleInv, RoleInv, Clear, Accounts!Present
<1>6. TrailInv'
  BY <1>0, <1>1 DEF Moved, PeopleInv, TrailInv, Clear, Accounts!Present, Unlogged
<1>7. TakenInv'
  BY <1>0, <1>1 DEF Moved, PeopleInv, TakenInv, Accounts!Present
<1>8. RemainInv'
  BY <1>0, <1>1 DEF Moved, PeopleInv, RemainInv, Accounts!SomeoneRemains, Accounts!Present
<1> QED
  BY <1>4, <1>5, <1>6, <1>7, <1>8 DEF PeopleInv

LEMMA FieldsPeople ==
  ASSUME PeopleInv, NEW c \in Accounts!Callers, Accounts!UpdateFields(c)
  PROVE  PeopleInv'
<1> DEFINE id == calls[c].id
           email == calls[c].email
<1>0. AccountTypes /\ "updated" \in Phases \ { "none" }
  BY DEF PeopleInv, Phases
<1>1. /\ calls[c].phase = "assessed" /\ id \in Users /\ CallFits(c) /\ calls[c].op \in { "update", "profile" }
      /\ UNCHANGED << roles, trail >> /\ email \in UserEmails \cup {None}
  BY <1>0 DEF Accounts!UpdateFields, AccountTypes, CallFits, CallType
<1>2. CASE Accounts!Breaks(c)
  BY <1>1, <1>2, BreaksPeople
<1>3. CASE (email = None \/ ~ Accounts!Present(id)) /\ Accounts!Goes(c, "updated") /\ UNCHANGED << people, disturbed >>
  <2>1. Moved(c, "updated")
    BY <1>0, <1>3, GoesStep
  <2>4. AccountTypes'
    BY <1>0, <1>1, <1>3, <2>1 DEF Moved, AccountTypes, CallFits
  <2>5. RoleInv'
    BY <1>0, <1>1, <1>3, <2>1, SMTT(30) DEF Moved, PeopleInv, RoleInv, Clear, Accounts!Present
  <2>6. TrailInv'
    BY <1>0, <1>1, <1>3, <2>1 DEF Moved, PeopleInv, TrailInv, Clear, Accounts!Present, Unlogged
  <2>7. TakenInv'
    BY <1>0, <1>1, <1>3, <2>1 DEF Moved, PeopleInv, TakenInv, Accounts!Present
  <2>8. RemainInv'
    BY <1>0, <1>1, <1>3, <2>1 DEF Moved, PeopleInv, RemainInv, Accounts!SomeoneRemains, Accounts!Present
  <2> QED
    BY <2>4, <2>5, <2>6, <2>7, <2>8 DEF PeopleInv
<1>4. CASE email # None /\ Accounts!Present(id) /\ Accounts!Goes(c, "updated")
      /\ Accounts!Writes(c, [ people EXCEPT ![id].email = email ])
  <2> DEFINE row == [ people[id] EXCEPT !.email = email ]
  <2>0. people[id] \in Persons
    BY <1>0, <1>1, <1>4 DEF AccountTypes, Accounts!Present
  <2>1. row \in Persons /\ row # None /\ row.email = email /\ row.roles = people[id].roles
    BY <1>1, <1>4, <2>0, PersonTypes DEF Persons
  <2>2. [ people EXCEPT ![id].email = email ] = [ people EXCEPT ![id] = row ]
    BY <1>0, <1>1 DEF AccountTypes
  <2> HIDE DEF row
  <2>3. Moved(c, "updated") /\ Written(c, id, row)
    BY <1>0, <1>1, <1>4, <2>1, <2>2, GoesStep, WritesStep
  <2>4. AccountTypes'
    BY <1>0, <1>1, <2>3 DEF Moved, Written, AccountTypes, CallFits
  <2>5. RoleInv'
    BY <1>0, <1>1, <1>4, <2>1, <2>3, SMTT(30) DEF Moved, Written, PeopleInv, RoleInv, Clear, Accounts!Present
  <2>6. TrailInv'
    BY <1>0, <1>1, <1>4, <2>1, <2>3 DEF Moved, Written, PeopleInv, TrailInv, Clear, Accounts!Present, Unlogged
  <2>7. TakenInv'
    BY <1>0, <1>1, <1>4, <2>1, <2>3 DEF Moved, Written, PeopleInv, TakenInv, Accounts!Present
  <2>8. RemainInv'
    BY <1>0, <1>1, <1>4, <2>1, <2>3 DEF Moved, Written, PeopleInv, RemainInv, Accounts!SomeoneRemains,
       Accounts!Present
  <2> QED
    BY <2>4, <2>5, <2>6, <2>7, <2>8 DEF PeopleInv
<1> QED
  BY <1>2, <1>3, <1>4 DEF Accounts!UpdateFields

LEMMA StripPeople ==
  ASSUME PeopleInv, NEW c \in Accounts!Callers, Accounts!StripRole(c)
  PROVE  PeopleInv'
<1> DEFINE id == calls[c].id
<1>0. AccountTypes /\ "given" \in Phases \ { "none" } /\ "stripped" \in Phases \ { "none" }
  BY DEF PeopleInv, Phases
<1>1. /\ calls[c].phase = "updated" /\ id \in Users /\ CallFits(c) /\ UNCHANGED << roles, trail >>
  BY <1>0 DEF Accounts!StripRole, AccountTypes, CallFits
<1>2. CASE Accounts!Goes(c, "given") /\ UNCHANGED << people, disturbed >>
  <2>1. Moved(c, "given")
    BY <1>0, <1>2, GoesStep
  <2>4. AccountTypes'
    BY <1>0, <1>1, <1>2, <2>1 DEF Moved, AccountTypes, CallFits
  <2>5. RoleInv'
    BY <1>0, <1>1, <1>2, <2>1, SMTT(30) DEF Moved, PeopleInv, RoleInv, Clear, Accounts!Present
  <2>6. TrailInv'
    BY <1>0, <1>1, <1>2, <2>1 DEF Moved, PeopleInv, TrailInv, Clear, Accounts!Present, Unlogged
  <2>7. TakenInv'
    BY <1>0, <1>1, <1>2, <2>1 DEF Moved, PeopleInv, TakenInv, Accounts!Present
  <2>8. RemainInv'
    BY <1>0, <1>1, <1>2, <2>1 DEF Moved, PeopleInv, RemainInv, Accounts!SomeoneRemains, Accounts!Present
  <2> QED
    BY <2>4, <2>5, <2>6, <2>7, <2>8 DEF PeopleInv
<1>3. CASE ~ Accounts!KeepsRole(c) /\ Accounts!Goes(c, "stripped")
           /\ Accounts!Writes(c, IF Accounts!Present(id) THEN [ people EXCEPT ![id].roles = {} ] ELSE people)
  <2> DEFINE row == IF Accounts!Present(id) THEN [ people[id] EXCEPT !.roles = {} ] ELSE None
  <2>1. row \in Persons \cup {None} /\ (Accounts!Present(id) <=> row # None)
        /\ (Accounts!Present(id) => row.email = people[id].email /\ row.roles = {})
    BY <1>0, <1>1, PersonTypes DEF AccountTypes, Accounts!Present, Persons
  <2>2. (IF Accounts!Present(id) THEN [ people EXCEPT ![id].roles = {} ] ELSE people) = [ people EXCEPT ![id] = row ]
    BY <1>0, <1>1 DEF AccountTypes, Accounts!Present
  <2> HIDE DEF row
  <2>3. Moved(c, "stripped") /\ Written(c, id, row)
    BY <1>0, <1>1, <1>3, <2>1, <2>2, GoesStep, WritesStep
  <2>9. calls[c].role \in Roles
    BY <1>0, <1>3 DEF AccountTypes, CallType, Accounts!KeepsRole
  <2>4. AccountTypes'
    BY <1>0, <1>1, <2>3, <2>9 DEF Moved, Written, AccountTypes, CallFits
  <2>5. RoleInv'
    BY <1>0, <1>1, <1>3, <2>1, <2>3, SMTT(30) DEF Moved, Written, PeopleInv, RoleInv, Clear, Accounts!Present
  <2>6. TrailInv'
    BY <1>0, <1>1, <1>3, <2>1, <2>3 DEF Moved, Written, PeopleInv, TrailInv, Clear, Accounts!Present, Unlogged
  <2>7. TakenInv'
    BY <1>0, <1>1, <1>3, <2>1, <2>3 DEF Moved, Written, PeopleInv, TakenInv, Accounts!Present
  <2>8. RemainInv'
    BY <1>0, <1>1, <1>3, <2>1, <2>3 DEF Moved, Written, PeopleInv, RemainInv, Accounts!SomeoneRemains,
       Accounts!Present
  <2> QED
    BY <2>4, <2>5, <2>6, <2>7, <2>8 DEF PeopleInv
<1> QED
  BY <1>2, <1>3 DEF Accounts!StripRole

LEMMA GivePeople ==
  ASSUME PeopleInv, NEW c \in Accounts!Callers, Accounts!GiveRole(c)
  PROVE  PeopleInv'
<1> DEFINE id == calls[c].id
           role == calls[c].role
<1>0. AccountTypes /\ "given" \in Phases \ { "none" }
  BY DEF PeopleInv, Phases
<1>1. /\ calls[c].phase = "stripped" /\ id \in Users /\ CallFits(c) /\ UNCHANGED << roles, trail >> /\ role \in Roles
  BY <1>0 DEF Accounts!GiveRole, AccountTypes, CallFits
<1>2. CASE Accounts!Breaks(c)
  BY <1>1, <1>2, BreaksPeople
<1>3. CASE Accounts!Present(id) /\ Accounts!Goes(c, "given")
      /\ Accounts!Writes(c, [ people EXCEPT ![id].roles = @ \cup {role} ])
  <2> DEFINE row == [ people[id] EXCEPT !.roles = @ \cup {role} ]
  <2>0. people[id] \in Persons
    BY <1>0, <1>1, <1>3 DEF AccountTypes, Accounts!Present
  <2>1. row \in Persons /\ row # None /\ row.email = people[id].email /\ row.roles = people[id].roles \cup {role}
    BY <1>1, <2>0, PersonTypes DEF Persons
  <2>2. [ people EXCEPT ![id].roles = @ \cup {role} ] = [ people EXCEPT ![id] = row ]
    BY <1>0, <1>1 DEF AccountTypes
  <2> HIDE DEF row
  <2>3. Moved(c, "given") /\ Written(c, id, row)
    BY <1>0, <1>1, <1>3, <2>1, <2>2, GoesStep, WritesStep
  <2>9. id \notin disturbed => row.roles = {role}
    BY <1>1, <1>3, <2>1, SMTT(30) DEF PeopleInv, RoleInv, Clear
  <2>4. AccountTypes'
    BY <1>0, <1>1, <2>1, <2>3 DEF Moved, Written, AccountTypes, CallFits
  <2>5. RoleInv'
    BY <1>0, <1>1, <1>3, <2>1, <2>3, <2>9, SMTT(30) DEF Moved, Written, PeopleInv, RoleInv, Clear, Accounts!Present
  <2>6. TrailInv'
    BY <1>0, <1>1, <1>3, <2>1, <2>3 DEF Moved, Written, PeopleInv, TrailInv, Clear, Accounts!Present, Unlogged
  <2>7. TakenInv'
    BY <1>0, <1>1, <1>3, <2>1, <2>3 DEF Moved, Written, PeopleInv, TakenInv, Accounts!Present
  <2>8. RemainInv'
    BY <1>0, <1>1, <1>3, <2>1, <2>3 DEF Moved, Written, PeopleInv, RemainInv, Accounts!SomeoneRemains,
       Accounts!Present
  <2> QED
    BY <2>4, <2>5, <2>6, <2>7, <2>8 DEF PeopleInv
<1> QED
  BY <1>2, <1>3 DEF Accounts!GiveRole

LEMMA LogPeople ==
  ASSUME PeopleInv, NEW c \in Accounts!Callers, Accounts!LogChanges(c)
  PROVE  PeopleInv'
<1> DEFINE id == calls[c].id
           email == calls[c].email
<1>0. AccountTypes /\ "done" \in Phases \ { "none" }
  BY DEF PeopleInv, Phases
<1>1. /\ calls[c].phase = "given" /\ id \in Users /\ CallFits(c) /\ UNCHANGED << people, roles, disturbed >>
      /\ email \in UserEmails \cup {None}
  BY <1>0 DEF Accounts!LogChanges, AccountTypes, CallFits, CallType
<1>2. Moved(c, "done")
  BY <1>0, GoesStep DEF Accounts!LogChanges
<1>3. /\ trail' \in [ Users -> UserEmails \cup {None} ]
      /\ \A u \in Users \ {id} : trail'[u] = trail[u]
      /\ trail'[id] = IF calls[c].op \in {"update", "profile"} /\ email # None /\ trail[id] = calls[c].original.email
                      THEN email ELSE trail[id]
  BY <1>0, <1>1 DEF Accounts!LogChanges, AccountTypes
<1>4. AccountTypes'
  BY <1>0, <1>1, <1>2, <1>3 DEF Moved, AccountTypes, CallFits
<1>5. RoleInv'
  BY <1>0, <1>1, <1>2, SMTT(30) DEF Moved, PeopleInv, RoleInv, Clear, Accounts!Present
<1>6. TrailInv'
  <2>1. Clear(c) /\ Unlogged(c) => trail'[id] = people[id].email
    BY <1>1, <1>3 DEF PeopleInv, TrailInv, Unlogged
  <2>2. ~ Unlogged(c) => trail' = trail
    BY <1>0, <1>1 DEF Accounts!LogChanges, Unlogged
  <2>3. ASSUME NEW u \in Users \ disturbed', Accounts!Present(u)'
        PROVE  (trail[u] = people[u].email \/ \E d \in Accounts!Callers : calls[d].id = u /\ Unlogged(d))'
    <3>1. CASE u = id /\ Unlogged(c)
      BY <1>1, <2>1, <2>3, <3>1 DEF Clear, Accounts!Present
    <3>2. CASE u # id \/ ~ Unlogged(c)
      <4>1. trail'[u] = trail[u]
        BY <1>3, <2>2, <2>3, <3>2
      <4>2. u \in Users \ disturbed /\ Accounts!Present(u)
        BY <1>1, <2>3 DEF Accounts!Present
      <4>3. CASE trail[u] = people[u].email
        BY <1>1, <4>1, <4>3
      <4>4. CASE trail[u] # people[u].email
        <5>1. PICK d \in Accounts!Callers : calls[d].id = u /\ Unlogged(d)
          BY <4>2, <4>4 DEF PeopleInv, TrailInv
        <5>2. d # c
          BY <3>2, <5>1
        <5> QED
          BY <1>2, <5>1, <5>2 DEF Moved, Unlogged
      <4> QED
        BY <4>3, <4>4
    <3> QED
      BY <3>1, <3>2
  <2>4. ASSUME NEW d \in Accounts!Callers, Clear(d)'
        PROVE  /\ calls'[d].phase = "assessed" => calls'[d].original.email = people'[calls'[d].id].email
               /\ Unlogged(d)' => people'[calls'[d].id].email = calls'[d].email
                                  /\ trail'[calls'[d].id] = calls'[d].original.email
               /\ \A e \in Accounts!Callers : e # d /\ calls'[e].id = calls'[d].id => ~ (Unlogged(d)' /\ Unlogged(e)')
    <3>1. CASE d = c
      BY <1>2, <3>1 DEF Moved, Unlogged
    <3>2. CASE d # c
      <4>1. Clear(d) /\ calls'[d] = calls[d]
        BY <1>1, <1>2, <2>4, <3>2 DEF Moved, Clear, Accounts!Present
      <4>2. Unlogged(d) => trail'[calls[d].id] = trail[calls[d].id]
        BY <1>1, <1>3, <2>2, <3>2, <4>1 DEF PeopleInv, TrailInv, Clear
      <4> QED
        BY <1>1, <1>2, <4>1, <4>2 DEF Moved, PeopleInv, TrailInv, Unlogged
    <3> QED
      BY <3>1, <3>2
  <2> QED
    BY <2>3, <2>4 DEF TrailInv
<1>7. TakenInv'
  BY <1>0, <1>1, <1>2 DEF Moved, PeopleInv, TakenInv, Accounts!Present
<1>8. RemainInv'
  BY <1>0, <1>1, <1>2 DEF Moved, PeopleInv, RemainInv, Accounts!SomeoneRemains, Accounts!Present
<1> QED
  BY <1>4, <1>5, <1>6, <1>7, <1>8 DEF PeopleInv

LEMMA AnswerPeople ==
  ASSUME PeopleInv, NEW c \in Accounts!Callers, Accounts!Answer(c)
  PROVE  PeopleInv'
<1>0. AccountTypes
  BY DEF PeopleInv
<1>1. Accounts!Idle \in CallType /\ Accounts!Idle.phase = "none" /\ Accounts!Idle.id = None /\ Accounts!Idle.op = "none"
  BY DEF Accounts!Idle, CallType, Phases
<1>2. /\ calls' \in [ Accounts!Callers -> CallType ] /\ calls'[c] = Accounts!Idle
         /\ \A d \in Accounts!Callers \ {c} : calls'[d] = calls[d]
      /\ calls[c].phase \in { "refused", "done" } /\ UNCHANGED << people, roles, trail, disturbed >>
  BY <1>0, <1>1 DEF Accounts!Answer, AccountTypes
<1>4. AccountTypes'
  BY <1>0, <1>1, <1>2 DEF AccountTypes, CallFits
<1>5. RoleInv'
  BY <1>0, <1>1, <1>2, SMTT(30) DEF PeopleInv, RoleInv, Clear, Accounts!Present
<1>6. TrailInv'
  BY <1>0, <1>1, <1>2 DEF PeopleInv, TrailInv, Clear, Accounts!Present, Unlogged
<1>7. TakenInv'
  BY <1>0, <1>1, <1>2 DEF PeopleInv, TakenInv, Accounts!Present
<1>8. RemainInv'
  BY <1>0, <1>1, <1>2 DEF PeopleInv, RemainInv, Accounts!SomeoneRemains, Accounts!Present
<1> QED
  BY <1>4, <1>5, <1>6, <1>7, <1>8 DEF PeopleInv

LEMMA DeleteRolePeople ==
  ASSUME PeopleInv, Accounts!DeleteRole
  PROVE  PeopleInv'
<1>0. AccountTypes
  BY DEF PeopleInv
<1>1. PICK r \in roles \ {SuperAdmin} :
        /\ roles' = roles \ {r}
        /\ people' = [ u \in Users |-> IF Accounts!Present(u) THEN [ people[u] EXCEPT !.roles = @ \ {r} ] ELSE None ]
        /\ disturbed' = disturbed \cup { u \in Users : Accounts!Present(u) /\ r \in people[u].roles }
        /\ UNCHANGED << calls, trail >>
  BY DEF Accounts!DeleteRole
<1>2. ASSUME NEW u \in Users, Accounts!Present(u)
      PROVE  /\ people'[u] \in Persons /\ people'[u] # None /\ people'[u].email = people[u].email
             /\ people'[u].roles = people[u].roles \ {r}
  <2>1. people[u] \in Persons
    BY <1>0, <1>2 DEF AccountTypes, Accounts!Present
  <2>2. people'[u] = [ people[u] EXCEPT !.roles = @ \ {r} ]
    BY <1>1, <1>2
  <2> QED
    BY <2>1, <2>2, PersonTypes DEF Persons
<1>3. \A u \in Users : ~ Accounts!Present(u) => people'[u] = None
  BY <1>1
<1>4. AccountTypes'
  <2>1. people' \in [ Users -> Persons \cup {None} ]
    BY <1>1, <1>2, <1>3
  <2>2. \A c \in Accounts!Callers : CallFits(c)'
    BY <1>0, <1>1 DEF AccountTypes, CallFits
  <2> QED
    BY <1>0, <1>1, <2>1, <2>2 DEF AccountTypes
<1>9. \A u \in Users : Accounts!Present(u)' <=> Accounts!Present(u)
  BY <1>2, <1>3 DEF Accounts!Present
<1>10. ASSUME NEW u \in Users \ disturbed', Accounts!Present(u) PROVE people'[u].roles = people[u].roles
  <2>1. u \in Users /\ r \notin people[u].roles
    BY <1>1, <1>10
  <2>2. people'[u].roles = people[u].roles \ {r}
    BY <1>2, <1>10
  <2> QED
    BY <2>1, <2>2
<1>5. RoleInv'
  <2>1. \A u \in Users \ disturbed' : u \in Users \ disturbed
    BY <1>1
  <2>2. ASSUME NEW u \in Users \ disturbed', Accounts!Present(u)'
        PROVE  (\/ \E q \in Roles : people[u].roles = {q}
                \/ people[u].roles = {} /\ \E c \in Accounts!Callers : calls[c].id = u /\ calls[c].phase = "stripped")'
    <3>1. Accounts!Present(u) /\ people'[u].roles = people[u].roles
      BY <1>9, <1>10, <2>2
    <3> QED
      BY <1>1, <2>1, <3>1 DEF PeopleInv, RoleInv
  <2>3. ASSUME NEW c \in Accounts!Callers, Clear(c)', calls'[c].phase = "stripped"
        PROVE people'[calls'[c].id].roles = {}
    <3>1. Clear(c) /\ people'[calls[c].id].roles = people[calls[c].id].roles
      BY <1>1, <1>9, <1>10, <2>1, <2>3 DEF Clear
    <3> QED
      BY <1>1, <2>3, <3>1 DEF PeopleInv, RoleInv
  <2> QED
    BY <2>2, <2>3 DEF RoleInv
<1>6. TrailInv'
  BY <1>1, <1>2, <1>9 DEF PeopleInv, TrailInv, Clear, Unlogged
<1>7. TakenInv'
  BY <1>1, <1>2, <1>9 DEF PeopleInv, TakenInv
<1>8. RemainInv'
  BY <1>1, <1>9 DEF PeopleInv, RemainInv, Accounts!SomeoneRemains
<1> QED
  BY <1>4, <1>5, <1>6, <1>7, <1>8 DEF PeopleInv

LEMMA PeopleSteps == PeopleInv /\ [Accounts!Next]_Accounts!vars => PeopleInv'
<1> SUFFICES ASSUME PeopleInv, [Accounts!Next]_Accounts!vars PROVE PeopleInv'
  OBVIOUS
<1>1. CASE Sends
  BY <1>1, SendsPeople
<1>2. ASSUME NEW c \in Accounts!Callers, ReadingStep(c) \/ Accounts!InsertUser(c) \/ Accounts!DeleteUser(c)
      \/ Accounts!UpdateFields(c)
                                \/ Accounts!StripRole(c) \/ Accounts!GiveRole(c) \/ Accounts!LogChanges(c)
                                   \/ Accounts!Answer(c)
      PROVE  PeopleInv'
  BY <1>2, ReadsPeople, InsertPeople, DeletePeople, FieldsPeople, StripPeople, GivePeople, LogPeople, AnswerPeople
<1>3. ASSUME NEW c \in Accounts!Callers, Accounts!Fail(c) PROVE PeopleInv'
  BY <1>3, BreaksPeople DEF Accounts!Fail, Accounts!Midway
<1>4. CASE Accounts!DeleteRole
  BY <1>4, DeleteRolePeople
<1>5. ASSUME UNCHANGED << people, roles, calls, trail, disturbed >> PROVE PeopleInv'
  BY <1>5 DEF PeopleInv, AccountTypes, CallFits, RoleInv, TrailInv, TakenInv, RemainInv, Accounts!SomeoneRemains,
     Clear, Accounts!Present, Unlogged
<1>6. ASSUME NEW p \in Pages, Accounts!OpenDelete(p) PROVE PeopleInv'
  BY <1>5, <1>6 DEF Accounts!OpenDelete
<1>7. CASE UNCHANGED Accounts!vars
  BY <1>5, <1>7 DEF Accounts!vars
<1> QED
  BY <1>1, <1>2, <1>3, <1>4, <1>6, <1>7 DEF Accounts!Next, Sends, ReadingStep

-----------------------------------------------------------------------------

LEMMA ListedExcept ==
  ASSUME NEW R, NEW D, NEW S, NEW l \in [ rows : R, dialog : D, stale : S ], NEW v \in S
  PROVE  /\ [ l EXCEPT !.stale = v ] \in [ rows : R, dialog : D, stale : S ]
         /\ [ l EXCEPT !.stale = v ].stale = v
  OBVIOUS

LEMMA ListedDialog ==
  ASSUME NEW R, NEW D, NEW S, NEW l \in [ rows : R, dialog : D, stale : S ], NEW d \in D
  PROVE  /\ [ l EXCEPT !.dialog = d ] \in [ rows : R, dialog : D, stale : S ]
         /\ [ l EXCEPT !.dialog = d ].rows = l.rows
         /\ [ l EXCEPT !.dialog = d ].stale = l.stale
  OBVIOUS

LEMMA ListedNew ==
  ASSUME NEW R, NEW D, NEW S, NEW r \in R, NEW d \in D, NEW v \in S
  PROVE  /\ [ rows |-> r, dialog |-> d, stale |-> v ] \in [ rows : R, dialog : D, stale : S ]
         /\ [ rows |-> r, dialog |-> d, stale |-> v ].rows = r
         /\ [ rows |-> r, dialog |-> d, stale |-> v ].stale = v
  OBVIOUS

LEMMA ListedStale ==
  ASSUME NEW R, NEW D, NEW l \in [ rows : R, dialog : D, stale : BOOLEAN ]
  PROVE  /\ [ l EXCEPT !.stale = TRUE ] \in [ rows : R, dialog : D, stale : BOOLEAN ]
         /\ [ l EXCEPT !.stale = TRUE ].stale = TRUE
  BY ListedExcept, Zenon

Cards == { Accounts!Shown(person) : person \in Persons \cup {None} }
ListType == [ rows : [ Users -> Cards ], dialog : Users \cup {None}, stale : BOOLEAN ]
ListTypes == lists \in [ Pages -> ListType ]
Fresh(p) == lists[p].stale = FALSE

\* Whoever a page's request has not written yet stands on it as in the table.
Unwritten == { "none", "sent", "refused", "counted", "checked", "assessed" }
ListFits(p) ==
    Fresh(p) =>
        /\ \A u \in Users : u # calls[p].id \/ calls[p].phase \in Unwritten =>
           lists[p].rows[u] = Accounts!Shown(people[u])
        /\ calls[p].op = "delete" /\ calls[p].phase = "done" => people[calls[p].id] = None
ListInv == \A p \in Pages : ListFits(p)

LEMMA InitLists == Accounts!Init => ListTypes /\ ListInv
<1> SUFFICES ASSUME Accounts!Init PROVE ListTypes /\ ListInv
  OBVIOUS
<1> DEFINE R == [ u \in Users |-> Accounts!Shown(people[u]) ]
<1>1. AccountTypes
  BY InitTypes
<1>2. R \in [ Users -> Cards ]
  BY <1>1 DEF AccountTypes, Cards
<1> DEFINE l == [ rows |-> R, dialog |-> None, stale |-> FALSE ]
<1>3. lists = [ p \in Pages |-> l ]
  BY DEF Accounts!Init
<1>4. \A u \in Users : R[u] = Accounts!Shown(people[u])
  OBVIOUS
<1> HIDE DEF R
<1>5. l \in ListType
  BY <1>2, Zenon DEF ListType
<1>6. l.rows = R
  BY Zenon
<1> HIDE DEF l
<1>7. ListTypes
  BY <1>3, <1>5 DEF ListTypes
<1>8. \A p \in Pages : lists[p].rows = R
  BY <1>3, <1>6
<1>9. \A p \in Pages : calls[p].phase = "none"
  BY DEF Accounts!Init, Accounts!Idle, Accounts!Callers
<1>10. ListInv
  BY <1>4, <1>8, <1>9 DEF ListInv, ListFits
<1> QED
  BY <1>7, <1>10

\* All pages but the one that asked are stale.
LEMMA StaleLists ==
  ASSUME ListTypes, NEW c, lists' = [ p \in Pages |-> IF p = c THEN lists[p] ELSE [ lists[p] EXCEPT !.stale = TRUE ] ]
  PROVE  /\ ListTypes'
         /\ \A p \in Pages : p # c => ~ Fresh(p)'
         /\ \A p \in Pages : p = c => lists'[p] = lists[p]
<1>1. ASSUME NEW p \in Pages
      PROVE  /\ [ lists[p] EXCEPT !.stale = TRUE ] \in ListType
             /\ [ lists[p] EXCEPT !.stale = TRUE ].stale = TRUE
  <2>1. lists[p] \in ListType
    BY DEF ListTypes
  <2> QED
    BY <2>1, ListedStale, Zenon DEF ListType
<1> DEFINE old(p) == [ lists[p] EXCEPT !.stale = TRUE ]
<1>2. lists' = [ p \in Pages |-> IF p = c THEN lists[p] ELSE old(p) ]
  OBVIOUS
<1>3. \A p \in Pages : old(p) \in ListType /\ old(p).stale = TRUE
  BY <1>1
<1> HIDE DEF old
<1>4. ListTypes'
  BY <1>2, <1>3 DEF ListTypes
<1>5. \A p \in Pages : p # c => lists'[p].stale = TRUE
  BY <1>2, <1>3
<1>6. \A p \in Pages : p # c => ~ Fresh(p)'
  BY <1>5, Zenon DEF Fresh
<1>7. \A p \in Pages : p = c => lists'[p] = lists[p]
  BY <1>2
<1> QED
  BY <1>4, <1>6, <1>7

LEMMA AllStale ==
  ASSUME ListTypes, lists' = [ p \in Pages |-> [ lists[p] EXCEPT !.stale = TRUE ] ]
  PROVE  ListTypes' /\ \A p \in Pages : ~ Fresh(p)'
<1>1. ASSUME NEW p \in Pages
      PROVE  /\ [ lists[p] EXCEPT !.stale = TRUE ] \in ListType
             /\ [ lists[p] EXCEPT !.stale = TRUE ].stale = TRUE
  <2>1. lists[p] \in ListType
    BY DEF ListTypes
  <2> QED
    BY <2>1, ListedStale, Zenon DEF ListType
<1> DEFINE old(p) == [ lists[p] EXCEPT !.stale = TRUE ]
<1>2. lists' = [ p \in Pages |-> old(p) ]
  OBVIOUS
<1>3. \A p \in Pages : old(p) \in ListType /\ old(p).stale = TRUE
  BY <1>1
<1> HIDE DEF old
<1>4. ListTypes'
  BY <1>2, <1>3 DEF ListTypes
<1>5. \A p \in Pages : lists'[p].stale = TRUE
  BY <1>2, <1>3
<1>6. \A p \in Pages : ~ Fresh(p)'
  BY <1>5, Zenon DEF Fresh
<1> QED
  BY <1>4, <1>6

\* The dialog opened for another row.
LEMMA DialogLists ==
  ASSUME ListTypes, NEW q \in Pages, NEW u \in Users, lists' = [ lists EXCEPT ![q].dialog = u ]
  PROVE  /\ ListTypes'
         /\ \A p \in Pages : lists'[p].rows = lists[p].rows /\ (Fresh(p)' => Fresh(p))
<1> DEFINE v == [ lists[q] EXCEPT !.dialog = u ]
<1>1. lists' = [ lists EXCEPT ![q] = v ]
  BY Zenon DEF ListTypes
<1>2. lists[q] \in ListType
  BY DEF ListTypes
<1>3. v \in ListType /\ v.rows = lists[q].rows /\ v.stale = lists[q].stale
  BY <1>2, ListedDialog, Zenon DEF ListType
<1> HIDE DEF v
<1>4. ListTypes'
  BY <1>1, <1>3 DEF ListTypes
<1>5. \A p \in Pages : lists'[p].rows = lists[p].rows /\ lists'[p].stale = lists[p].stale
  BY <1>1, <1>3 DEF ListTypes
<1> QED
  BY <1>4, <1>5 DEF Fresh

\* Nothing was written, and the request did not start to.
LEMMA QuietList ==
  ASSUME AccountTypes, NEW p \in Pages, ListFits(p), people' = people, lists'[p].rows = lists[p].rows, Fresh(p)' =>
         Fresh(p),
         calls'[p].phase \in Unwritten =>
           calls[p].phase \in Unwritten,
         calls[p].phase \in Unwritten \/ calls'[p].id = calls[p].id,
         calls'[p].op = "delete" /\ calls'[p].phase = "done" =>
           calls'[p].id = calls[p].id /\ calls[p].op = "delete" /\ calls[p].phase = "done"
  PROVE  ListFits(p)'
  BY DEF ListFits

\* A page's own request wrote its row.
LEMMA WrittenList ==
  ASSUME AccountTypes, NEW p \in Pages, NEW row, NEW phase, phase \notin Unwritten, ListFits(p), lists'[p] = lists[p],
         Moved(p, phase), Written(p, calls[p].id, row),
         calls[p].op = "delete" => row = None
  PROVE  ListFits(p)'
  BY DEF ListFits, Moved, Written, Fresh

\* A statement of a request, whichever row it writes.
LEMMA WriteLists ==
  ASSUME AccountTypes, ListTypes, ListInv, NEW c \in Accounts!Callers, NEW table, NEW row,
         NEW phase \in Phases \ Unwritten,
         Accounts!Writes(c, table), Moved(c, phase), Written(c, calls[c].id, row), calls[c].op = "delete" => row = None
  PROVE  ListTypes' /\ ListInv'
<1>1. /\ ListTypes' /\ \A p \in Pages : p # c => ~ Fresh(p)'
      /\ \A p \in Pages : p = c => lists'[p] = lists[p]
  BY StaleLists DEF Accounts!Writes
<1>2. ASSUME NEW p \in Pages, p # c PROVE ListFits(p)'
  BY <1>1, <1>2 DEF ListFits
<1>3. ASSUME NEW p \in Pages, p = c PROVE ListFits(p)'
  BY <1>1, <1>3, WrittenList DEF ListInv
<1> QED
  BY <1>1, <1>2, <1>3 DEF ListInv

LEMMA StillLists ==
  ASSUME AccountTypes, ListTypes, ListInv, NEW c \in Accounts!Callers, NEW phase \in Phases, Moved(c, phase),
         people' = people, lists' = lists,
         phase \in Unwritten => calls[c].phase \in Unwritten, calls[c].op = "delete" => phase # "done"
  PROVE  ListTypes' /\ ListInv'
<1>1. ASSUME NEW p \in Pages PROVE ListFits(p)'
  <2>1. ListFits(p) /\ lists'[p] = lists[p] /\ p \in Accounts!Callers
    BY DEF ListInv, Accounts!Callers
  <2>2. CASE p = c
    BY <2>1, <2>2, QuietList DEF Moved, Fresh
  <2>3. CASE p # c
    <3>1. calls'[p] = calls[p]
      BY <2>1, <2>3 DEF Moved
    <3> QED
      BY <2>1, <3>1, QuietList DEF Fresh
  <2> QED
    BY <2>2, <2>3
<1>2. ListTypes'
  BY DEF ListTypes
<1> QED
  BY <1>1, <1>2 DEF ListInv

LEMMA SendsLists ==
  ASSUME AccountTypes, ListTypes, ListInv, Sends
  PROVE  ListTypes' /\ ListInv'
<1>1. PICK c \in Accounts!Callers, op \in { "setup", "create", "update", "profile", "delete" },
           id \in Users, email \in UserEmails \cup {None}, role \in Roles \cup {None} : Sent(c, op, id, email, role)
  BY SendsStep
<1>2. /\ calls' \in [ Accounts!Callers -> CallType ] /\ calls[c].phase = "none"
      /\ calls'[c] = [ op |-> op, phase |-> "sent", id |-> id, email |-> email, role |-> role, original |-> None ]
      /\ \A d \in Accounts!Callers \ {c} : calls'[d] = calls[d]
      /\ people' = people
  BY <1>1, AsksStep DEF Sent
<1>3. calls'[c].phase = "sent"
  BY <1>2
<1>4. ListTypes' /\ \A p \in Pages : lists'[p].rows = lists[p].rows /\ (Fresh(p)' => Fresh(p))
  <2>1. CASE lists' = lists
    BY <2>1 DEF ListTypes, Fresh
  <2>2. ASSUME NEW q \in Pages, Accounts!ConfirmDelete(q)
        PROVE  ListTypes' /\ \A p \in Pages : lists'[p].rows = lists[p].rows /\ (Fresh(p)' => Fresh(p))
    <3>1. PICK u \in Users : lists' = [ lists EXCEPT ![q].dialog = u ]
      BY <2>2, Zenon DEF Accounts!ConfirmDelete
    <3> QED
      BY <3>1, DialogLists
  <2>3. (\E q \in Pages : Accounts!ConfirmDelete(q)) \/ lists' = lists
    BY DEF Sends, Accounts!Setup, Accounts!SubmitNew, Accounts!SubmitEdit, Accounts!SubmitProfile
  <2> QED
    BY <2>1, <2>2, <2>3
<1>5. ASSUME NEW p \in Pages PROVE ListFits(p)'
  <2>1. ListFits(p) /\ p \in Accounts!Callers
    BY DEF ListInv, Accounts!Callers
  <2>2. CASE p = c
    BY <1>2, <1>3, <1>4, <2>1, <2>2, QuietList DEF Unwritten
  <2>3. CASE p # c
    <3>1. calls'[p] = calls[p]
      BY <1>2, <2>1, <2>3
    <3> QED
      BY <1>2, <1>4, <2>1, <3>1, QuietList
  <2> QED
    BY <2>2, <2>3
<1> QED
  BY <1>4, <1>5 DEF ListInv

LEMMA BreaksLists ==
  ASSUME ListTypes, NEW c, Accounts!Breaks(c)
  PROVE  ListTypes' /\ ListInv'
  BY AllStale DEF Accounts!Breaks, ListInv, ListFits

\* The page shows the answer.
LEMMA AnswerLists ==
  ASSUME AccountTypes, ListTypes, ListInv, NEW c \in Accounts!Callers, Accounts!Answer(c)
  PROVE  ListTypes' /\ ListInv'
<1>1. Accounts!Idle \in CallType /\ Accounts!Idle.phase = "none" /\ Accounts!Idle.id = None /\ Accounts!Idle.op = "none"
  BY DEF Accounts!Idle, CallType, Phases
<1>2. /\ calls' \in [ Accounts!Callers -> CallType ] /\ calls'[c] = Accounts!Idle
         /\ \A d \in Accounts!Callers \ {c} : calls'[d] = calls[d]
      /\ calls[c].phase \in { "refused", "done" } /\ people' = people /\ calls[c].id \in Users
  BY <1>1 DEF Accounts!Answer, AccountTypes, CallFits
<1>3. ASSUME NEW p \in Pages, p # c, ListTypes', lists'[p] = lists[p] PROVE ListFits(p)'
  <2>1. ListFits(p) /\ calls'[p] = calls[p]
    BY <1>2, <1>3 DEF ListInv, Accounts!Callers
  <2> QED
    BY <1>2, <1>3, <2>1, QuietList DEF Fresh
<1>4. CASE c \notin Pages
  <2>1. lists' = lists
    BY <1>4 DEF Accounts!Answer
  <2> QED
    BY <1>3, <1>4, <2>1 DEF ListTypes, ListInv
<1>5. CASE c \in Pages
  <2> DEFINE id == calls[c].id
             new == Accounts!Patched(c)
  <2>0. lists' = [ lists EXCEPT ![c] = new ]
    BY <1>5, Zenon DEF Accounts!Answer
  <2>1. lists[c] \in ListType /\ ListFits(c)
    BY <1>5 DEF ListTypes, ListInv
  <2>3. None \in Users \cup {None} /\ Accounts!Shown(None) = None /\ lists[c].dialog \in Users \cup {None}
        /\ lists[c].rows \in [ Users -> Cards ]
    BY <2>1 DEF ListType, Accounts!Shown
  <2>2. new \in ListType /\ (new.stale = FALSE => \A u \in Users : new.rows[u] = Accounts!Shown(people[u]))
    <3>1. CASE calls[c].phase = "refused"
      <4>1. new = [ lists[c] EXCEPT !.dialog = None ]
        BY <3>1, Zenon DEF Accounts!Patched
      <4>2. new \in ListType /\ new.rows = lists[c].rows /\ new.stale = lists[c].stale
        <5>1. /\ [ lists[c] EXCEPT !.dialog = None ] \in ListType
              /\ [ lists[c] EXCEPT !.dialog = None ].rows = lists[c].rows
              /\ [ lists[c] EXCEPT !.dialog = None ].stale = lists[c].stale
          BY <2>1, <2>3, ListedDialog, Zenon DEF ListType
        <5> HIDE DEF new
        <5> QED
          BY <4>1, <5>1, Zenon
      <4> HIDE DEF new
      <4> QED
        BY <2>1, <3>1, <4>2 DEF ListFits, Unwritten, Fresh
    <3>2. CASE calls[c].phase = "done" /\ calls[c].op = "delete"
      <4> DEFINE r == [ lists[c].rows EXCEPT ![lists[c].dialog] = None ]
                 b == lists[c].stale \/ lists[c].dialog # id
      <4>1. new = [ rows |-> r, dialog |-> None, stale |-> b ]
        BY <3>2 DEF Accounts!Patched
      <4>2. b \in BOOLEAN
        BY Zenon
      <4>3. r \in [ Users -> Cards ]
        BY <2>3 DEF Cards
      <4>4. b = FALSE => lists[c].stale = FALSE /\ lists[c].dialog = id
        BY <2>1 DEF ListType
      <4>5. (\A u \in Users : u # id => lists[c].rows[u] = Accounts!Shown(people[u])) /\ lists[c].dialog = id
            /\ people[id] = None
            => \A u \in Users : r[u] = Accounts!Shown(people[u])
        BY <1>2, <2>3
      <4> HIDE DEF b, r
      <4>6. new \in ListType /\ new.rows = r /\ new.stale = b
        <5>1. /\ [ rows |-> r, dialog |-> None, stale |-> b ] \in ListType
              /\ [ rows |-> r, dialog |-> None, stale |-> b ].rows = r
              /\ [ rows |-> r, dialog |-> None, stale |-> b ].stale = b
          BY <2>3, <4>2, <4>3, ListedNew, Zenon DEF ListType
        <5> HIDE DEF new
        <5> QED
          BY <4>1, <5>1, Zenon
      <4> HIDE DEF new
      <4> QED
        BY <2>1, <3>2, <4>4, <4>5, <4>6 DEF ListFits, Fresh
    <3>3. CASE calls[c].phase = "done" /\ calls[c].op # "delete"
      <4> DEFINE r == [ lists[c].rows EXCEPT ![id] = Accounts!Shown(people[id]) ]
                 b == lists[c].stale \/ ~ Accounts!Present(id)
      <4>1. new = [ rows |-> r, dialog |-> lists[c].dialog, stale |-> b ]
        BY <3>3 DEF Accounts!Patched
      <4>2. b \in BOOLEAN
        BY Zenon
      <4>3. r \in [ Users -> Cards ]
        BY <1>2, <2>3 DEF Cards, AccountTypes
      <4>4. b = FALSE => lists[c].stale = FALSE
        BY <2>1 DEF ListType
      <4>5. (\A u \in Users : u # id => lists[c].rows[u] = Accounts!Shown(people[u]))
            => \A u \in Users : r[u] = Accounts!Shown(people[u])
        BY <1>2, <2>3
      <4> HIDE DEF b, r
      <4>6. new \in ListType /\ new.rows = r /\ new.stale = b
        <5>1. /\ [ rows |-> r, dialog |-> lists[c].dialog, stale |-> b ] \in ListType
              /\ [ rows |-> r, dialog |-> lists[c].dialog, stale |-> b ].rows = r
              /\ [ rows |-> r, dialog |-> lists[c].dialog, stale |-> b ].stale = b
          BY <2>3, <4>2, <4>3, ListedNew, Zenon DEF ListType
        <5> HIDE DEF new
        <5> QED
          BY <4>1, <5>1, Zenon
      <4> HIDE DEF new
      <4> QED
        BY <2>1, <3>3, <4>4, <4>5, <4>6 DEF ListFits, Fresh
    <3> QED
      BY <1>2, <3>1, <3>2, <3>3
  <2> HIDE DEF new
  <2>4. ListTypes'
    BY <2>0, <2>2 DEF ListTypes
  <2>5. ASSUME NEW p \in Pages, p # c PROVE ListFits(p)'
    <3>1. lists'[p] = lists[p]
      BY <2>0, <2>5 DEF ListTypes
    <3> QED
      BY <1>3, <2>4, <2>5, <3>1
  <2>6. lists'[c] = new /\ calls'[c].op = "none"
    BY <1>1, <1>2, <1>5, <2>0 DEF ListTypes
  <2>7. ListFits(c)'
    BY <1>2, <2>2, <2>6 DEF ListFits, Fresh
  <2> QED
    BY <2>4, <2>5, <2>7 DEF ListInv
<1> QED
  BY <1>4, <1>5

LEMMA ReadsLists ==
  ASSUME AccountTypes, ListTypes, ListInv, NEW c \in Accounts!Callers, ReadingStep(c)
  PROVE  ListTypes' /\ ListInv'
<1>1. ReadMoves(c)
  BY ReadsStep
<1>2. ASSUME NEW p \in Pages PROVE ListFits(p)'
  <2>1. ListFits(p) /\ lists' = lists /\ people' = people /\ p \in Accounts!Callers
    BY <1>1 DEF ReadMoves, ListInv, Accounts!Callers
  <2>2. CASE p = c
    <3>1. calls[p].phase \in Unwritten /\ calls'[p].phase # "done"
      BY <1>1, <2>2 DEF ReadMoves, Unwritten
    <3> QED
      BY <2>1, <3>1, QuietList DEF Fresh
  <2>3. CASE p # c
    <3>1. calls'[p] = calls[p]
      BY <1>1, <2>1, <2>3 DEF ReadMoves
    <3> QED
      BY <2>1, <3>1, QuietList DEF Fresh
  <2> QED
    BY <2>2, <2>3
<1> QED
  BY <1>1, <1>2 DEF ReadMoves, ListTypes, ListInv

LEMMA StatementLists ==
  ASSUME AccountTypes, ListTypes, ListInv, NEW c \in Accounts!Callers,
         Accounts!InsertUser(c) \/ Accounts!DeleteUser(c) \/ Accounts!UpdateFields(c) \/ Accounts!StripRole(c)
            \/ Accounts!GiveRole(c) \/ Accounts!LogChanges(c) \/ Accounts!Fail(c)
  PROVE  ListTypes' /\ ListInv'
<1> DEFINE id == calls[c].id
<1>0. /\ { "stripped", "updated", "given", "done" } \subseteq Phases \ Unwritten /\ "refused" \in Phases
      /\ "given" \in Phases /\ "updated" \in Phases /\ "done" \in Phases
      /\ CallFits(c) /\ calls[c] \in CallType
  BY DEF Phases, Unwritten, AccountTypes
<1>1. CASE Accounts!InsertUser(c)
  <2>1. calls[c].phase = "checked" /\ calls[c].op \in { "setup", "create" } /\ id \in Users
        /\ calls[c].email \in UserEmails
    BY <1>0, <1>1 DEF Accounts!InsertUser, CallFits
  <2>2. CASE Accounts!Refused(c) /\ people' = people /\ lists' = lists
    <3>1. Moved(c, "refused")
      BY <1>0, <2>2, GoesStep DEF Accounts!Refused
    <3> QED
      BY <1>0, <2>1, <2>2, <3>1, StillLists DEF Unwritten
  <2>3. CASE Accounts!Goes(c, "stripped") /\ Accounts!Writes(c,
        [ people EXCEPT ![id] = Accounts!Person(calls[c].email, "local", {}) ])
    <3>1. Accounts!Person(calls[c].email, "local", {}) \in Persons
      BY <2>1, PersonTypes
    <3>2. Moved(c, "stripped") /\ Written(c, id, Accounts!Person(calls[c].email, "local", {}))
      BY <1>0, <2>1, <2>3, <3>1, GoesStep, WritesStep
    <3> QED
      BY <1>0, <2>1, <2>3, <3>2, WriteLists
  <2> QED
    BY <1>1, <2>2, <2>3 DEF Accounts!InsertUser
<1>2. CASE Accounts!DeleteUser(c)
  <2>1. id \in Users /\ Accounts!Goes(c, "done") /\ Accounts!Writes(c, [ people EXCEPT ![id] = None ])
    BY <1>0, <1>2 DEF Accounts!DeleteUser, CallFits
  <2>2. Moved(c, "done") /\ Written(c, id, None)
    BY <1>0, <2>1, GoesStep, WritesStep
  <2> QED
    BY <1>0, <2>1, <2>2, WriteLists
<1>3. CASE Accounts!UpdateFields(c)
  <2>1. calls[c].phase = "assessed" /\ id \in Users /\ calls[c].op # "delete"
        /\ calls[c].email \in UserEmails \cup {None}
    BY <1>0, <1>3 DEF Accounts!UpdateFields, CallFits, CallType
  <2>2. CASE Accounts!Breaks(c)
    BY <2>2, BreaksLists
  <2>3. CASE Accounts!Goes(c, "updated") /\ people' = people /\ lists' = lists
    <3>1. Moved(c, "updated")
      BY <1>0, <2>3, GoesStep
    <3> QED
      BY <1>0, <2>1, <2>3, <3>1, StillLists DEF Unwritten
  <2>4. CASE Accounts!Present(id) /\ calls[c].email # None /\ Accounts!Goes(c, "updated")
        /\ Accounts!Writes(c, [ people EXCEPT ![id].email = calls[c].email ])
    <3>1. people[id] \in Persons
      BY <2>1, <2>4 DEF AccountTypes, Accounts!Present
    <3>2. [ people[id] EXCEPT !.email = calls[c].email ] \in Persons
      BY <2>1, <2>4, <3>1 DEF Persons
    <3>3. [ people EXCEPT ![id].email = calls[c].email ] = [ people EXCEPT ![id] = [ people[id] EXCEPT !.email = calls[c].email ] ]
      BY <2>1 DEF AccountTypes
    <3>4. Moved(c, "updated") /\ Written(c, id, [ people[id] EXCEPT !.email = calls[c].email ])
      BY <1>0, <2>1, <2>4, <3>2, <3>3, GoesStep, WritesStep
    <3> QED
      BY <1>0, <2>1, <2>4, <3>4, WriteLists
  <2> QED
    BY <1>3, <2>2, <2>3, <2>4 DEF Accounts!UpdateFields
<1>4. CASE Accounts!StripRole(c)
  <2>1. calls[c].phase = "updated" /\ id \in Users /\ calls[c].op # "delete"
    BY <1>0, <1>4 DEF Accounts!StripRole, CallFits
  <2>2. CASE Accounts!Goes(c, "given") /\ people' = people /\ lists' = lists
    <3>1. Moved(c, "given")
      BY <1>0, <2>2, GoesStep
    <3> QED
      BY <1>0, <2>1, <2>2, <3>1, StillLists
  <2>3. CASE Accounts!Goes(c, "stripped") /\ Accounts!Writes(c,
        IF Accounts!Present(id) THEN [ people EXCEPT ![id].roles = {} ] ELSE people)
    <3> DEFINE row == IF Accounts!Present(id) THEN [ people[id] EXCEPT !.roles = {} ] ELSE None
    <3>1. row \in Persons \cup {None}
      BY <2>1 DEF AccountTypes, Accounts!Present, Persons
    <3>2. (IF Accounts!Present(id) THEN [ people EXCEPT ![id].roles = {} ] ELSE people) = [ people EXCEPT ![id] = row ]
      BY <2>1 DEF AccountTypes, Accounts!Present
    <3> HIDE DEF row
    <3>3. Moved(c, "stripped") /\ Written(c, id, row)
      BY <1>0, <2>1, <2>3, <3>1, <3>2, GoesStep, WritesStep
    <3> QED
      BY <1>0, <2>1, <2>3, <3>3, WriteLists
  <2> QED
    BY <1>4, <2>2, <2>3 DEF Accounts!StripRole
<1>5. CASE Accounts!GiveRole(c)
  <2>1. calls[c].phase = "stripped" /\ id \in Users /\ calls[c].op # "delete" /\ calls[c].role \in Roles
    BY <1>0, <1>5 DEF Accounts!GiveRole, CallFits
  <2>2. CASE Accounts!Breaks(c)
    BY <2>2, BreaksLists
  <2>3. CASE Accounts!Present(id) /\ Accounts!Goes(c, "given")
        /\ Accounts!Writes(c, [ people EXCEPT ![id].roles = @ \cup {calls[c].role} ])
    <3> DEFINE row == [ people[id] EXCEPT !.roles = @ \cup {calls[c].role} ]
    <3>1. people[id] \in Persons
      BY <2>1, <2>3 DEF AccountTypes, Accounts!Present
    <3>2. row \in Persons
      BY <2>1, <3>1 DEF Persons
    <3>3. [ people EXCEPT ![id].roles = @ \cup {calls[c].role} ] = [ people EXCEPT ![id] = row ]
      BY <2>1 DEF AccountTypes
    <3> HIDE DEF row
    <3>4. Moved(c, "given") /\ Written(c, id, row)
      BY <1>0, <2>1, <2>3, <3>2, <3>3, GoesStep, WritesStep
    <3> QED
      BY <1>0, <2>1, <2>3, <3>4, WriteLists
  <2> QED
    BY <1>5, <2>2, <2>3 DEF Accounts!GiveRole
<1>6. CASE Accounts!LogChanges(c)
  <2>1. calls[c].op # "delete" /\ Accounts!Goes(c, "done") /\ people' = people /\ lists' = lists
    BY <1>0, <1>6 DEF Accounts!LogChanges, CallFits
  <2>2. Moved(c, "done")
    BY <1>0, <2>1, GoesStep
  <2> QED
    BY <1>0, <2>1, <2>2, StillLists
<1>7. CASE Accounts!Fail(c)
  BY <1>7, BreaksLists DEF Accounts!Fail
<1> QED
  BY <1>1, <1>2, <1>3, <1>4, <1>5, <1>6, <1>7

AccountInv == PeopleInv /\ ListTypes /\ ListInv

LEMMA AccountInit == Accounts!Init => AccountInv
  BY PeopleInit, InitLists DEF AccountInv

LEMMA AccountSteps == AccountInv /\ [Accounts!Next]_Accounts!vars => AccountInv'
<1> SUFFICES ASSUME AccountInv, [Accounts!Next]_Accounts!vars PROVE AccountInv'
  OBVIOUS
<1>0. AccountTypes /\ ListTypes /\ ListInv
  BY DEF AccountInv, PeopleInv
<1>1. CASE Sends
  BY <1>0, <1>1, SendsLists, PeopleSteps DEF AccountInv
<1>2. ASSUME NEW c \in Accounts!Callers, ReadingStep(c) \/ Accounts!InsertUser(c) \/ Accounts!DeleteUser(c)
      \/ Accounts!UpdateFields(c)
                                \/ Accounts!StripRole(c) \/ Accounts!GiveRole(c) \/ Accounts!LogChanges(c)
                                   \/ Accounts!Fail(c) \/ Accounts!Answer(c)
      PROVE  AccountInv'
  BY <1>0, <1>2, PeopleSteps, ReadsLists, StatementLists, AnswerLists DEF AccountInv
<1>4. CASE Accounts!DeleteRole
  <2>1. ListTypes' /\ ListInv'
    BY <1>0, <1>4, AllStale DEF Accounts!DeleteRole, ListInv, ListFits
  <2> QED
    BY <2>1, PeopleSteps DEF AccountInv
<1>6. ASSUME NEW p \in Pages, Accounts!OpenDelete(p) PROVE AccountInv'
  <2>1. PICK u \in Users : lists' = [ lists EXCEPT ![p].dialog = u ]
    BY <1>6, Zenon DEF Accounts!OpenDelete
  <2>2. people' = people /\ calls' = calls
    BY <1>6 DEF Accounts!OpenDelete
  <2>3. ListTypes' /\ ListInv'
    BY <1>0, <2>1, <2>2, DialogLists, QuietList DEF ListInv
  <2> QED
    BY <2>3, PeopleSteps DEF AccountInv
<1>7. CASE UNCHANGED Accounts!vars
  <2>1. ListTypes' /\ ListInv'
    BY <1>0, <1>7 DEF Accounts!vars, ListTypes, ListInv, ListFits, Fresh
  <2> QED
    BY <2>1, PeopleSteps DEF AccountInv
<1> QED
  BY <1>1, <1>2, <1>4, <1>6, <1>7 DEF Accounts!Next, Sends, ReadingStep

LEMMA AccountsTell ==
  AccountInv => Accounts!SomeoneRemains /\ Accounts!OneRoleEach /\ Accounts!TrailLeadsThere
     /\ Accounts!TakenOnce /\ Accounts!ListMirrors
<1> SUFFICES ASSUME AccountInv PROVE Accounts!SomeoneRemains /\ Accounts!OneRoleEach /\ Accounts!TrailLeadsThere
      /\ Accounts!TakenOnce /\ Accounts!ListMirrors
  OBVIOUS
<1>1. Accounts!SomeoneRemains
  BY DEF AccountInv, PeopleInv, RemainInv
<1>2. Accounts!OneRoleEach
  <2> SUFFICES ASSUME NEW u \in Users \ disturbed, Accounts!Present(u), Accounts!Resting(u)
               PROVE  Cardinality(people[u].roles) = 1
    BY SameCardinality DEF Accounts!OneRoleEach
  <2>1. PICK r \in Roles : people[u].roles = {r}
    BY DEF AccountInv, PeopleInv, RoleInv, Accounts!Resting
  <2> QED
    BY <2>1, FS_Singleton
<1>3. Accounts!TrailLeadsThere
  BY DEF AccountInv, PeopleInv, TrailInv, Accounts!TrailLeadsThere, Accounts!Resting
<1>4. Accounts!TakenOnce
  BY DEF AccountInv, PeopleInv, TakenInv, Accounts!TakenOnce
<1>5. Accounts!ListMirrors
  <2> SUFFICES ASSUME NEW p \in Pages, ~ lists[p].stale, calls[p] = Accounts!Idle
               PROVE  lists[p].rows = [ u \in Users |-> Accounts!Shown(people[u]) ]
    BY DEF Accounts!ListMirrors
  <2>1. lists[p] \in ListType /\ ListFits(p)
    BY DEF AccountInv, ListTypes, ListInv
  <2>2. Fresh(p)
    <3>1. lists[p].stale \in BOOLEAN
      BY <2>1 DEF ListType
    <3> QED
      BY <3>1, Zenon DEF Fresh
  <2>3. calls[p].phase \in Unwritten /\ lists[p].rows \in [ Users -> Cards ]
    BY <2>1 DEF Accounts!Idle, Unwritten, ListType
  <2> QED
    BY <2>1, <2>2, <2>3 DEF ListFits
<1> QED
  BY <1>1, <1>2, <1>3, <1>4, <1>5

-----------------------------------------------------------------------------
(* The list of messages: from it just what was confirmed is deleted, what   *)
(* stays selected exists and lies in one merge group.                       *)

\* The messages a source's list may show.
Group(source) == { m \in Messages : m.root = Browsing!Root(source) }

BulkTypes == bulk \in [ asked : SUBSET Messages, left : SUBSET Messages, done : SUBSET Messages ]

\* What is on screen, on its way there or ticked belongs to the source listed,
\* and what is ticked is there unless the deletion under way took it.
BrowseInv ==
    /\ BulkTypes
    /\ shown.rows \subseteq Group(shown.source)
    /\ moving.rows \subseteq Group(moving.source)
    /\ selected \subseteq Group(shown.source)
    /\ \A m, n \in bulk.asked : m.root = n.root
    /\ bulk.left \subseteq bulk.asked /\ bulk.done \subseteq bulk.asked
    /\ ~lost => selected \ bulk.done \subseteq archive

LEMMA BrowseInit == Browsing!Init => BrowseInv
  BY DEF Browsing!Init, BrowseInv, BulkTypes, Browsing!NoBulk, Browsing!NoMove, Browsing!Page

LEMMA TicksKeep ==
  ASSUME BrowseInv, NEW ids, ids \subseteq selected \cup shown.rows, Browsing!Ticks(ids)
  PROVE  BrowseInv'
<1>1. /\ selected' = ids /\ UNCHANGED << archive, shown, bulk, moving >>
      /\ ~lost' => ~lost /\ ids \ selected \subseteq archive
  BY DEF Browsing!Ticks
<1> QED
  BY <1>1 DEF BrowseInv, BulkTypes, Group

LEMMA BrowseSteps ==
  ASSUME Browsing!ListAssumption, BrowseInv, [Browsing!Next]_Browsing!vars
  PROVE  BrowseInv'
<1> USE DEF BrowseInv, BulkTypes
<1>1. CASE UNCHANGED Browsing!vars
  BY <1>1 DEF Browsing!vars, Group
<1>2. CASE Browsing!HandleSourceChange \/ Browsing!FollowPage
  BY <1>2 DEF Browsing!HandleSourceChange, Browsing!FollowPage, Browsing!Goto, Browsing!Page, Group
<1>3. CASE Browsing!Load
  <2>1. PICK found \in Browsing!ListPages(moving.source, moving.no) : moving' = Browsing!Page(moving.source,
        moving.no, found, TRUE)
    BY <1>3 DEF Browsing!Load
  <2>2. found \subseteq Group(moving.source)
    BY <2>1 DEF Browsing!ListPages, Browsing!Listed, Group, Browsing!ListAssumption
  <2>3. moving'.rows = found /\ moving'.source = moving.source
    BY <2>1 DEF Browsing!Page
  <2> QED
    BY <1>3, <2>2, <2>3 DEF Browsing!Load, Group
<1>4. CASE Browsing!Render
  BY <1>4 DEF Browsing!Render, Browsing!NoMove, Browsing!Page, Group
<1>5. CASE Browsing!Toggle
  <2>1. PICK m \in shown.rows : Browsing!Ticks(IF m \in selected THEN selected \ {m} ELSE selected \cup {m})
    BY <1>5 DEF Browsing!Toggle
  <2> QED
    BY <2>1, TicksKeep
<1>6. CASE Browsing!ToggleAll
  BY <1>6, TicksKeep DEF Browsing!ToggleAll
<1>7. CASE Browsing!ConfirmBulkDelete
  BY <1>7 DEF Browsing!ConfirmBulkDelete, Browsing!NoBulk, Group
<1>8. CASE Browsing!DeleteOne
  <2>1. PICK m \in bulk.left : 
          /\ archive' = archive \ {m}
          /\ bulk' = [ bulk EXCEPT !.left = @ \ {m}, !.done = @ \cup {m} ]
    BY <1>8 DEF Browsing!DeleteOne, Browsing!Queue
  <2>2. BulkTypes' /\ bulk'.asked = bulk.asked /\ bulk'.left = bulk.left \ {m} /\ bulk'.done = bulk.done \cup {m}
    BY <2>1
  <2> QED
    BY <1>8, <2>1, <2>2 DEF Browsing!DeleteOne, Group
<1>9. CASE Browsing!BulkRefused
  <2>1. /\ selected' = selected \ bulk.done /\ bulk' = Browsing!NoBulk /\ UNCHANGED << shown, moving >>
        /\ UNCHANGED << archive, lost >> \/ lost'
    BY <1>9 DEF Browsing!BulkRefused
  <2> QED
    BY <2>1 DEF Browsing!NoBulk, Group
<1>10. CASE Browsing!BulkEnds
  BY <1>10 DEF Browsing!BulkEnds, Browsing!NoBulk, Browsing!Goto, Browsing!Page, Group
<1>11. CASE Browsing!BulkThrows
  BY <1>11 DEF Browsing!BulkThrows, Browsing!NoBulk, Group
<1>12. CASE Browsing!Elsewhere
  BY <1>12 DEF Browsing!Elsewhere, Group
<1> HIDE DEF BrowseInv, BulkTypes
<1>13. CASE Browsing!Next
  BY <1>2, <1>3, <1>4, <1>5, <1>6, <1>7, <1>8, <1>9, <1>10, <1>11, <1>12, <1>13, Zenon DEF Browsing!Next
<1> QED
  BY <1>1, <1>13

LEMMA BrowseTells == BrowseInv => Browsing!DeletesChosen /\ Browsing!SelectionStands /\ Browsing!WithinGroup
  BY DEF BrowseInv, Browsing!DeletesChosen, Browsing!SelectionStands, Browsing!WithinGroup, Group, Browsing!NoBulk

-----------------------------------------------------------------------------
(* The page of a message: what is drawn last is its own, its report tells   *)
(* the truth, what it offers is served, a deletion leads to its mailbox.    *)

\* What a file that was not erased is read as.
LEMMA GetTells ==
  ASSUME NEW file, file.bytes \in Reading!FileStates
  PROVE  /\ Reading!Get(file) # "refused"
         /\ Reading!Get(file) = "unreadable" => Reading!Erased(file) \/ ~ Reading!Kept(file)
         /\ ~ Reading!Erased(file) => (Reading!Get(file) = "original" <=> file.bytes = "archived" /\ (file.prefix => keyed))
         /\ Reading!Erased(file) => Reading!Get(file) = "unreadable"
<1>1. CASE file.bytes = "missing" \/ Reading!Erased(file)
  <2>1. Reading!Get(file) = "unreadable"
    BY <1>1, Zenon DEF Reading!Get
  <2> QED
    BY <1>1, <2>1 DEF Reading!Kept
<1>2. CASE file.bytes = "garbled" /\ ~ Reading!Erased(file)
  <2>1. Reading!Get(file) = IF keyed /\ file.prefix THEN "unreadable" ELSE "other"
    BY <1>2, Zenon DEF Reading!Get
  <2> QED
    BY <1>2, <2>1 DEF Reading!Kept
<1>3. CASE file.bytes = "altered" /\ ~ Reading!Erased(file)
  <2>1. Reading!Get(file) = "other"
    BY <1>3, Zenon DEF Reading!Get
  <2> QED
    BY <1>3, <2>1
<1>4. CASE file.bytes = "archived" /\ ~ Reading!Erased(file)
  <2>1. Reading!Get(file) = IF file.prefix /\ ~keyed THEN "other" ELSE "original"
    BY <1>4, Zenon DEF Reading!Get
  <2>2. CASE file.prefix /\ ~ keyed
    BY <1>4, <2>1, <2>2, Zenon
  <2>3. CASE ~ (file.prefix /\ ~ keyed)
    BY <1>4, <2>1, <2>3, Zenon
  <2> QED
    BY <2>2, <2>3
<1> QED
  BY <1>1, <1>2, <1>3, <1>4 DEF Reading!FileStates

Reports(t) ==
    \A file \in t.offered :
        (IF file = t.id.file THEN t.email ELSE file \in t.parts) <=> file.bytes = "archived" /\ (file.prefix => keyed)

LEMMA NotFoundFields ==
  /\ Reading!NotFound.at = "message" /\ Reading!NotFound.id = Nobody /\ Reading!NotFound.thread = {}
     /\ Reading!NotFound.load = 0
  /\ \A m : /\ Reading!Toward(m).at = "message" /\ Reading!Toward(m).id = m /\ Reading!Toward(m).thread = {}
     /\ Reading!Toward(m).load = 0
            /\ LET l == [ Reading!NotFound EXCEPT !.at = "list", !.id = m ]
               IN l.at = "list" /\ l.id = m /\ l.thread = {} /\ l.load = 0
  /\ Reading!Resting.target.at = "none" /\ Reading!Resting.target.id = Nobody /\ Reading!Resting.target.thread = {}
  /\ Reading!Resting.target.load = 0 /\ Reading!Resting.read
<1>1. \A no, yes : 
        LET r == [ at |-> "message", id |-> Nobody, email |-> no, parts |-> {}, offered |-> {},
              thread |-> {}, load |-> 0 ]
            s == [ target |-> [ r EXCEPT !.at = "none" ], read |-> yes ]
        IN  /\ r.at = "message" /\ r.id = Nobody /\ r.thread = {} /\ r.load = 0
            /\ \A m : /\ [ r EXCEPT !.id = m ].at = "message" /\ [ r EXCEPT !.id = m ].id = m
                      /\ [ r EXCEPT !.id = m ].thread = {} /\ [ r EXCEPT !.id = m ].load = 0
                      /\ LET l == [ r EXCEPT !.at = "list", !.id = m ]
                         IN l.at = "list" /\ l.id = m /\ l.thread = {} /\ l.load = 0
            /\ s.target.at = "none" /\ s.target.id = Nobody /\ s.target.thread = {}
            /\ s.target.load = 0 /\ s.read = yes
  OBVIOUS
<1> QED
  BY <1>1, Zenon DEF Reading!NotFound, Reading!Toward, Reading!Resting

LEMMA GotoStep ==
  ASSUME NEW t, Reading!Goto(t)
  PROVE  loading'.target = t /\ ~ loading'.read
<1>1. \A no : [ target |-> t, read |-> no ].target = t /\ [ target |-> t, read |-> no ].read = no
  OBVIOUS
<1> QED
  BY <1>1, Zenon DEF Reading!Goto

LEMMA ShownFields ==
  ASSUME Reading!ViewAssumption, NEW m
  PROVE  \/ Reading!Shown(m) = Reading!NotFound
         \/ /\ m \in stored \cap Readers
            /\ Reading!Shown(m).at = "message" /\ Reading!Shown(m).id = m
               /\ Reading!Shown(m).thread = Reading!Thread(m) /\ Reading!Shown(m).load = steps + 1
            /\ Reading!Shown(m).offered \subseteq {m.file} \cup m.parts
            /\ Reports(Reading!Shown(m))
<1> SUFFICES ASSUME m \in stored \cap Readers, Reading!Get(m.file) # "unreadable"
             PROVE  /\ Reading!Shown(m).at = "message" /\ Reading!Shown(m).id = m
                          /\ Reading!Shown(m).thread = Reading!Thread(m)
                    /\ Reading!Shown(m).load = steps + 1
                    /\ Reading!Shown(m).offered \subseteq {m.file} \cup m.parts
                    /\ Reports(Reading!Shown(m))
  BY Zenon DEF Reading!Shown
<1> DEFINE e == Reading!Get(m.file) = "original"
           parts == { p \in Reading!Parts(m) : Reading!Get(p) = "original" }
           offered == Reading!Offered(m)
           thread == Reading!Thread(m)
           load == steps + 1
<1>1. \A no, yes : 
        LET r == [ at |-> "message", id |-> Nobody, email |-> no, parts |-> {}, offered |-> {},
                   thread |-> {}, load |-> 0 ]
            c == [ email |-> yes, parts |-> parts ]
            s == [ r EXCEPT !.id = m, !.email = c.email, !.parts = c.parts,
                            !.offered = offered, !.thread = thread, !.load = load ]
        IN  /\ s.at = "message" /\ s.id = m /\ s.email = yes /\ s.parts = parts
            /\ s.offered = offered /\ s.thread = thread /\ s.load = load
  <2> HIDE DEF parts, offered, thread, load
  <2> QED
    OBVIOUS
<1>2. /\ Reading!Shown(m).at = "message" /\ Reading!Shown(m).id = m
         /\ Reading!Shown(m).thread = Reading!Thread(m) /\ Reading!Shown(m).load = steps + 1
      /\ Reading!Shown(m).email = e /\ Reading!Shown(m).parts = parts /\ Reading!Shown(m).offered = offered
  BY <1>1, Zenon DEF Reading!Shown, Reading!NotFound, Reading!CheckEmailIntegrity
<1>3. ASSUME NEW file \in Reading!Offered(m)
      PROVE  (IF file = m.file THEN Reading!Shown(m).email ELSE file \in Reading!Shown(m).parts)
               <=> file.bytes = "archived" /\ (file.prefix => keyed)
  <2>1. file.bytes \in Reading!FileStates /\ m.file.bytes \in Reading!FileStates
    BY <1>3 DEF Reading!Offered, Reading!Parts, Reading!ViewAssumption
  <2>2. ~ Reading!Erased(file)
    <3>1. CASE file = m.file
      BY <2>1, <3>1, GetTells
    <3>2. CASE file \in m.parts
      BY <3>2 DEF Reading!Erased, Reading!ViewAssumption
    <3> QED
      BY <1>3, <3>1, <3>2 DEF Reading!Offered, Reading!Parts
  <2>3. Reading!Get(file) = "original" <=> file.bytes = "archived" /\ (file.prefix => keyed)
    BY <2>1, <2>2, GetTells
  <2>4. CASE file = m.file
    BY <1>2, <2>3, <2>4, Zenon
  <2>5. CASE file # m.file
    <3>1. file \in Reading!Parts(m)
      BY <1>3, <2>5 DEF Reading!Offered
    <3> QED
      BY <1>2, <2>3, <2>5, <3>1, Zenon
  <2> QED
    BY <2>4, <2>5
<1>4. Reports(Reading!Shown(m))
  BY <1>2, <1>3, Zenon DEF Reports
<1>5. offered \subseteq {m.file} \cup m.parts
  BY DEF Reading!Offered, Reading!Parts
<1> HIDE DEF offered
<1> QED
  BY <1>2, <1>4, <1>5


Drawings == [ id : Mails \cup {Nobody}, load : Nat ]
Parses == [ display : Reading!Displays, id : Mails, load : Nat ]

ViewTypes ==
    /\ stored \subseteq Mails /\ steps \in Nat
    /\ screen.load \in Nat /\ loading.target.load \in Nat
    /\ screen.at \in { "message", "list" } /\ loading.target.at \in { "message", "list", "none" }
    /\ parses \subseteq Parses /\ drawn \in [ Reading!Displays -> Drawings ]

\* What a page says of its message, and where its thread leads.
Tells(t) ==
    /\ t.id = Nobody => t.thread = {}
    /\ \A m \in t.thread : m \in Mails /\ m.root = t.id.root
    /\ t.at = "message" /\ t.id # Nobody =>
          t.id \in Readers /\ Reports(t) /\ t.offered \subseteq {t.id.file} \cup t.id.parts
Truth ==
    /\ Tells(screen)
    /\ loading.read => Tells(loading.target)
    /\ ~ loading.read => loading.target.thread = {}

\* All that the page has to do with lies in one merge group.
Near == { screen.id, loading.target.id, deleting, goner } \ {Nobody}
Roots == Near \subseteq Mails /\ \A m, n \in Near : m.root = n.root

\* A list follows a deletion.
Lists ==
    /\ screen.at = "list" => screen.id # Nobody /\ goner # Nobody /\ loading.target.at \in { "list", "none" }
    /\ loading.target.at = "list" => loading.target.id # Nobody /\ goner # Nobody /\ loading.target.load = 0
    /\ ~ loading.read => loading.target.at # "none"
    /\ loading.target.at = "none" => loading = Reading!Resting

\* Each load of a message is later than the one on screen.
Loads ==
    /\ screen.load <= steps + 1
    /\ loading.target.at = "message" /\ ~ loading.read => screen.load <= steps
    /\ loading.target.at = "message" /\ loading.read /\ loading.target.id # Nobody =>
          screen.load < loading.target.load /\ loading.target.load <= steps + 1
    /\ loading.target.at = "message" /\ loading.read /\ loading.target.id = Nobody => loading.target = Reading!NotFound

\* Nothing is younger than the message on screen, and what is as young is its own.
Blank == parses = {} /\ drawn = Reading!Undrawn
Newest ==
    /\ screen.at = "message" /\ screen.id = Nobody => Blank \/ loading.target.at = "none"
    /\ Reading!OnScreen =>
          /\ screen.load > 0
          /\ \A p \in parses : p.load <= screen.load /\ (p.load = screen.load => p.id = screen.id)
          /\ \A d \in Reading!Displays : drawn[d].load <= screen.load
             /\ (drawn[d].load = screen.load => drawn[d].id = screen.id)
          /\ screen.id.parsable =>
                \A d \in Reading!Displays \ overtaken :
                    (\E p \in parses : p.display = d /\ p.load = screen.load) \/ drawn[d].load = screen.load

ViewInv == ViewTypes /\ Truth /\ Roots /\ Lists /\ Loads /\ Newest

LEMMA ViewInit == Reading!ViewAssumption /\ Reading!Init => ViewInv
<1> SUFFICES ASSUME Reading!ViewAssumption, Reading!Init PROVE ViewInv
  OBVIOUS
<1>1. PICK m \in Readers : loading = [ target |-> Reading!Toward(m), read |-> FALSE ]
  BY DEF Reading!Init
<1>2. loading.target = Reading!Toward(m) /\ ~ loading.read
  <2>1. \A t, no : [ target |-> t, read |-> no ].target = t /\ [ target |-> t, read |-> no ].read = no
    OBVIOUS
  <2> QED
    BY <1>1, <2>1, Zenon
<1>3. /\ stored = Mails /\ screen = Reading!NotFound /\ deleting = Nobody /\ goner = Nobody
      /\ parses = {} /\ drawn = Reading!Undrawn /\ steps = 0
  BY DEF Reading!Init
<1>4. /\ screen.at = "message" /\ screen.id = Nobody /\ screen.thread = {} /\ screen.load = 0
      /\ loading.target.at = "message" /\ loading.target.id = m /\ loading.target.load = 0
      /\ loading.target.thread = {}
  BY <1>2, <1>3, NotFoundFields
<1>5. ViewTypes
  BY <1>3, <1>4 DEF ViewTypes, Reading!Undrawn, Drawings
<1>6. Truth
  BY <1>2, <1>4 DEF Truth, Tells
<1>7. Roots
  BY <1>3, <1>4 DEF Roots, Near, Reading!ViewAssumption
<1>8. Lists /\ Loads /\ Newest
  BY <1>2, <1>3, <1>4 DEF Lists, Loads, Newest, Reading!OnScreen, Blank
<1> QED
  BY <1>5, <1>6, <1>7, <1>8 DEF ViewInv

\* What depends on the screen and the displays stays while neither changes.
ScreenStays == UNCHANGED << keyed, screen, parses, drawn, overtaken >>

LEMMA ScreenTells ==
  ASSUME Tells(screen), screen' = screen, keyed' = keyed
  PROVE  Tells(screen)'
  BY DEF Tells, Reports, Reading!Offered

\* A step that goes to a message or to the list.
LEMMA GoesTo ==
  ASSUME Reading!ViewAssumption, ViewInv, ScreenStays, NEW t, loading'.target = t, ~ loading'.read,
         t.load = 0, t.thread = {}, t.id \in Mails, t.id.root = screen.id.root, screen.id # Nobody,
         \/ t.at = "message" /\ screen.at = "message" /\ steps' = steps + 1 /\ UNCHANGED << deleting, goner >>
         \/ t.at = "list" /\ goner' = deleting /\ deleting' = Nobody /\ deleting # Nobody /\ steps' = steps,
         stored' \subseteq stored
  PROVE  ViewInv'
<1> USE DEF ViewInv, ScreenStays
<1>1. ViewTypes'
  BY DEF ViewTypes
<1>2. Truth'
  BY ScreenTells DEF Truth
<1>3. Roots'
  BY DEF Roots, Near
<1>4. Lists'
  BY DEF Lists, Reading!ViewAssumption
<1>5. Loads'
  BY DEF Loads, ViewTypes
<1>6. Newest'
  BY DEF Newest, Reading!OnScreen, Blank
<1> QED
  BY <1>1, <1>2, <1>3, <1>4, <1>5, <1>6

\* A step that neither goes anywhere nor draws.
LEMMA StaysThere ==
  ASSUME ViewInv, ScreenStays, loading' = loading, Near' \subseteq Near,
         goner' = goner \/ goner' # Nobody, stored' \subseteq stored, steps' \in { steps, steps + 1 }
  PROVE  ViewInv'
<1> USE DEF ViewInv, ScreenStays
<1>1. ViewTypes'
  BY DEF ViewTypes
<1>2. Truth'
  BY DEF Truth, Tells, Reports, Reading!Offered
<1>3. Roots'
  BY DEF Roots
<1>4. Lists'
  BY DEF Lists
<1>5. Loads'
  BY DEF Loads, ViewTypes
<1>6. Newest'
  BY DEF Newest, Reading!OnScreen, Blank
<1> QED
  BY <1>1, <1>2, <1>3, <1>4, <1>5, <1>6

LEMMA LoadKeeps ==
  ASSUME Reading!ViewAssumption, ViewInv, Reading!Load
  PROVE  ViewInv'
<1> USE DEF ViewInv
<1> DEFINE t == loading.target
<1>0. /\ UNCHANGED << stored, taken, onHold, keyed, screen, parses, drawn, deleting, goner, steps, overtaken >>
      /\ ~ loading.read
  BY DEF Reading!Load
<1>1. /\ loading'.target \in IF t.at = "list" THEN {t} ELSE { Reading!Shown(t.id), Reading!NotFound }
      /\ loading'.read
  <2>1. \A x, yes : [ target |-> x, read |-> yes ].target = x /\ [ target |-> x, read |-> yes ].read = yes
    OBVIOUS
  <2>2. PICK x \in IF t.at = "list" THEN {t} ELSE { Reading!Shown(t.id), Reading!NotFound } :
           loading' = [ target |-> x, read |-> TRUE ]
    BY Zenon DEF Reading!Load
  <2> QED
    BY <2>1, <2>2, Zenon
<1>2. CASE t.at = "list"
  <2>1. loading'.target = t
    BY <1>1, <1>2
  <2>2. ViewTypes' /\ Roots' /\ Lists' /\ Loads' /\ Newest'
    BY <1>0, <1>1, <1>2, <2>1 DEF ViewTypes, Roots, Near, Lists, Loads, Newest, Reading!OnScreen, Blank
  <2>3. Tells(t)
    BY <1>0, <1>2 DEF Truth, Tells, Lists
  <2>4. Tells(loading.target)'
    BY <1>2, <2>1, <2>3 DEF Tells
  <2> QED
    BY <1>0, <1>1, <2>2, <2>4, ScreenTells DEF Truth
<1>3. CASE t.at # "list"
  <2>1. t.at = "message" /\ screen.load <= steps
    BY <1>0, <1>3 DEF ViewTypes, Lists, Loads
  <2>2. CASE loading'.target = Reading!NotFound
    <3>1. /\ loading'.target = Reading!NotFound /\ loading'.target.at = "message" /\ loading'.target.id = Nobody
          /\ loading'.target.load = 0 /\ loading'.target.thread = {}
      BY <1>1, <1>3, <2>2, NotFoundFields
    <3>2. ViewTypes' /\ Roots' /\ Lists' /\ Loads' /\ Newest'
      BY <1>0, <1>1, <2>1, <3>1 DEF ViewTypes, Roots, Near, Lists, Loads, Newest, Reading!OnScreen, Blank
    <3>3. Tells(loading.target)'
      BY <3>1 DEF Tells
    <3> QED
      BY <1>0, <1>1, <3>2, <3>3, ScreenTells DEF Truth
  <2>3. CASE loading'.target # Reading!NotFound
    <3>1. /\ loading'.target = Reading!Shown(t.id) /\ t.id \in stored \cap Readers
          /\ loading'.target.at = "message" /\ loading'.target.id = t.id
          /\ loading'.target.thread = Reading!Thread(t.id) /\ loading'.target.load = steps + 1
          /\ Reports(Reading!Shown(t.id)) /\ loading'.target.offered \subseteq {t.id.file} \cup t.id.parts
      BY <1>1, <1>3, <2>3, ShownFields
    <3>2. t.id # Nobody
      BY <3>1 DEF Reading!ViewAssumption
    <3>3. ViewTypes' /\ Roots' /\ Lists' /\ Loads' /\ Newest'
      BY <1>0, <1>1, <2>1, <3>1, <3>2 DEF ViewTypes, Roots, Near, Lists, Loads, Newest, Reading!OnScreen, Blank
    <3>4. Reports(loading.target)'
      BY <1>0, <3>1 DEF Reports, Reading!Offered
    <3>5. \A m \in Reading!Thread(t.id) : m \in Mails /\ m.root = t.id.root
      BY DEF Reading!Thread, ViewTypes
    <3>6. Tells(loading.target)'
      BY <3>1, <3>2, <3>4, <3>5 DEF Tells
    <3> QED
      BY <1>0, <1>1, <3>3, <3>6, ScreenTells DEF Truth
  <2> QED
    BY <2>2, <2>3
<1> QED
  BY <1>2, <1>3

LEMMA RenderKeeps ==
  ASSUME Reading!ViewAssumption, ViewInv, Reading!Render
  PROVE  ViewInv'
<1> USE DEF ViewInv
<1> DEFINE t == loading.target
<1>0. /\ UNCHANGED << stored, taken, onHold, keyed, deleting, goner, steps >>
      /\ loading # Reading!Resting /\ loading.read /\ screen' = t /\ loading' = Reading!Resting
  BY DEF Reading!Render
<1>1. t.at \in { "message", "list" }
  BY <1>0 DEF ViewTypes, Lists
<1>2. /\ t.at = "list" => parses' = {} /\ drawn' = Reading!Undrawn /\ overtaken' = {}
      /\ t = Reading!NotFound => /\ parses' = { p \in parses : p.display = "embedded" }
                         /\ drawn' = [ drawn EXCEPT !["preview"] = Reading!Undrawn["preview"] ]
      /\ t.at # "list" /\ t # Reading!NotFound => parses' = parses \cup Reading!Started(t) /\ UNCHANGED << drawn,
         overtaken >>
  <2>1. CASE t.at = "list"
    <3>1. t # Reading!NotFound
      BY <2>1, NotFoundFields
    <3> QED
      BY <2>1, <3>1, Zenon DEF Reading!Render
  <2>2. CASE t = Reading!NotFound
    <3>1. t.at # "list"
      BY <2>2, NotFoundFields
    <3> QED
      BY <2>2, <3>1, Zenon DEF Reading!Render
  <2>3. CASE t.at # "list" /\ t # Reading!NotFound
    BY <2>3, Zenon DEF Reading!Render
  <2> QED
    BY <2>1, <2>2, <2>3
<1>3. t.at = "message" /\ t # Reading!NotFound => t.id # Nobody
  BY <1>0 DEF Loads
<1>4. Truth'
  <2>1. Tells(screen)'
    BY <1>0 DEF Truth, Tells, Reports, Reading!Offered
  <2>2. Tells(loading.target)' /\ loading'.read
    BY <1>0, NotFoundFields DEF Tells
  <2> QED
    BY <2>1, <2>2 DEF Truth
<1>5. Roots'
  BY <1>0, NotFoundFields DEF Roots, Near
<1>6. Lists'
  BY <1>0, <1>1, NotFoundFields DEF Lists
<1>7. Loads'
  <2>1. screen'.load <= steps + 1
    <3>1. CASE t.at = "list"
      BY <1>0, <3>1 DEF Loads, Lists, ViewTypes
    <3>2. CASE t = Reading!NotFound
      BY <1>0, <3>2, NotFoundFields DEF ViewTypes
    <3>3. CASE t.at # "list" /\ t # Reading!NotFound
      BY <1>0, <1>1, <1>3, <3>3 DEF Loads
    <3> QED
      BY <3>1, <3>2, <3>3
  <2> QED
    BY <1>0, <2>1, NotFoundFields DEF Loads
<1>8. ViewTypes'
  <2>1. parses' \subseteq Parses /\ drawn' \in [ Reading!Displays -> Drawings ]
    <3>1. Reading!Undrawn \in [ Reading!Displays -> Drawings ]
      BY DEF Reading!Undrawn, Drawings
    <3>2. CASE t.at = "list"
      BY <1>2, <3>1, <3>2
    <3>3. CASE t = Reading!NotFound
      BY <1>2, <3>1, <3>3 DEF ViewTypes
    <3>4. CASE t.at # "list" /\ t # Reading!NotFound
      <4>1. t.id \in Mails
        BY <1>1, <1>3, <3>4 DEF Roots, Near
      <4>2. Reading!Started(t) \subseteq Parses
        BY <4>1 DEF Reading!Started, Parses, ViewTypes
      <4> QED
        BY <1>2, <3>4, <4>2 DEF ViewTypes
    <3> QED
      BY <3>2, <3>3, <3>4
  <2> QED
    BY <1>0, <1>1, <2>1, NotFoundFields DEF ViewTypes
<1>9. Newest'
  <2>1. CASE t.at = "list"
    BY <1>0, <2>1 DEF Newest, Reading!OnScreen
  <2>2. CASE t = Reading!NotFound
    BY <1>0, <2>2, NotFoundFields DEF Newest, Reading!OnScreen
  <2>3. CASE t.at # "list" /\ t # Reading!NotFound
    <3>1. /\ t.id # Nobody /\ t.at = "message" /\ screen.load < t.load
          /\ parses' = parses \cup Reading!Started(t) /\ UNCHANGED << drawn, overtaken >>
      BY <1>0, <1>1, <1>2, <1>3, <2>3 DEF Loads
    <3>2. screen.at = "message" /\ t.load \in Nat /\ screen.load \in Nat /\ t.load > 0
      BY <3>1 DEF Lists, ViewTypes
    <3>3. \A p \in parses : p.load < t.load
      <4>1. CASE screen.id = Nobody
        BY <3>1, <3>2, <4>1 DEF Newest, Blank
      <4>2. CASE screen.id # Nobody
        BY <3>1, <3>2, <4>2 DEF Newest, Reading!OnScreen, ViewTypes, Parses
      <4> QED
        BY <4>1, <4>2
    <3>4. \A d \in Reading!Displays : drawn[d].load < t.load
      <4>1. CASE screen.id = Nobody
        <5>1. drawn = Reading!Undrawn
          BY <3>1, <3>2, <4>1 DEF Newest, Blank
        <5> QED
          BY <3>2, <5>1 DEF Reading!Undrawn
      <4>2. CASE screen.id # Nobody
        <5>1. \A d \in Reading!Displays : drawn[d].load \in Nat /\ drawn[d].load <= screen.load
          BY <3>2, <4>2 DEF Newest, Reading!OnScreen, ViewTypes, Drawings
        <5> QED
          BY <3>1, <3>2, <5>1
      <4> QED
        BY <4>1, <4>2
    <3>5. /\ \A p \in Reading!Started(t) : p.load = t.load /\ p.id = t.id
          /\ \A d \in Reading!Displays : \E p \in Reading!Started(t) : p.display = d /\ p.load = t.load
      <4>1. Reading!Started(t) = { [ display |-> d, id |-> t.id, load |-> t.load ] : d \in Reading!Displays }
        BY DEF Reading!Started
      <4>2. \A p \in Reading!Started(t) : p.load = t.load /\ p.id = t.id
        BY <4>1
      <4>3. ASSUME NEW d \in Reading!Displays PROVE \E p \in Reading!Started(t) : p.display = d /\ p.load = t.load
        <5> USE <4>1
        <5> WITNESS [ display |-> d, id |-> t.id, load |-> t.load ] \in Reading!Started(t)
        <5> QED
          OBVIOUS
      <4> QED
        BY <4>2, <4>3
    <3>6. /\ \A p \in parses' : p.load <= t.load /\ (p.load = t.load => p.id = t.id)
          /\ \A d \in Reading!Displays : drawn'[d].load <= t.load /\ drawn'[d].load # t.load
      <4>1. \A p \in parses : p.load \in Nat
        BY DEF ViewTypes, Parses
      <4>2. \A d \in Reading!Displays : drawn[d].load \in Nat
        BY DEF ViewTypes, Drawings
      <4> QED
        BY <3>1, <3>2, <3>3, <3>4, <3>5, <4>1, <4>2
    <3>7. screen'.at = "message" /\ screen'.id # Nobody /\ screen'.id = t.id /\ screen'.load = t.load
      BY <1>0, <3>1
    <3>8. \A d \in Reading!Displays \ overtaken' : \E p \in parses' : p.display = d /\ p.load = t.load
      BY <3>1, <3>5
    <3> QED
      BY <3>2, <3>6, <3>7, <3>8 DEF Newest, Reading!OnScreen
  <2> QED
    BY <2>1, <2>2, <2>3
<1> QED
  BY <1>4, <1>5, <1>6, <1>7, <1>8, <1>9

LEMMA ParsedKeeps ==
  ASSUME ViewInv, Reading!Parsed
  PROVE  ViewInv'
<1> USE DEF ViewInv
<1>0. UNCHANGED << stored, taken, onHold, keyed, screen, loading, deleting, goner, steps >>
  BY DEF Reading!Parsed
<1>1. PICK p \in parses :
          /\ parses' = parses \ {p}
          /\ drawn' = IF p.id.parsable THEN [ drawn EXCEPT ![p.display] = [ id |-> p.id, load |-> p.load ] ] ELSE drawn
          /\ overtaken' =
               IF p.id.parsable /\ p.load < drawn[p.display].load THEN overtaken \cup {p.display} ELSE overtaken
  BY DEF Reading!Parsed
<1>2. p \in Parses /\ p.display \in Reading!Displays /\ p.id \in Mails /\ p.load \in Nat
  BY DEF ViewTypes, Parses
<1>3. /\ drawn' \in [ Reading!Displays -> Drawings ]
      /\ \A d \in Reading!Displays : d # p.display \/ ~ p.id.parsable => drawn'[d] = drawn[d]
      /\ p.id.parsable => drawn'[p.display].id = p.id /\ drawn'[p.display].load = p.load
  BY <1>1, <1>2 DEF ViewTypes, Drawings
<1>4. ViewTypes' /\ Roots' /\ Lists' /\ Loads'
  BY <1>0, <1>1, <1>3 DEF ViewTypes, Roots, Near, Lists, Loads
<1>5. Truth'
  BY <1>0 DEF Truth, Tells, Reports, Reading!Offered
<1>6. Newest'
  <2>1. CASE screen.at = "message" /\ screen.id = Nobody
    BY <1>0, <2>1 DEF Newest, Reading!OnScreen, Blank
  <2>2. CASE Reading!OnScreen
    <3>1. /\ p.load <= screen.load /\ (p.load = screen.load => p.id = screen.id)
          /\ screen.load > 0 /\ screen.load \in Nat
      BY <2>2 DEF Newest, ViewTypes
    <3>2. \A d \in Reading!Displays : drawn'[d].load <= screen.load
          /\ (drawn'[d].load = screen.load => drawn'[d].id = screen.id)
      BY <1>3, <2>2, <3>1 DEF Newest
    <3>3. ASSUME screen.id.parsable, NEW d \in Reading!Displays \ overtaken'
          PROVE  (\E q \in parses' : q.display = d /\ q.load = screen.load) \/ drawn'[d].load = screen.load
      <4>1. d \notin overtaken
        BY <1>1, <3>3
      <4>2. CASE \E q \in parses \ {p} : q.display = d /\ q.load = screen.load
        BY <1>1, <4>2
      <4>3. CASE p.display = d /\ p.load = screen.load
        BY <1>3, <3>1, <3>3, <4>3
      <4>4. CASE drawn[d].load = screen.load /\ ~ (p.display = d /\ p.load = screen.load)
        <5>1. CASE p.display = d /\ p.id.parsable
          <6>1. p.load < drawn[p.display].load
            BY <1>2, <3>1, <4>4, <5>1
          <6> QED
            BY <1>1, <3>3, <5>1, <6>1
        <5>2. CASE ~ (p.display = d /\ p.id.parsable)
          BY <1>3, <3>3, <4>4, <5>2
        <5> QED
          BY <5>1, <5>2
      <4> QED
        BY <2>2, <3>3, <4>1, <4>2, <4>3, <4>4 DEF Newest
    <3>4. \A q \in parses' : q \in parses
      BY <1>1
    <3> QED
      BY <1>0, <2>2, <3>1, <3>2, <3>3, <3>4 DEF Newest, Reading!OnScreen
  <2>3. CASE screen.at = "list"
    BY <1>0, <2>3 DEF Newest, Reading!OnScreen
  <2> QED
    BY <2>1, <2>2, <2>3 DEF Reading!OnScreen, ViewTypes
<1> QED
  BY <1>4, <1>5, <1>6

LEMMA ViewSteps ==
  ASSUME Reading!ViewAssumption, ViewInv, [Reading!Next]_Reading!vars
  PROVE  ViewInv'
<1>1. CASE UNCHANGED Reading!vars
  BY <1>1, StaysThere DEF Reading!vars, ScreenStays, Near, ViewInv, ViewTypes
<1>2. CASE Reading!OpenThread
  <2>1. PICK m \in screen.thread \ {screen.id} : Reading!Goto(Reading!Toward(m))
    BY <1>2 DEF Reading!OpenThread
  <2>2. m \in Mails /\ m.root = screen.id.root /\ screen.id # Nobody
    BY DEF ViewInv, Truth, Tells
  <2>3. loading'.target = Reading!Toward(m) /\ ~ loading'.read
    BY <2>1, GotoStep
  <2>4. /\ UNCHANGED << stored, keyed, screen, parses, drawn, deleting, goner, overtaken >>
        /\ screen.at = "message" /\ steps' = steps + 1
    BY <1>2 DEF Reading!OpenThread, Reading!Step
  <2>5. /\ Reading!Toward(m).at = "message" /\ Reading!Toward(m).id = m /\ Reading!Toward(m).thread = {}
           /\ Reading!Toward(m).load = 0
    BY NotFoundFields
  <2> QED
    BY <2>2, <2>3, <2>4, <2>5, GoesTo DEF ScreenStays
<1>3. CASE Reading!Hold
  <2>1. screen.id \in Mails /\ screen.id # Nobody
    BY <1>3 DEF Reading!Hold, ViewInv, ViewTypes, Reading!ViewAssumption
  <2>2. loading'.target = Reading!Toward(screen.id) /\ ~ loading'.read
    BY <1>3, GotoStep DEF Reading!Hold
  <2>3. /\ UNCHANGED << stored, keyed, screen, parses, drawn, deleting, goner, overtaken >>
        /\ screen.at = "message" /\ steps' = steps + 1
    BY <1>3 DEF Reading!Hold, Reading!Step
  <2>4. /\ Reading!Toward(screen.id).at = "message" /\ Reading!Toward(screen.id).id = screen.id
        /\ Reading!Toward(screen.id).thread = {} /\ Reading!Toward(screen.id).load = 0
    BY NotFoundFields
  <2> QED
    BY <2>1, <2>2, <2>3, <2>4, GoesTo DEF ScreenStays
<1>4. CASE Reading!Deleted
  <2>1. /\ deleting \in stored /\ goner' = deleting /\ deleting' = Nobody /\ stored' \subseteq stored
        /\ ScreenStays /\ steps' = steps
    BY <1>4 DEF Reading!Deleted, Reading!Removed, ScreenStays
  <2>2. deleting # Nobody
    BY <2>1 DEF ViewInv, ViewTypes, Reading!ViewAssumption
  <2>3. CASE screen.id = Nobody
    <3>1. loading' = loading
      BY <1>4, <2>3 DEF Reading!Deleted
    <3>2. Near' \subseteq Near
      BY <2>1, <3>1 DEF Near, ScreenStays
    <3> QED
      BY <2>1, <2>2, <3>1, <3>2, StaysThere
  <2>4. CASE screen.id # Nobody
    <3> DEFINE l == [ Reading!NotFound EXCEPT !.at = "list", !.id = screen.id ]
    <3>1. Reading!Goto(l)
      BY <1>4, <2>4, Zenon DEF Reading!Deleted
    <3>2. l.at = "list" /\ l.id = screen.id /\ l.thread = {} /\ l.load = 0
      BY NotFoundFields, Zenon
    <3>3. screen.id \in Mails
      BY <2>4 DEF ViewInv, Roots, Near
    <3> HIDE DEF l
    <3>4. loading'.target = l /\ ~ loading'.read
      BY <3>1, GotoStep
    <3> QED
      BY <2>1, <2>2, <2>4, <3>2, <3>3, <3>4, GoesTo
  <2> QED
    BY <2>3, <2>4
<1>5. CASE Reading!ConfirmDelete \/ Reading!DeleteRefused \/ Reading!DeleteFails \/ Reading!Elsewhere
  <2>1. /\ ScreenStays /\ loading' = loading /\ goner' = goner /\ stored' \subseteq stored
        /\ steps' \in { steps, steps + 1 } /\ deleting' \in { deleting, screen.id, Nobody }
    BY <1>5 DEF Reading!ConfirmDelete, Reading!DeleteRefused, Reading!DeleteFails, Reading!Elsewhere,
              Reading!Removed, Reading!TornApart, Reading!Step, ScreenStays
  <2>2. Near' \subseteq Near
    BY <2>1 DEF Near, ScreenStays
  <2> QED
    BY <2>1, <2>2, StaysThere
<1>6. CASE Reading!Load \/ Reading!Render \/ Reading!Parsed
  BY <1>6, LoadKeeps, RenderKeeps, ParsedKeeps
<1>7. CASE Reading!Next
  BY <1>2, <1>3, <1>4, <1>5, <1>6, <1>7, Zenon DEF Reading!Next
<1> QED
  BY <1>1, <1>7

\* What a failed deletion took of a message is its own: the file of a message
\* only while no other message that stays has it.
Shares == \A n \in Mails : Reading!Taken(n, n.file) => \A m \in stored : m.file = n.file => m = n

ReadInv == ViewInv /\ Shares

LEMMA ReadInit == Reading!ViewAssumption /\ Reading!Init => ReadInv
<1> SUFFICES ASSUME Reading!ViewAssumption, Reading!Init PROVE Shares
  BY ViewInit DEF ReadInv
<1> QED
  BY DEF Reading!Init, Shares, Reading!Taken

LEMMA TornKeeps ==
  ASSUME Reading!ViewAssumption, ReadInv, NEW m \in stored, Reading!TornApart(m)
  PROVE  Shares'
<1>1. PICK files \in Reading!Reached(m) : taken' = taken \cup { [ id |-> m, file |-> file ] : file \in files }
  BY DEF Reading!TornApart
<1>2. stored' = stored /\ m \in Mails
  BY DEF Reading!TornApart, ReadInv, ViewInv, ViewTypes
<1>3. m.file \in files => Reading!Sole(m)
  <2>1. m.file \notin Reading!Parts(m)
    BY <1>2 DEF Reading!Parts, Reading!ViewAssumption
  <2> QED
    BY <2>1 DEF Reading!Reached
<1>4. ASSUME NEW n \in Mails, Reading!Taken(n, n.file)'
      PROVE  Reading!Taken(n, n.file) \/ (n = m /\ m.file \in files)
  <2>1. [ id |-> n, file |-> n.file ] \in taken'
    BY <1>4 DEF Reading!Taken
  <2>2. CASE [ id |-> n, file |-> n.file ] \in taken
    BY <2>2 DEF Reading!Taken
  <2>3. CASE \E file \in files : [ id |-> n, file |-> n.file ] = [ id |-> m, file |-> file ]
    <3>1. PICK file \in files : [ id |-> n, file |-> n.file ] = [ id |-> m, file |-> file ]
      BY <2>3
    <3>2. n = m /\ n.file = file
      BY <3>1
    <3> QED
      BY <3>2
  <2> QED
    BY <1>1, <2>1, <2>2, <2>3
<1> QED
  BY <1>2, <1>3, <1>4 DEF Shares, ReadInv, Reading!Sole

LEMMA ReadSteps ==
  ASSUME Reading!ViewAssumption, ReadInv, [Reading!Next]_Reading!vars
  PROVE  ReadInv'
<1> SUFFICES Shares'
  BY ViewSteps DEF ReadInv
<1>1. CASE Reading!Next
  <2>1. CASE stored' \subseteq stored /\ taken' = taken
    BY <2>1 DEF ReadInv, Shares, Reading!Taken
  <2>2. CASE \E m \in stored : Reading!TornApart(m)
    BY <2>2, TornKeeps
  <2>3. CASE Reading!OpenThread \/ Reading!Load \/ Reading!Render \/ Reading!Parsed \/ Reading!ConfirmDelete
             \/ Reading!DeleteRefused \/ Reading!Hold
    <3>1. UNCHANGED << stored, taken >>
      BY <2>3 DEF Reading!OpenThread, Reading!Load, Reading!Render, Reading!Parsed, Reading!ConfirmDelete,
                  Reading!DeleteRefused, Reading!Hold
    <3> QED
      BY <2>1, <3>1
  <2>4. CASE Reading!Deleted \/ Reading!DeleteFails \/ Reading!Elsewhere
    <3>1. (stored' \subseteq stored /\ taken' = taken) \/ \E m \in stored : Reading!TornApart(m)
      BY <2>4 DEF Reading!Deleted, Reading!DeleteFails, Reading!Elsewhere, Reading!Removed
    <3> QED
      BY <2>1, <2>2, <3>1
  <2> QED
    BY <1>1, <2>3, <2>4, Zenon DEF Reading!Next
<1>2. CASE UNCHANGED Reading!vars
  <2>1. UNCHANGED << stored, taken >>
    BY <1>2 DEF Reading!vars
  <2> QED
    BY <2>1 DEF ReadInv, Shares, Reading!Taken
<1> QED
  BY <1>1, <1>2

LEMMA ReadTells ==
  ASSUME Reading!ViewAssumption, ReadInv
  PROVE  Reading!PreviewIsTheMessage /\ Reading!ReportTells /\ Reading!OfferedIsServed /\ Reading!ReturnsToMailbox
<1> USE DEF ReadInv, ViewInv
<1>1. Reading!PreviewIsTheMessage
  BY DEF Reading!PreviewIsTheMessage, Newest
<1>2. Reading!ReportTells
  BY DEF Reading!ReportTells, Truth, Tells, Reports, Reading!OnScreen, Reading!Says
<1>3. ASSUME Reading!OnScreen, screen.id \in stored, NEW file \in screen.offered,
             ~ Reading!Taken(screen.id, file)
      PROVE  /\ Reading!DownloadFile(file) # "refused"
             /\ Reading!Kept(file) => Reading!DownloadFile(file) # "unreadable"
  <2>1. screen.id \in Readers /\ screen.id \in Mails /\ file \in {screen.id.file} \cup screen.id.parts
    BY <1>3 DEF Reading!OnScreen, Truth, Tells, Reading!ViewAssumption
  <2>2. Reading!CanAccessStoragePath(file) /\ file.bytes \in Reading!FileStates
    BY <1>3, <2>1 DEF Reading!CanAccessStoragePath, Reading!Carries, Reading!Parts, Reading!ViewAssumption
  <2>3. ~ Reading!Erased(file)
    <3> SUFFICES ASSUME NEW n \in Mails, file = n.file, Reading!Taken(n, file) PROVE FALSE
      BY DEF Reading!Erased
    <3>1. file = screen.id.file
      BY <2>1 DEF Reading!ViewAssumption
    <3>2. screen.id = n
      BY <1>3, <3>1 DEF Shares
    <3> QED
      BY <1>3, <3>2
  <2>4. Reading!DownloadFile(file) = Reading!Get(file)
    BY <2>2 DEF Reading!DownloadFile
  <2> QED
    BY <2>2, <2>3, <2>4, GetTells
<1>4. Reading!ReturnsToMailbox
  BY DEF Reading!ReturnsToMailbox, Lists, Roots, Near
<1> QED
  BY <1>1, <1>2, <1>3, <1>4 DEF Reading!OfferedIsServed

-----------------------------------------------------------------------------
(* The page of the sources: but for what the requests under way have       *)
(* changed, each within groups of its own, it lists what there is.         *)

RowLists == UNION { [ S -> Listing!Row ] : S \in SUBSET Ids }
PageStates == [ list : RowLists, selected : SUBSET Ids, toDelete : Ids \cup {None}, deleting : BOOLEAN ]
PageTypes == rows \in RowLists /\ page \in PageStates /\ pending \in Seq(Listing!Request) /\ unused \subseteq Ids

\* The sources whose creation is under way, and those whose creation has been answered.
Creating == { pending[i].id : i \in { j \in DOMAIN pending : pending[j].kind = "create" } }
Known == Ids \ (unused \cup Creating)
Named == Known \cup {None}

\* Nothing on the page and no request but its own mentions a source that is being created.
RequestMentions(r) ==
    /\ r.touches \subseteq Known /\ r.ids \subseteq Known /\ r.target \in Named /\ r.row.merged \in Named
    /\ r.kind # "create" => r.id \in Named
Mentions ==
    /\ DOMAIN rows \subseteq Known \cup Creating
    /\ \A s \in DOMAIN rows : rows[s].merged \in Named
    /\ DOMAIN page.list \subseteq Known
    /\ \A s \in DOMAIN page.list : page.list[s].merged \in Named
    /\ page.selected \subseteq Known /\ page.toDelete \in Named
    /\ \A i \in DOMAIN pending : RequestMentions(pending[i])
Creations ==
    /\ unused \cap Creating = {}
    /\ \A i \in DOMAIN pending : pending[i].kind = "create" =>
         /\ pending[i].id \in Ids
         /\ pending[i].phase \notin { "ok", "failed" } => pending[i].id \notin DOMAIN rows
         /\ \A j \in DOMAIN pending : j # i /\ pending[j].kind = "create" => pending[j].id # pending[i].id

Deletes(r) == r.kind \in { "delete", "bulkDelete" }

\* What the fields of a request say, whatever crossed it.
Shape(r) ==
    /\ r.left \subseteq r.ids /\ r.ids \subseteq r.touches
    /\ r.kind \in { "unmerge", "toggle", "sync", "edit" } => r.id \in r.ids
    /\ r.kind = "create" => (r.target # None => r.target \in r.touches)
    /\ r.phase = "cascading" => Deletes(r) /\ r.id \in r.left
    /\ r.kind \notin { "bulkDelete", "bulkSync" } => r.left = r.ids
    /\ r.kind = "delete" /\ r.phase \in { "cascading", "ok" } => r.ids = {r.id}
    /\ r.kind = "delete" => \A s, t \in r.ids : s = t
    /\ r.kind = "bulkSync" => r.phase \in { "sent", "ok" } /\ (r.phase = "ok" => r.left = {})
    /\ r.kind = "bulkDelete" /\ r.phase = "ok" => \E s \in r.left : r.left = {s}
Shapes == \A i \in DOMAIN pending : Shape(pending[i])

\* What a request is about, the source it creates included.
Area(r) == r.touches \cup (IF r.kind = "create" THEN {r.id} ELSE {})
Covered(s) == \E i \in DOMAIN pending : s \in Area(pending[i])

\* Merge groups of a list lie inside or outside of an area.
Closed(A, listing) == \A s \in DOMAIN listing : listing[s].merged # None => (s \in A <=> listing[s].merged \in A)
Paused(row) == row.status = "paused"
Alike(row, seen) == row.merged = seen.merged /\ (Paused(row) <=> Paused(seen))

\* What a request has removed, and changed, and the page does not know yet.
Gone(r) == IF ~ Deletes(r) THEN {} ELSE IF r.phase = "ok" THEN r.ids ELSE r.ids \ r.left
Due(r) ==
    IF r.kind = "bulkSync" THEN r.ids \ r.left
    ELSE IF r.phase = "ok" /\ ~ Deletes(r) THEN {r.id} ELSE {}

SameBut(s, gone) ==
    /\ s \in DOMAIN rows <=> (s \in DOMAIN page.list /\ s \notin gone /\ page.list[s].merged \notin gone)
    /\ s \in DOMAIN rows => Alike(rows[s], page.list[s])

\* What the page will know when the request is answered.
Landed(r, s) ==
    /\ s \in DOMAIN rows
    /\ s \in DOMAIN page.list <=> r.kind # "create"
    /\ IF r.kind \in { "create", "unmerge", "edit" } THEN r.row = rows[s]
       ELSE rows[s].merged = page.list[s].merged /\ (Paused(rows[s]) <=> (r.kind = "toggle" /\ r.to = "paused"))

Cascade(r) ==
    /\ r.id \in DOMAIN rows
    /\ r.doomed = IF rows[r.id].merged = None THEN Listing!Children(rows, r.id) ELSE {}
Expected(r) ==
    /\ \A s \in Area(r) \ Due(r) : SameBut(s, Gone(r))
    /\ \A s \in Due(r) : Landed(r, s)
    /\ r.phase = "cascading" => Cascade(r)
    /\ Deletes(r) /\ r.phase = "failed" => r.left = r.ids

Apart == \A i, j \in DOMAIN pending : i # j => pending[i].touches \cap pending[j].touches = {}
ClosedAreas == \A i \in DOMAIN pending : Closed(Area(pending[i]), rows) /\ Closed(Area(pending[i]), page.list)
SameElsewhere == \A s \in Ids : ~ Covered(s) => SameBut(s, {})
AllExpected == \A i \in DOMAIN pending : Expected(pending[i])

\* Without slips the page lists what there is, but for what the requests under way
\* have changed, each within groups of its own.
Mirrors == Apart /\ ClosedAreas /\ SameElsewhere /\ AllExpected

PageInv == PageTypes /\ Listing!Flat /\ Mentions /\ Creations /\ Shapes /\ (slips = {} => Mirrors)

\* Nothing of it is claimed once a client of the API has written a group.
PagesInv == "remerged" \in slips \/ PageInv

-----------------------------------------------------------------------------
LEMMA RowListTypes ==
  ASSUME NEW listing \in RowLists
  PROVE  /\ DOMAIN listing \subseteq Ids /\ \A s \in DOMAIN listing : listing[s] \in Listing!Row
         /\ listing \in [ DOMAIN listing -> Listing!Row ]
  BY DEF RowLists

LEMMA IsList ==
  ASSUME NEW S \in SUBSET Ids, NEW listing \in [ S -> Listing!Row ]
  PROVE  listing \in RowLists
  BY DEF RowLists

LEMMA RowTypes ==
  ASSUME NEW row \in Listing!Row
  PROVE  row.merged \in Ids \cup {None} /\ row.status \in { "active", "syncing", "paused", "error" }
  BY DEF Listing!Row

LEMMA PageFields ==
  ASSUME NEW p \in PageStates
  PROVE  p.list \in RowLists /\ p.selected \subseteq Ids /\ p.toDelete \in Ids \cup {None} /\ p.deleting \in BOOLEAN
  BY DEF PageStates

LEMMA RequestFields ==
  ASSUME NEW r \in Listing!Request
  PROVE  /\ r.kind \in Listing!Kinds /\ r.phase \in Listing!Phases /\ r.id \in Ids \cup {None} /\ r.ids \subseteq Ids
         /\ r.to \in { "active", "paused" } /\ r.target \in Ids \cup {None} /\ r.left \subseteq Ids
         /\ r.doomed \subseteq Ids /\ r.row \in Listing!Row /\ r.touches \subseteq Ids
  BY DEF Listing!Request

LEMMA Pendings ==
  ASSUME PageTypes, NEW i \in DOMAIN pending
  PROVE  pending[i] \in Listing!Request
  BY DEF PageTypes

\* All is answered: the page lists what there is.
LEMMA PageMirrorsAll == Listing!PageAssumption /\ PagesInv => Listing!GroupsFlat /\ Listing!PageMirrors
<1> SUFFICES ASSUME Listing!PageAssumption, PageInv, pending = << >>, slips = {}
             PROVE  /\ DOMAIN page.list = DOMAIN rows
                    /\ \A s \in DOMAIN rows : page.list[s].merged = rows[s].merged
                    /\ \A root \in Listing!Roots(rows) :
                          (Listing!GroupStatus(root) = "paused") = (\A s \in Listing!GroupOf(rows,
                             root) : rows[s].status = "paused")
  BY DEF PagesInv, PageInv, Listing!PageMirrors, Listing!GroupsFlat
<1>1. \A s \in Ids : SameBut(s, {})
  BY DEF PageInv, Mirrors, SameElsewhere, Covered
<1>2. DOMAIN rows \subseteq Ids /\ DOMAIN page.list \subseteq Ids
  BY RowListTypes, PageFields DEF PageInv, PageTypes
<1>3. DOMAIN page.list = DOMAIN rows
  BY <1>1, <1>2 DEF SameBut
<1>4. \A s \in DOMAIN rows : page.list[s].merged = rows[s].merged
      /\ (rows[s].status = "paused" <=> page.list[s].status = "paused")
  BY <1>1, <1>2 DEF SameBut, Alike, Paused
<1>5. ASSUME NEW root \in Listing!Roots(rows)
      PROVE  (Listing!GroupStatus(root) = "paused") = (\A s \in Listing!GroupOf(rows, root) : rows[s].status = "paused")
  <2>1. root \in DOMAIN rows /\ rows[root].merged = None
    BY DEF Listing!Roots
  <2>2. Listing!GroupOf(rows, root) = {root} \cup Listing!Children(rows, root)
    BY <2>1 DEF Listing!GroupOf
  <2>3. Listing!Children(page.list, root) = Listing!Children(rows, root)
    BY <1>3, <1>4 DEF Listing!Children
  <2>4. {root} \cup Listing!Children(rows, root) \subseteq DOMAIN rows
    BY <2>1 DEF Listing!Children
  <2> DEFINE all == {root} \cup Listing!Children(page.list, root)
  <2>5. (\A s \in all : page.list[s].status = "paused") <=> \A s \in Listing!GroupOf(rows,
        root) : rows[s].status = "paused"
    BY <1>4, <2>2, <2>3, <2>4
  <2>6. CASE \A s \in all : page.list[s].status = "paused"
    <3>1. \A s \in all : page.list[s].status # "error" /\ page.list[s].status # "syncing"
      BY <2>6
    <3>2. Listing!GroupStatus(root) = "paused"
      BY <2>6, <3>1 DEF Listing!GroupStatus
    <3> QED
      BY <3>2, <2>5, <2>6
  <2>7. CASE ~ \A s \in all : page.list[s].status = "paused"
    <3>1. page.list[root].status = "paused" => Listing!GroupStatus(root) # "paused"
      BY <2>7 DEF Listing!GroupStatus
    <3>2. page.list[root].status # "paused" => Listing!GroupStatus(root) # "paused"
      BY <2>7 DEF Listing!GroupStatus
    <3> QED
      BY <3>1, <3>2, <2>5, <2>7
  <2> QED
    BY <2>6, <2>7
<1> QED
  BY <1>3, <1>4, <1>5

LEMMA PageInit == Listing!PageAssumption /\ Listing!Init => PageInv
<1> SUFFICES ASSUME Listing!PageAssumption, Listing!Init PROVE PageInv
  OBVIOUS
<1>1. PICK groups \in [ Ids -> Ids \cup {None, "absent"} ] :
        /\ \A s \in Ids : groups[s] \in Ids => s # groups[s] /\ groups[groups[s]] = None
        /\ rows = [ s \in { t \in Ids : groups[t] # "absent" } |->
                     [ merged |-> groups[s], status |-> IF s \in FileBased THEN "error" ELSE "active" ] ]
  BY Zenon DEF Listing!Init
<1>2. rows \in RowLists
  <2>1. \A s \in { t \in Ids : groups[t] # "absent" } :
          [ merged |-> groups[s], status |-> IF s \in FileBased THEN "error" ELSE "active" ] \in Listing!Row
    BY DEF Listing!Row
  <2> QED
    BY <1>1, <2>1 DEF RowLists
<1>3. page.list = rows /\ page \in PageStates /\ pending = << >> /\ unused = Ids \ DOMAIN rows /\ slips = {}
      /\ page.selected = {} /\ page.toDelete = None
  BY <1>2 DEF Listing!Init, PageStates
<1>4. Creating = {} /\ Known = DOMAIN rows
  <2>1. DOMAIN pending = {}
    BY <1>3
  <2>2. Creating = {}
    BY <2>1 DEF Creating
  <2>3. DOMAIN rows \subseteq Ids
    BY <1>2, RowListTypes
  <2> QED
    BY <1>3, <2>2, <2>3 DEF Known
<1>5. \A s \in DOMAIN rows : rows[s].merged = groups[s] /\ groups[s] # "absent"
  BY <1>1
<1>6. Listing!Flat
  <2> SUFFICES ASSUME NEW s \in DOMAIN rows, rows[s].merged # None
               PROVE  rows[s].merged \in DOMAIN rows /\ rows[rows[s].merged].merged = None
    BY DEF Listing!Flat
  <2>1. s \in Ids /\ groups[s] \in Ids /\ rows[s].merged = groups[s]
    BY <1>1, <1>5
  <2>2. groups[groups[s]] = None /\ None # "absent"
    BY <1>1, <2>1 DEF Listing!PageAssumption
  <2>3. groups[s] \in DOMAIN rows
    BY <1>1, <2>1, <2>2
  <2> QED
    BY <1>5, <2>1, <2>2, <2>3
<1>7. Mentions
  BY <1>2, <1>3, <1>4, <1>6, RowListTypes DEF Mentions, Named, Listing!Flat
<1>8. Mirrors
  <2>1. DOMAIN pending = {}
    BY <1>3
  <2>2. \A s \in Ids : SameBut(s, {})
    BY <1>3 DEF SameBut, Alike
  <2> QED
    BY <2>1, <2>2 DEF Mirrors, Apart, ClosedAreas, SameElsewhere, AllExpected
<1> QED
  <2>1. pending \in Seq(Listing!Request) /\ DOMAIN pending = {}
    BY <1>3
  <2>2. PageTypes
    BY <1>2, <1>3, <2>1 DEF PageTypes
  <2>3. Creations /\ Shapes
    BY <1>3, <1>4, <2>1 DEF Creations, Shapes
  <2> QED
    BY <1>6, <1>7, <1>8, <2>2, <2>3 DEF PageInv

-----------------------------------------------------------------------------
\* Taking the i-th of a sequence away: where what is left was, and where it is now.
Old(i, j) == IF j < i THEN j ELSE j + 1
Place(i, k) == IF k < i THEN k ELSE k - 1

LEMMA RemovedAt ==
  ASSUME PageTypes, NEW i \in DOMAIN pending
  PROVE  /\ Listing!Others(i) \in Seq(Listing!Request)
         /\ \A j \in DOMAIN Listing!Others(i) : Old(i, j) \in DOMAIN pending \ {i}
            /\ Listing!Others(i)[j] = pending[Old(i, j)]
         /\ \A k \in DOMAIN pending \ {i} : Place(i, k) \in DOMAIN Listing!Others(i) /\ Old(i, Place(i, k)) = k
         /\ \A j, k \in DOMAIN Listing!Others(i) : j # k => Old(i, j) # Old(i, k)
<1> DEFINE n == Len(pending)
           a == SubSeq(pending, 1, i - 1)
           b == SubSeq(pending, i + 1, n)
<1>0. pending \in Seq(Listing!Request)
  BY DEF PageTypes
<1>1. n \in Nat /\ i \in 1 .. n /\ DOMAIN pending = 1 .. n
  BY <1>0
<1>2. a \in Seq(Listing!Request) /\ Len(a) = i - 1 /\ \A j \in 1 .. i - 1 : a[j] = pending[j]
  <2>1. 1 \in 1 .. n + 1 /\ i - 1 \in 0 .. n
    BY <1>1
  <2>2. a \in Seq(Listing!Request) /\ Len(a) = (IF 1 <= i - 1 THEN (i - 1) - 1 + 1 ELSE 0)
        /\ \A j \in 1 .. (i - 1) - 1 + 1 : a[j] = pending[1 + j - 1]
    BY <1>0, <1>1, <2>1, SubSeqProperties
  <2> HIDE DEF a
  <2> QED
    BY <1>1, <2>2
<1>3. b \in Seq(Listing!Request) /\ Len(b) = n - i /\ \A j \in 1 .. n - i : b[j] = pending[i + j]
  <2>1. i + 1 \in 1 .. n + 1 /\ n \in 0 .. n
    BY <1>1
  <2>2. b \in Seq(Listing!Request) /\ Len(b) = (IF i + 1 <= n THEN n - (i + 1) + 1 ELSE 0)
        /\ \A j \in 1 .. n - (i + 1) + 1 : b[j] = pending[i + 1 + j - 1]
    BY <1>0, <1>1, <2>1, SubSeqProperties
  <2> HIDE DEF b
  <2>3. Len(b) = n - i
    BY <1>1, <2>2
  <2>4. n - (i + 1) + 1 = n - i
    BY <1>1
  <2>5. ASSUME NEW j \in 1 .. n - i PROVE b[j] = pending[i + j]
    <3>1. b[j] = pending[i + 1 + j - 1]
      BY <2>2, <2>4
    <3>2. i + 1 + j - 1 = i + j
      BY <1>1
    <3> QED
      BY <3>1, <3>2
  <2> QED
    BY <2>2, <2>3, <2>5
<1>4. Listing!Others(i) = a \o b
  BY DEF Listing!Others
<1> HIDE DEF a, b
<1>5. /\ Listing!Others(i) \in Seq(Listing!Request) /\ Len(Listing!Others(i)) = n - 1
      /\ \A j \in 1 .. n - 1 : Listing!Others(i)[j] = IF j <= i - 1 THEN a[j] ELSE b[j - (i - 1)]
  <2>1. /\ a \o b \in Seq(Listing!Request) /\ Len(a \o b) = Len(a) + Len(b)
        /\ \A j \in 1 .. Len(a) + Len(b) : (a \o b)[j] = IF j <= Len(a) THEN a[j] ELSE b[j - Len(a)]
    BY <1>2, <1>3, ConcatProperties
  <2>2. Len(a) = i - 1 /\ Len(a) + Len(b) = n - 1
    BY <1>1, <1>2, <1>3
  <2> QED
    BY <1>4, <2>1, <2>2
<1> DEFINE r == Listing!Others(i)
<1> HIDE DEF r
<1>6. r \in Seq(Listing!Request) /\ DOMAIN r = 1 .. n - 1
  BY <1>5 DEF r
<1>7. \A j \in 1 .. n - 1 : r[j] = pending[Old(i, j)]
  <2> SUFFICES ASSUME NEW j \in 1 .. n - 1 PROVE r[j] = pending[Old(i, j)]
    OBVIOUS
  <2>1. CASE j < i
    <3>1. r[j] = a[j] /\ a[j] = pending[j]
      BY <1>1, <1>2, <1>5, <2>1 DEF r
    <3> QED
      BY <2>1, <3>1 DEF Old
  <2>2. CASE ~ (j < i)
    <3>1. r[j] = b[j - (i - 1)] /\ j - (i - 1) \in 1 .. n - i
      BY <1>1, <1>5, <2>2 DEF r
    <3>2. b[j - (i - 1)] = pending[i + (j - (i - 1))] /\ i + (j - (i - 1)) = j + 1
      BY <1>1, <1>3, <3>1
    <3> QED
      BY <2>2, <3>1, <3>2 DEF Old
  <2> QED
    BY <2>1, <2>2
<1>8. \A j \in 1 .. n - 1 : Old(i, j) \in (1 .. n) \ {i}
  BY <1>1 DEF Old
<1>9. \A k \in (1 .. n) \ {i} : Place(i, k) \in 1 .. n - 1 /\ Old(i, Place(i, k)) = k
  BY <1>1 DEF Old, Place
<1>10. \A j, k \in 1 .. n - 1 : j # k => Old(i, j) # Old(i, k)
  BY <1>1 DEF Old
<1> QED
  BY <1>1, <1>6, <1>7, <1>8, <1>9, <1>10 DEF r

-----------------------------------------------------------------------------
(* One request is executed: it stays about the same groups.                *)

Serves(i) ==
    /\ pending' \in Seq(Listing!Request) /\ DOMAIN pending' = DOMAIN pending
    /\ \A j \in DOMAIN pending : j # i => pending'[j] = pending[j]
    /\ pending'[i].kind = pending[i].kind /\ pending'[i].touches = pending[i].touches
    /\ pending'[i].ids = pending[i].ids /\ pending'[i].target = pending[i].target
    /\ pending[i].kind = "create" => pending'[i].id = pending[i].id
    /\ pending[i].phase \in { "sent", "cascading" } /\ page' = page /\ unused' = unused

\* Rows that were there, and that of a source that is created.
Newcomers(r) == IF r.kind = "create" /\ r.phase \in { "ok", "failed" } THEN {r.id} ELSE {}

LEMMA ServedNames ==
  ASSUME NEW i \in DOMAIN pending, Serves(i), PageTypes
  PROVE  Creating' = Creating /\ Known' = Known /\ Named' = Named
<1>1. \A j \in DOMAIN pending : pending'[j].kind = pending[j].kind
      /\ (pending[j].kind = "create" => pending'[j].id = pending[j].id)
  BY DEF Serves
<1>2. DOMAIN pending' = DOMAIN pending
  BY DEF Serves
<1>3. Creating' = Creating
  BY <1>1, <1>2 DEF Creating
<1> QED
  BY <1>3 DEF Known, Named, Serves

LEMMA Served ==
  ASSUME PageInv, NEW i \in DOMAIN pending, Serves(i), slips \subseteq slips',
         rows' \in RowLists, Listing!Flat',
         DOMAIN rows' \subseteq DOMAIN rows \cup Newcomers(pending'[i]),
         \A s \in DOMAIN rows' : rows'[s].merged \in Named,
         pending'[i].row.merged \in Named,
         pending[i].kind # "create" => pending'[i].id \in Named,
         Shape(pending'[i])
  PROVE  PageTypes' /\ Mentions' /\ Creations' /\ Shapes'
<1>1. PageTypes /\ Mentions /\ Creations /\ Shapes
  BY DEF PageInv
<1>2. PageTypes'
  BY <1>1 DEF PageTypes, Serves
<1>3. Creating' = Creating /\ Known' = Known /\ Named' = Named
  BY <1>1, ServedNames
<1>4. DOMAIN rows' \subseteq Known \cup Creating
  <2>1. Newcomers(pending'[i]) \subseteq Creating
    BY DEF Newcomers, Creating, Serves
  <2> QED
    BY <1>1, <2>1 DEF Mentions
<1>5. \A j \in DOMAIN pending : RequestMentions(pending[j])
  BY <1>1 DEF Mentions
<1>6. \A j \in DOMAIN pending' : RequestMentions(pending[j])'
  <2> SUFFICES ASSUME NEW j \in DOMAIN pending PROVE RequestMentions(pending[j])'
    BY DEF Serves
  <2>1. CASE j = i
    BY <1>3, <1>5, <2>1 DEF RequestMentions, Serves
  <2>2. CASE j # i
    BY <1>3, <1>5, <2>2 DEF RequestMentions, Serves
  <2> QED
    BY <2>1, <2>2
<1>7. Mentions'
  BY <1>1, <1>3, <1>4, <1>6 DEF Mentions, Serves
<1>8. Creations'
  <2>1. \A j \in DOMAIN pending : pending'[j].kind = pending[j].kind
        /\ (pending[j].kind = "create" => pending'[j].id = pending[j].id)
    BY DEF Serves
  <2>2. ASSUME NEW j \in DOMAIN pending, pending[j].kind = "create", pending'[j].phase \notin { "ok", "failed" }
        PROVE  pending[j].id \notin DOMAIN rows'
    <3>1. CASE j = i
      <4>1. pending'[i].phase \notin { "ok", "failed" }
        BY <2>2, <3>1
      <4>2. DOMAIN rows' \subseteq DOMAIN rows
        BY <4>1 DEF Newcomers
      <4> QED
        BY <1>1, <2>2, <3>1, <4>2 DEF Creations, Serves
    <3>2. CASE j # i
      <4>1. pending[j].id \notin DOMAIN rows
        BY <1>1, <2>2, <3>2 DEF Creations, Serves
      <4>2. pending[j].id \notin Newcomers(pending'[i])
        BY <1>1, <2>1, <2>2, <3>2 DEF Creations, Newcomers
      <4> QED
        BY <4>1, <4>2
    <3> QED
      BY <3>1, <3>2
  <2>3. DOMAIN pending' = DOMAIN pending /\ unused' = unused
    BY DEF Serves
  <2> QED
    BY <1>1, <1>3, <2>1, <2>2, <2>3 DEF Creations
<1>9. Shapes'
  BY <1>1 DEF Shapes, Serves
<1> QED
  BY <1>2, <1>7, <1>8, <1>9

\* Areas of requests under way together are apart when their groups are.
LEMMA AreasApart ==
  ASSUME PageTypes, Mentions, Creations, Apart, NEW i \in DOMAIN pending, NEW j \in DOMAIN pending, i # j
  PROVE  Area(pending[i]) \cap Area(pending[j]) = {}
<1>1. \A k \in DOMAIN pending : pending[k].touches \cap Creating = {}
  BY DEF Mentions, RequestMentions, Known
<1>2. \A k \in DOMAIN pending : Area(pending[k]) \subseteq pending[k].touches \cup (Creating \cap {pending[k].id})
  BY DEF Area, Creating
<1>3. pending[i].touches \cap pending[j].touches = {}
  BY DEF Apart
<1>4. pending[i].kind = "create" /\ pending[j].kind = "create" => pending[i].id # pending[j].id
  BY DEF Creations
<1> QED
  BY <1>1, <1>2, <1>3, <1>4 DEF Area, Creating

LEMMA ServedMirrors ==
  ASSUME Listing!PageAssumption, PageInv, NEW i \in DOMAIN pending, Serves(i), slips = {}, rows' \in RowLists,
         \A s \in Ids \ Area(pending[i]) : (s \in DOMAIN rows' <=> s \in DOMAIN rows)
                                           /\ (s \in DOMAIN rows => rows'[s] = rows[s]),
         Closed(Area(pending[i]), rows'), Expected(pending[i])'
  PROVE  Mirrors'
<1>1. PageTypes /\ Mentions /\ Creations /\ Apart /\ ClosedAreas /\ SameElsewhere /\ AllExpected
  BY DEF PageInv, Mirrors
<1>2. DOMAIN rows \subseteq Ids /\ DOMAIN rows' \subseteq Ids
  BY <1>1, RowListTypes DEF PageTypes
<1>3. DOMAIN pending' = DOMAIN pending /\ page' = page /\ \A j \in DOMAIN pending : j # i => pending'[j] = pending[j]
  BY DEF Serves
<1>4. \A j \in DOMAIN pending : pending'[j].touches = pending[j].touches /\ Area(pending'[j]) = Area(pending[j])
  <2> SUFFICES ASSUME NEW j \in DOMAIN pending
               PROVE  pending'[j].touches = pending[j].touches /\ Area(pending'[j]) = Area(pending[j])
    OBVIOUS
  <2>1. CASE j = i
    BY <2>1 DEF Area, Serves
  <2>2. CASE j # i
    BY <1>3, <2>2
  <2> QED
    BY <2>1, <2>2
<1>5. Apart'
  BY <1>1, <1>3, <1>4 DEF Apart
<1>6. ASSUME NEW j \in DOMAIN pending PROVE Closed(Area(pending[j]), rows') /\ Closed(Area(pending[j]), page.list)
  <2>1. Closed(Area(pending[j]), rows) /\ Closed(Area(pending[j]), page.list)
    BY <1>1 DEF ClosedAreas
  <2>2. ASSUME j # i, NEW s \in DOMAIN rows', rows'[s].merged # None
        PROVE  s \in Area(pending[j]) <=> rows'[s].merged \in Area(pending[j])
    <3>1. Area(pending[i]) \cap Area(pending[j]) = {}
      BY <1>1, <2>2, AreasApart
    <3>2. CASE s \in Area(pending[i])
      <4>1. rows'[s].merged \in Area(pending[i])
        BY <2>2, <3>2 DEF Closed
      <4> QED
        BY <3>1, <3>2, <4>1
    <3>3. CASE s \notin Area(pending[i])
      BY <1>2, <2>1, <2>2, <3>3 DEF Closed
    <3> QED
      BY <3>2, <3>3
  <2> QED
    BY <2>1, <2>2 DEF Closed
<1>7. ClosedAreas'
  BY <1>3, <1>4, <1>6 DEF ClosedAreas, Closed, Area
<1>8. \A s \in Ids : Covered(s)' <=> Covered(s)
  BY <1>3, <1>4 DEF Covered, Area
<1>9. \A s \in Ids : ~ Covered(s) => s \notin Area(pending[i])
  BY DEF Covered
<1>10. SameElsewhere'
  BY <1>1, <1>3, <1>8, <1>9 DEF SameElsewhere, SameBut, Alike
<1>11. ASSUME NEW j \in DOMAIN pending, j # i PROVE Expected(pending[j])'
  <2> DEFINE r == pending[j]
  <2>0. r' = r
    BY <1>3, <1>11
  <2>1. Expected(r) /\ r \in Listing!Request
    BY <1>1, Pendings DEF AllExpected
  <2>2. Area(pending[i]) \cap Area(r) = {} /\ Area(r) \subseteq Ids
    <3>1. Area(pending[i]) \cap Area(r) = {}
      BY <1>1, <1>11, AreasApart
    <3>2. r.touches \subseteq Ids /\ (r.kind = "create" => r.id \in Ids)
      BY <1>1, <2>1, RequestFields DEF Creations
    <3> QED
      BY <3>1, <3>2 DEF Area
  <2> HIDE DEF r
  <2>3. \A s \in Area(r) : (s \in DOMAIN rows' <=> s \in DOMAIN rows) /\ (s \in DOMAIN rows => rows'[s] = rows[s])
    BY <2>2
  <2>4. Due(r) \subseteq Area(r)
    <3>1. Shape(r)
      BY <1>1 DEF PageInv, Shapes, r
    <3>2. r.ids \subseteq r.touches
      BY <3>1 DEF Shape
    <3>3. r.kind \in Listing!Kinds
      BY <2>1, RequestFields
    <3>4. ~ Deletes(r) /\ r.kind # "bulkSync" => r.id \in Area(r)
      BY <3>1, <3>3 DEF Shape, Area, Deletes, Listing!Kinds
    <3> QED
      BY <3>2, <3>4 DEF Due, Area
  <2>5. \A s \in Area(r) \ Due(r) : SameBut(s, Gone(r))'
    BY <1>3, <2>0, <2>1, <2>3 DEF Expected, SameBut, Alike, Gone, Deletes
  <2>6. \A s \in Due(r) : Landed(r, s)'
    BY <1>3, <2>0, <2>1, <2>3, <2>4 DEF Expected, Landed
  <2>7. r.phase = "cascading" => Cascade(r)'
    <3> SUFFICES ASSUME r.phase = "cascading" PROVE Cascade(r)'
      OBVIOUS
    <3>1. r.id \in DOMAIN rows /\ r.doomed = IF rows[r.id].merged = None THEN Listing!Children(rows, r.id) ELSE {}
      BY <2>1 DEF Expected, Cascade
    <3>2. r.id \in Area(r)
      BY <1>1 DEF PageInv, Shapes, Shape, r, Area
    <3>3. r.id \in DOMAIN rows' /\ rows'[r.id] = rows[r.id] /\ r.id # None
      BY <2>2, <2>3, <3>1, <3>2, <1>2 DEF Listing!PageAssumption
    <3>4. ASSUME NEW s \in Ids
          PROVE  (s \in DOMAIN rows' /\ rows'[s].merged = r.id) <=> (s \in DOMAIN rows /\ rows[s].merged = r.id)
      <4>1. CASE s \in Area(pending[i])
        <5>1. r.id \notin Area(pending[i])
          BY <2>2, <3>2
        <5>2. ~ (s \in DOMAIN rows' /\ rows'[s].merged = r.id)
          BY <3>3, <4>1, <5>1 DEF Closed
        <5>3. ~ (s \in DOMAIN rows /\ rows[s].merged = r.id)
          BY <1>1, <3>3, <4>1, <5>1 DEF ClosedAreas, Closed
        <5> QED
          BY <5>2, <5>3
      <4>2. CASE s \notin Area(pending[i])
        BY <4>2
      <4> QED
        BY <4>1, <4>2
    <3>5. Listing!Children(rows', r.id) = Listing!Children(rows, r.id)
      BY <1>2, <3>4 DEF Listing!Children
    <3> QED
      BY <2>0, <3>1, <3>3, <3>5 DEF Cascade, Listing!Children
  <2>8. Deletes(r) /\ r.phase = "failed" => r.left = r.ids
    BY <2>1 DEF Expected
  <2>9. /\ \A s \in (Area(r) \ Due(r))' : SameBut(s, Gone(r))'
        /\ \A s \in Due(r)' : Landed(r, s)'
    BY <2>0, <2>5, <2>6 DEF Area, Due, Deletes
  <2>10. Expected(r)'
    BY <2>0, <2>7, <2>8, <2>9 DEF Expected, Deletes
  <2> QED
    BY <2>10 DEF r
<1>12. AllExpected'
  BY <1>3, <1>11 DEF AllExpected
<1> QED
  BY <1>5, <1>7, <1>10, <1>12 DEF Mirrors

-----------------------------------------------------------------------------
(* One request is answered.                                                *)

Answered(i) == pending' = Listing!Others(i) /\ rows' = rows /\ unused' = unused

LEMMA Remaining ==
  ASSUME PageTypes, NEW i \in DOMAIN pending, Answered(i)
  PROVE  /\ pending' \in Seq(Listing!Request)
         /\ \A j \in DOMAIN pending' : Old(i, j) \in DOMAIN pending /\ Old(i, j) # i /\ pending'[j] = pending[Old(i, j)]
         /\ \A k \in DOMAIN pending : k # i => Place(i, k) \in DOMAIN pending' /\ pending'[Place(i, k)] = pending[k]
         /\ \A j, k \in DOMAIN pending' : j # k => Old(i, j) # Old(i, k)
<1>1. pending \in Seq(Listing!Request) /\ pending' = Listing!Others(i)
  BY DEF PageTypes, Answered
<1>2. /\ pending' \in Seq(Listing!Request)
      /\ \A j \in DOMAIN pending' : Old(i, j) \in DOMAIN pending \ {i} /\ pending'[j] = pending[Old(i, j)]
      /\ \A k \in DOMAIN pending \ {i} : Place(i, k) \in DOMAIN pending' /\ Old(i, Place(i, k)) = k
      /\ \A j, k \in DOMAIN pending' : j # k => Old(i, j) # Old(i, k)
  BY <1>1, RemovedAt
<1> QED
  BY <1>2

\* The sources a request has created are known once it is answered.
LEMMA AnsweredNames ==
  ASSUME PageTypes, Creations, NEW i \in DOMAIN pending, Answered(i)
  PROVE  /\ Creating' \subseteq Creating /\ Creating' \cup Known' = Creating \cup Known
         /\ Known \subseteq Known' /\ Named \subseteq Named'
         /\ pending[i].kind = "create" => pending[i].id \in Known'
<1>1. Creating' = { pending'[j].id : j \in { k \in DOMAIN pending' : pending'[k].kind = "create" } }
  BY DEF Creating
<1>2. Creating' \subseteq Creating
  <2> SUFFICES ASSUME NEW j \in DOMAIN pending', pending'[j].kind = "create" PROVE pending'[j].id \in Creating
    BY <1>1
  <2>1. Old(i, j) \in DOMAIN pending /\ pending'[j] = pending[Old(i, j)]
    BY Remaining
  <2> QED
    BY <2>1 DEF Creating
<1>3. unused' = unused /\ Creating \subseteq Ids /\ unused \cap Creating = {}
  BY DEF Answered, Creations, Creating
<1>4. pending[i].kind = "create" => pending[i].id \in Ids /\ pending[i].id \notin unused
      /\ pending[i].id \notin Creating'
  <2> SUFFICES ASSUME pending[i].kind = "create" PROVE pending[i].id \notin Creating'
    BY <1>3 DEF Creations, Creating
  <2>1. ASSUME NEW j \in DOMAIN pending', pending'[j].kind = "create" PROVE pending'[j].id # pending[i].id
    <3>1. Old(i, j) \in DOMAIN pending /\ Old(i, j) # i /\ pending'[j] = pending[Old(i, j)]
      BY Remaining
    <3> QED
      BY <2>1, <3>1 DEF Creations
  <2> QED
    BY <1>1, <2>1
<1> QED
  BY <1>2, <1>3, <1>4 DEF Known, Named

LEMMA AnsweredTypes ==
  ASSUME PageInv, NEW i \in DOMAIN pending, Answered(i), page' \in PageStates,
         DOMAIN page'.list \subseteq Known', \A s \in DOMAIN page'.list : page'.list[s].merged \in Named',
         page'.selected \subseteq Known', page'.toDelete \in Named'
  PROVE  PageTypes' /\ Listing!Flat' /\ Mentions' /\ Creations' /\ Shapes'
<1>1. PageTypes /\ Listing!Flat /\ Mentions /\ Creations /\ Shapes
  BY DEF PageInv
<1>2. rows' = rows /\ unused' = unused
  BY DEF Answered
<1>3. PageTypes' /\ Listing!Flat'
  BY <1>1, <1>2, Remaining DEF PageTypes, Listing!Flat
<1>4. /\ Creating' \subseteq Creating /\ Creating' \cup Known' = Creating \cup Known
      /\ Known \subseteq Known' /\ Named \subseteq Named'
  BY <1>1, AnsweredNames
<1>5. \A j \in DOMAIN pending' : RequestMentions(pending[j])'
  <2> SUFFICES ASSUME NEW j \in DOMAIN pending' PROVE RequestMentions(pending[j])'
    OBVIOUS
  <2>1. Old(i, j) \in DOMAIN pending /\ pending'[j] = pending[Old(i, j)]
    BY <1>1, Remaining
  <2>2. RequestMentions(pending[Old(i, j)])
    BY <1>1, <2>1 DEF Mentions
  <2> QED
    BY <1>4, <2>1, <2>2 DEF RequestMentions
<1>6. Mentions'
  BY <1>1, <1>2, <1>4, <1>5 DEF Mentions
<1>7. Creations'
  <2>1. unused' \cap Creating' = {}
    BY <1>1, <1>2, <1>4 DEF Creations
  <2>2. ASSUME NEW j \in DOMAIN pending', pending'[j].kind = "create"
        PROVE  /\ pending'[j].id \in Ids
               /\ (pending'[j].phase \notin { "ok", "failed" } => pending'[j].id \notin DOMAIN rows')
               /\ \A k \in DOMAIN pending' : k # j /\ pending'[k].kind = "create" => pending'[k].id # pending'[j].id
    <3>1. Old(i, j) \in DOMAIN pending /\ pending'[j] = pending[Old(i, j)]
      BY <1>1, Remaining
    <3>2. \A k \in DOMAIN pending' : k # j => /\ Old(i, k) \in DOMAIN pending /\ pending'[k] = pending[Old(i, k)]
                                              /\ Old(i, k) # Old(i, j)
      BY <1>1, Remaining
    <3> QED
      BY <1>1, <1>2, <2>2, <3>1, <3>2 DEF Creations
  <2> QED
    BY <2>1, <2>2 DEF Creations
<1>8. Shapes'
  <2> SUFFICES ASSUME NEW j \in DOMAIN pending' PROVE Shape(pending'[j])
    BY DEF Shapes, Shape, Deletes
  <2>1. Old(i, j) \in DOMAIN pending /\ pending'[j] = pending[Old(i, j)]
    BY <1>1, Remaining
  <2> QED
    BY <1>1, <2>1 DEF Shapes
<1> QED
  BY <1>3, <1>6, <1>7, <1>8

\* What a request that creates nothing leaves of the names that are known.
LEMMA AnsweredMirrors ==
  ASSUME Listing!PageAssumption, PageInv, NEW i \in DOMAIN pending, Answered(i), slips = {}, page' \in PageStates,
         \A s \in Ids \ Area(pending[i]) : (s \in DOMAIN page'.list <=> s \in DOMAIN page.list)
                                           /\ (s \in DOMAIN page.list => page'.list[s] = page.list[s]),
         \A s \in Area(pending[i]) : SameBut(s, {})'
  PROVE  Mirrors'
<1>1. PageTypes /\ Mentions /\ Creations /\ Apart /\ ClosedAreas /\ SameElsewhere /\ AllExpected
  BY DEF PageInv, Mirrors
<1>2. DOMAIN rows \subseteq Ids /\ DOMAIN page.list \subseteq Ids /\ DOMAIN page'.list \subseteq Ids
  BY <1>1, RowListTypes, PageFields DEF PageTypes, PageStates
<1>3. rows' = rows
  BY DEF Answered
<1>4. \A j \in DOMAIN pending' : Old(i, j) \in DOMAIN pending /\ Old(i, j) # i /\ pending'[j] = pending[Old(i, j)]
  BY <1>1, Remaining
<1>5. \A k \in DOMAIN pending : k # i => Place(i, k) \in DOMAIN pending' /\ pending'[Place(i, k)] = pending[k]
  BY <1>1, Remaining
<1>6. \A j, k \in DOMAIN pending' : j # k => Old(i, j) # Old(i, k)
  BY <1>1, Remaining
<1>7. Apart'
  BY <1>1, <1>4, <1>6 DEF Apart
<1>8. ASSUME NEW k \in DOMAIN pending, k # i
      PROVE  Closed(Area(pending[k]), rows) /\ Closed(Area(pending[k]), page'.list)
  <2>1. Closed(Area(pending[k]), rows) /\ Closed(Area(pending[k]), page.list)
        /\ Area(pending[i]) \cap Area(pending[k]) = {}
    BY <1>1, <1>8, AreasApart DEF ClosedAreas
  <2>2. ASSUME NEW s \in DOMAIN page'.list, page'.list[s].merged # None
        PROVE  s \in Area(pending[k]) <=> page'.list[s].merged \in Area(pending[k])
    <3>1. CASE s \in Area(pending[i])
      <4>1. s \in DOMAIN rows /\ rows[s].merged = page'.list[s].merged
        BY <1>3, <2>2, <3>1 DEF SameBut, Alike
      <4> QED
        BY <2>1, <2>2, <4>1 DEF Closed
    <3>2. CASE s \notin Area(pending[i])
      <4>1. s \in DOMAIN page.list /\ page'.list[s] = page.list[s]
        BY <1>2, <2>2, <3>2
      <4> QED
        BY <2>1, <2>2, <4>1 DEF Closed
    <3> QED
      BY <3>1, <3>2
  <2> QED
    BY <2>1, <2>2 DEF Closed
<1>9. ClosedAreas'
  <2> SUFFICES ASSUME NEW j \in DOMAIN pending'
               PROVE  Closed(Area(pending'[j]), rows') /\ Closed(Area(pending'[j]), page'.list)
    BY DEF ClosedAreas, Closed, Area
  <2> QED
    BY <1>3, <1>4, <1>8
<1>10. SameElsewhere'
  <2> SUFFICES ASSUME NEW s \in Ids, ~ Covered(s)' PROVE SameBut(s, {})'
    BY DEF SameElsewhere
  <2>1. CASE s \in Area(pending[i])
    BY <2>1
  <2>2. CASE s \notin Area(pending[i])
    <3>1. \A k \in DOMAIN pending : k # i => s \notin Area(pending[k])
      <4> SUFFICES ASSUME NEW k \in DOMAIN pending, k # i, s \in Area(pending[k]) PROVE Covered(s)'
        OBVIOUS
      <4>1. Place(i, k) \in DOMAIN pending' /\ s \in Area(pending'[Place(i, k)])
        BY <1>5
      <4> QED
        BY <4>1 DEF Covered, Area
    <3>2. ~ Covered(s)
      BY <2>2, <3>1 DEF Covered
    <3>3. SameBut(s, {})
      BY <1>1, <3>2 DEF SameElsewhere
    <3> QED
      BY <1>3, <2>2, <3>3 DEF SameBut, Alike
  <2> QED
    BY <2>1, <2>2
<1>11. ASSUME NEW j \in DOMAIN pending' PROVE Expected(pending[j])'
  <2> DEFINE r == pending[Old(i, j)]
  <2>1. Old(i, j) \in DOMAIN pending /\ Old(i, j) # i /\ pending'[j] = r
    BY <1>4
  <2>2. Expected(r) /\ r \in Listing!Request /\ Shape(r) /\ (r.kind = "create" => r.id \in Ids)
    BY <1>1, <2>1, Pendings DEF AllExpected, PageInv, Shapes, Creations
  <2>3. Area(pending[i]) \cap Area(r) = {} /\ Area(r) \subseteq Ids
    <3>1. Area(pending[i]) \cap Area(r) = {}
      BY <1>1, <2>1, AreasApart
    <3> QED
      BY <2>2, <3>1, RequestFields DEF Area
  <2>4. PICK q : q = r
    OBVIOUS
  <2> HIDE DEF r
  <2>5. \A s \in Area(q) : (s \in DOMAIN page'.list <=> s \in DOMAIN page.list)
        /\ (s \in DOMAIN page.list => page'.list[s] = page.list[s])
    BY <2>3, <2>4
  <2>6. Due(q) \subseteq Area(q)
    <3>1. Shape(q) /\ q.kind \in Listing!Kinds
      BY <2>2, <2>4, RequestFields
    <3>2. ~ Deletes(q) /\ q.kind # "bulkSync" => q.id \in Area(q)
      BY <3>1 DEF Shape, Area, Deletes, Listing!Kinds
    <3> QED
      BY <3>1, <3>2 DEF Due, Area, Shape
  <2>7. \A s \in Area(q) \ Due(q) : SameBut(s, Gone(q))'
    BY <1>3, <2>2, <2>4, <2>5 DEF Expected, SameBut, Alike, Gone, Deletes
  <2>8. \A s \in Due(q) : Landed(q, s)'
    BY <1>3, <2>2, <2>4, <2>5, <2>6 DEF Expected, Landed
  <2>9. q.phase = "cascading" => Cascade(q)'
    BY <1>3, <2>2, <2>4 DEF Expected, Cascade, Listing!Children
  <2>10. Expected(q)'
    BY <2>2, <2>4, <2>7, <2>8, <2>9 DEF Expected, Deletes, Area, Due
  <2>11. pending'[j] = q
    BY <2>1, <2>4
  <2> QED
    BY <2>10, <2>11 DEF Expected, Area, Due, SameBut, Gone, Landed, Cascade, Deletes
<1>12. AllExpected'
  BY <1>11 DEF AllExpected
<1> QED
  BY <1>7, <1>9, <1>10, <1>12 DEF Mirrors

-----------------------------------------------------------------------------
(* A request is sent.                                                      *)

\* What no request under way is about is on the page as it is, and its groups are flat.
LEMMA UncoveredGroups ==
  ASSUME Listing!PageAssumption, PageTypes, Listing!Flat, Mentions, Mirrors, NEW ids \in SUBSET Ids,
         \A s \in Listing!Touches(ids) : ~ Covered(s), Listing!Touches(ids) \subseteq Ids
  PROVE  Closed(Listing!Touches(ids), rows) /\ Closed(Listing!Touches(ids), page.list)
<1>1. DOMAIN rows \subseteq Ids /\ DOMAIN page.list \subseteq Ids /\ None \notin Ids
  BY RowListTypes, PageFields DEF PageTypes, PageStates, Listing!PageAssumption
<1>2. \A s \in Ids : ~ Covered(s) => (s \in DOMAIN rows <=> s \in DOMAIN page.list)
                                    /\ (s \in DOMAIN rows => rows[s].merged = page.list[s].merged)
  BY DEF Mirrors, SameElsewhere, SameBut, Alike
<1>3. \A i \in DOMAIN pending : Closed(Area(pending[i]), rows) /\ Closed(Area(pending[i]), page.list)
  BY DEF Mirrors, ClosedAreas
<1>4. \A s \in Ids : s \in Listing!Touches(ids) <=> \E x \in ids : s \in Listing!GroupOf(page.list, x)
  BY DEF Listing!Touches
<1>5. \A x \in Ids : x \in Listing!GroupOf(page.list, x)
  BY DEF Listing!GroupOf, Listing!Children
<1>6. Closed(Listing!Touches(ids), page.list)
  <2> SUFFICES ASSUME NEW s \in DOMAIN page.list, page.list[s].merged # None
               PROVE  s \in Listing!Touches(ids) <=> page.list[s].merged \in Listing!Touches(ids)
    BY DEF Closed
  <2> DEFINE m == page.list[s].merged
  <2>0. s \in Ids /\ m \in Ids
    BY <1>1, RowListTypes, RowTypes, PageFields DEF PageTypes, PageStates
  <2> HIDE DEF m
  <2>1. ASSUME s \in Listing!Touches(ids) PROVE m \in Listing!Touches(ids)
    <3>1. PICK x \in ids : s \in Listing!GroupOf(page.list, x)
      BY <1>4, <2>0, <2>1
    <3>2. x \in Listing!Touches(ids) /\ x \in Ids
      BY <1>4, <1>5
    <3>3. x \in DOMAIN page.list
      BY <3>1 DEF Listing!GroupOf
    <3> DEFINE root == IF page.list[x].merged = None THEN x ELSE page.list[x].merged
    <3>4. Listing!GroupOf(page.list, x) = {root} \cup Listing!Children(page.list, root)
      BY <3>3 DEF Listing!GroupOf
    <3>5. CASE s \in Listing!Children(page.list, root)
      <4>1. m = root
        BY <3>5 DEF Listing!Children, m
      <4> QED
        BY <1>4, <2>0, <3>4, <4>1
    <3>6. CASE s = root
      <4>1. page.list[x].merged = s
        BY <3>6, <2>0, <1>1 DEF m
      <4>2. x \in DOMAIN rows /\ rows[x].merged = s
        BY <1>2, <3>2, <3>3, <4>1
      <4>3. s \in DOMAIN rows /\ rows[s].merged = None
        BY <1>1, <2>0, <4>2 DEF Listing!Flat
      <4>4. page.list[s].merged = None
        BY <1>2, <2>0, <2>1, <4>3
      <4> QED
        BY <4>4
    <3> QED
      BY <3>1, <3>4, <3>5, <3>6
  <2>2. ASSUME m \in Listing!Touches(ids) PROVE s \in Listing!Touches(ids)
    <3>1. ~ Covered(m)
      BY <2>2
    <3>2. ~ Covered(s)
      BY <1>3, <3>1 DEF Covered, Closed, m
    <3>3. s \in DOMAIN rows /\ rows[s].merged = m /\ m # None
      BY <1>1, <1>2, <2>0, <3>2 DEF m
    <3>4. m \in DOMAIN page.list /\ page.list[m].merged = None
      BY <1>2, <2>0, <3>1, <3>3 DEF Listing!Flat
    <3>5. PICK x \in ids : m \in Listing!GroupOf(page.list, x)
      BY <1>4, <2>0, <2>2
    <3>6. x \in DOMAIN page.list
      BY <3>4, <3>5 DEF Listing!GroupOf
    <3> DEFINE root == IF page.list[x].merged = None THEN x ELSE page.list[x].merged
    <3>7. Listing!GroupOf(page.list, x) = {root} \cup Listing!Children(page.list, root) /\ root # None
      BY <1>1, <3>6 DEF Listing!GroupOf
    <3>8. m = root
      BY <3>4, <3>5, <3>7 DEF Listing!Children
    <3>9. s \in Listing!Children(page.list, root)
      BY <3>8 DEF Listing!Children, m
    <3> QED
      BY <1>4, <2>0, <3>7, <3>9
  <2> QED
    BY <2>1, <2>2 DEF m
<1>7. Closed(Listing!Touches(ids), rows)
  <2> SUFFICES ASSUME NEW s \in DOMAIN rows, rows[s].merged # None
               PROVE  s \in Listing!Touches(ids) <=> rows[s].merged \in Listing!Touches(ids)
    BY DEF Closed
  <2>1. s \in Listing!Touches(ids) \/ rows[s].merged \in Listing!Touches(ids) => ~ Covered(s)
    BY <1>3 DEF Covered, Closed
  <2>2. ~ Covered(s) => s \in DOMAIN page.list /\ page.list[s].merged = rows[s].merged
    BY <1>1, <1>2
  <2> QED
    BY <1>6, <2>1, <2>2 DEF Closed
<1> QED
  BY <1>6, <1>7

\* What a request says when it is sent.
Unmentioned(q) ==
    /\ q \in Listing!Request /\ q.touches = Listing!Touches(q.ids) /\ q.phase = "sent" /\ q.left = q.ids
    /\ q.ids \subseteq Known /\ q.target \in Named /\ q.row.merged \in Named /\ Shape(q)
    /\ IF q.kind = "create" THEN q.id \in unused /\ unused' = unused \ {q.id}
       ELSE q.id \in Named /\ unused' = unused

LEMMA TouchesKnown ==
  ASSUME Listing!PageAssumption, PageTypes, Mentions, NEW ids \in SUBSET Known
  PROVE  Listing!Touches(ids) \subseteq Known /\ ids \subseteq Listing!Touches(ids)
<1>1. ASSUME NEW x \in ids PROVE Listing!GroupOf(page.list, x) \subseteq Known /\ x \in Listing!GroupOf(page.list, x)
  <2>1. DOMAIN page.list \subseteq Known
    BY DEF Mentions
  <2>2. Listing!Children(page.list, IF page.list[x].merged = None THEN x ELSE page.list[x].merged) \subseteq Known
    BY <2>1 DEF Listing!Children
  <2>3. x \in DOMAIN page.list /\ page.list[x].merged # None => page.list[x].merged \in Known
    BY DEF Mentions, Named
  <2>4. x \in Known
    OBVIOUS
  <2>5. Listing!GroupOf(page.list, x) \subseteq Known
    BY <2>2, <2>3, <2>4 DEF Listing!GroupOf
  <2>6. x \in Listing!GroupOf(page.list, x)
    BY DEF Listing!GroupOf, Listing!Children
  <2> QED
    BY <2>5, <2>6
<1> QED
  BY <1>1 DEF Listing!Touches

LEMMA SentInv ==
  ASSUME Listing!PageAssumption, PageInv, NEW q, Unmentioned(q), Listing!Sends(q), page' \in PageStates,
         page'.list = page.list,
         page'.selected = page.selected, page'.toDelete = page.toDelete
  PROVE  PageInv'
<1> DEFINE n == Len(pending)
<1>1. PageTypes /\ Listing!Flat /\ Mentions /\ Creations /\ Shapes
  BY DEF PageInv
<1>2. /\ pending' = Append(pending, q) /\ q \in Listing!Request /\ rows' = rows
      /\ slips' = IF \E i \in DOMAIN pending : pending[i].touches \cap q.touches # {} THEN slips \cup {"crossed"} ELSE slips
  BY DEF Listing!Sends, Unmentioned
<1>3. /\ pending' \in Seq(Listing!Request) /\ DOMAIN pending = 1 .. n /\ DOMAIN pending' = 1 .. n + 1 /\ n \in Nat
      /\ pending'[n + 1] = q /\ \A i \in DOMAIN pending : pending'[i] = pending[i]
  <2>1. pending \in Seq(Listing!Request)
    BY <1>1 DEF PageTypes
  <2> QED
    BY <1>2, <2>1
<1> HIDE DEF n
<1>4. DOMAIN pending' = DOMAIN pending \cup {n + 1} /\ n + 1 \notin DOMAIN pending
  BY <1>3
<1>5. q.kind = "create" => q.id \in unused /\ q.id \in Ids /\ q.id \notin Creating /\ q.id \notin Known
  BY <1>1 DEF Unmentioned, Creations, Known, PageTypes
<1>7. Creating' = Creating \cup (IF q.kind = "create" THEN {q.id} ELSE {})
  <2>1. Creating' = { pending'[j].id : j \in { k \in DOMAIN pending' : pending'[k].kind = "create" } }
    BY DEF Creating
  <2>2. \A x : x \in Creating' <=> \E k \in DOMAIN pending' : pending'[k].kind = "create" /\ x = pending'[k].id
    BY <2>1
  <2>3. \A x : x \in Creating <=> \E k \in DOMAIN pending : pending[k].kind = "create" /\ x = pending[k].id
    BY DEF Creating
  <2> QED
    BY <1>3, <1>4, <2>2, <2>3
<1>8. Known' = Known /\ Named' = Named
  <2>1. Known' = Known
    BY <1>5, <1>7 DEF Known, Unmentioned
  <2> QED
    BY <2>1 DEF Named
<1>9. q.touches \subseteq Known /\ q.ids \subseteq q.touches
  BY <1>1, TouchesKnown DEF Unmentioned
<1>10. PageTypes'
  BY <1>1, <1>2, <1>3 DEF PageTypes, Unmentioned
<1>11. Listing!Flat'
  BY <1>1, <1>2 DEF Listing!Flat
<1>12. Mentions'
  <2>1. \A j \in DOMAIN pending' : RequestMentions(pending'[j])
    BY <1>1, <1>3, <1>4, <1>9 DEF Mentions, RequestMentions, Unmentioned
  <2>2. \A j \in DOMAIN pending' : RequestMentions(pending[j])'
    BY <1>8, <2>1 DEF RequestMentions
  <2>3. DOMAIN rows' \subseteq Known' \cup Creating' /\ \A s \in DOMAIN rows' : rows'[s].merged \in Named'
    BY <1>1, <1>2, <1>7, <1>8 DEF Mentions
  <2>4. /\ DOMAIN page'.list \subseteq Known' /\ \A s \in DOMAIN page'.list : page'.list[s].merged \in Named'
        /\ page'.selected \subseteq Known' /\ page'.toDelete \in Named'
    BY <1>1, <1>8 DEF Mentions
  <2> QED
    BY <2>2, <2>3, <2>4 DEF Mentions
<1>13. Creations'
  <2>1. unused' \cap Creating' = {}
    BY <1>1, <1>5, <1>7 DEF Creations, Unmentioned
  <2>2. q.kind = "create" => q.id \notin DOMAIN rows'
    BY <1>1, <1>2, <1>5 DEF Mentions
  <2>3. \A j \in DOMAIN pending : pending[j].kind = "create" => pending[j].id \in Creating
    BY DEF Creating
  <2>4. ASSUME NEW j \in DOMAIN pending', pending'[j].kind = "create"
        PROVE  /\ pending'[j].id \in Ids
               /\ (pending'[j].phase \notin { "ok", "failed" } => pending'[j].id \notin DOMAIN rows')
               /\ \A k \in DOMAIN pending' : k # j /\ pending'[k].kind = "create" => pending'[k].id # pending'[j].id
    <3>1. CASE j = n + 1
      BY <1>3, <1>4, <1>5, <2>2, <2>3, <2>4, <3>1
    <3>2. CASE j \in DOMAIN pending
      BY <1>1, <1>2, <1>3, <1>4, <1>5, <2>3, <2>4, <3>2 DEF Creations
    <3> QED
      BY <1>4, <3>1, <3>2
  <2> QED
    BY <2>1, <2>4 DEF Creations
<1>14. Shapes'
  <2>1. \A j \in DOMAIN pending' : Shape(pending'[j])
    BY <1>1, <1>3, <1>4 DEF Shapes, Unmentioned
  <2> QED
    BY <2>1 DEF Shapes, Shape, Deletes
<1>15. ASSUME slips' = {} PROVE Mirrors'
  <2>1. slips = {} /\ \A i \in DOMAIN pending : pending[i].touches \cap q.touches = {}
    BY <1>2, <1>15
  <2>2. Apart /\ ClosedAreas /\ SameElsewhere /\ AllExpected
    BY <2>1 DEF PageInv, Mirrors
  <2>3. \A s \in q.touches : ~ Covered(s)
    <3>1. \A i \in DOMAIN pending : Area(pending[i]) \subseteq pending[i].touches \cup Creating
      BY DEF Area, Creating
    <3>2. q.touches \cap Creating = {}
      BY <1>9 DEF Known
    <3> QED
      BY <2>1, <3>1, <3>2 DEF Covered
  <2>4. Closed(q.touches, rows) /\ Closed(q.touches, page.list)
    <3>1. q.touches \subseteq Ids /\ q.ids \in SUBSET Ids /\ q.touches = Listing!Touches(q.ids)
      BY <1>2, RequestFields DEF Unmentioned
    <3>2. Mirrors
      BY <2>2 DEF Mirrors
    <3> QED
      BY <1>1, <2>3, <3>1, <3>2, UncoveredGroups
  <2>5. q.kind = "create" => /\ q.id \notin DOMAIN rows /\ q.id \notin DOMAIN page.list
                             /\ \A s \in DOMAIN rows : rows[s].merged # q.id
                             /\ \A s \in DOMAIN page.list : page.list[s].merged # q.id
    BY <1>1, <1>5 DEF Mentions, Named, Listing!PageAssumption
  <2>6. Closed(Area(q), rows) /\ Closed(Area(q), page.list)
    BY <2>4, <2>5 DEF Closed, Area
  <2>7. Due(q) = {} /\ Gone(q) = {}
    BY DEF Unmentioned, Due, Gone
  <2>8. \A s \in Area(q) : SameBut(s, {})
    <3>1. \A s \in q.touches : SameBut(s, {})
      BY <1>2, <2>2, <2>3, RequestFields DEF SameElsewhere
    <3>2. q.kind = "create" => SameBut(q.id, {})
      BY <2>5 DEF SameBut
    <3> QED
      BY <3>1, <3>2 DEF Area
  <2>9. Expected(q)
    BY <2>7, <2>8 DEF Expected, Unmentioned
  <2>10. \A j \in DOMAIN pending' : Expected(pending'[j]) /\ Closed(Area(pending'[j]), rows)
        /\ Closed(Area(pending'[j]), page.list)
    BY <1>3, <1>4, <2>2, <2>6, <2>9 DEF AllExpected, ClosedAreas
  <2>11. Apart'
    BY <1>3, <1>4, <2>1, <2>2 DEF Apart
  <2>12. ClosedAreas'
    BY <1>2, <2>10 DEF ClosedAreas, Closed, Area
  <2>13. AllExpected'
    <3> SUFFICES ASSUME NEW j \in DOMAIN pending' PROVE Expected(pending[j])'
      BY DEF AllExpected
    <3>1. PICK r : r = pending'[j]
      OBVIOUS
    <3>2. Expected(r)
      BY <2>10, <3>1
    <3>3. \A s, gone : SameBut(s, gone) => SameBut(s, gone)'
      BY <1>2 DEF SameBut, Alike
    <3>4. \A s : Landed(r, s) => Landed(r, s)'
      BY <1>2 DEF Landed
    <3>5. Cascade(r) => Cascade(r)'
      BY <1>2 DEF Cascade, Listing!Children
    <3>6. Expected(r)'
      BY <3>2, <3>3, <3>4, <3>5 DEF Expected, Area, Due, Gone, Deletes
    <3> QED
      BY <3>1, <3>6 DEF Expected, Area, Due, Gone, Deletes, SameBut, Landed, Cascade
  <2>14. SameElsewhere'
    <3>1. \A s \in Ids : Covered(s) => Covered(s)'
      BY <1>3, <1>4 DEF Covered, Area
    <3> QED
      BY <1>2, <2>2, <3>1 DEF SameElsewhere, SameBut, Alike
  <2> QED
    BY <2>11, <2>12, <2>13, <2>14 DEF Mirrors
<1> QED
  BY <1>10, <1>11, <1>12, <1>13, <1>14, <1>15 DEF PageInv

\* A request as it is sent, of some target.
AsksFor(q, kind, id, ids, target) ==
    /\ q \in Listing!Request /\ q.kind = kind /\ q.phase = "sent" /\ q.id = id /\ q.ids = ids /\ q.target = target
    /\ q.left = ids /\ q.row.merged = None /\ q.touches = Listing!Touches(ids)

LEMMA AskedFields ==
  ASSUME NEW kind \in Listing!Kinds, NEW id \in Ids \cup {None}, NEW ids \in SUBSET Ids,
         Listing!Touches(ids) \subseteq Ids,
         NEW to \in { "active", "paused" }, NEW target \in Ids \cup {None}
  PROVE  /\ AsksFor(Listing!Asked(kind, id, ids), kind, id, ids, None)
         /\ AsksFor([ Listing!Asked(kind, id, ids) EXCEPT !.to = to ], kind, id, ids, None)
         /\ AsksFor([ Listing!Asked(kind, id, ids) EXCEPT !.target = target ], kind, id, ids, target)
<1> DEFINE touches == Listing!Touches(ids)
           row == [ merged |-> None, status |-> "active" ]
<1>1. /\ touches \subseteq Ids /\ row \in Listing!Row /\ row.merged = None /\ "sent" \in Listing!Phases
      /\ "active" \in { "active", "paused" } /\ None \in Ids \cup {None} /\ {} \subseteq Ids
  BY DEF Listing!Row, Listing!Phases
<1> HIDE DEF touches, row
<1>2. Listing!Asked(kind, id, ids) =
        [ kind |-> kind, phase |-> "sent", id |-> id, ids |-> ids, to |-> "active", target |-> None,
          left |-> ids, doomed |-> {}, row |-> row, touches |-> touches ]
  BY DEF Listing!Asked, touches, row
<1>3. [ Listing!Asked(kind, id, ids) EXCEPT !.to = to ] =
        [ kind |-> kind, phase |-> "sent", id |-> id, ids |-> ids, to |-> to, target |-> None,
          left |-> ids, doomed |-> {}, row |-> row, touches |-> touches ]
  BY <1>2
<1>4. [ Listing!Asked(kind, id, ids) EXCEPT !.target = target ] =
        [ kind |-> kind, phase |-> "sent", id |-> id, ids |-> ids, to |-> "active", target |-> target,
          left |-> ids, doomed |-> {}, row |-> row, touches |-> touches ]
  BY <1>2
<1>5. ASSUME NEW way \in { "active", "paused" }, NEW root \in Ids \cup {None}
      PROVE  [ kind |-> kind, phase |-> "sent", id |-> id, ids |-> ids, to |-> way, target |-> root,
               left |-> ids, doomed |-> {}, row |-> row, touches |-> touches ] \in Listing!Request
  BY <1>1, Zenon DEF Listing!Request
<1>6. [ Listing!Asked(kind, id, ids) EXCEPT !.to = to ] \in Listing!Request
      /\ [ Listing!Asked(kind, id, ids) EXCEPT !.target = target ] \in Listing!Request
  <2> DEFINE Sending(way, root) == [ kind |-> kind, phase |-> "sent", id |-> id, ids |-> ids, to |-> way,
        target |-> root,
                                  left |-> ids, doomed |-> {}, row |-> row, touches |-> touches ]
  <2>1. [ Listing!Asked(kind, id, ids) EXCEPT !.to = to ] = Sending(to, None)
        /\ [ Listing!Asked(kind, id, ids) EXCEPT !.target = target ] = Sending("active", target)
    BY <1>3, <1>4, Zenon
  <2>2. \A way \in { "active", "paused" }, root \in Ids \cup {None} : Sending(way, root) \in Listing!Request
    BY <1>5, Zenon
  <2> HIDE DEF Sending
  <2> QED
    BY <1>1, <2>1, <2>2
<1>7. Listing!Asked(kind, id, ids) \in Listing!Request
  BY <1>1, <1>2, <1>5, Zenon
<1>8. AsksFor(Listing!Asked(kind, id, ids), kind, id, ids, None)
  BY <1>1, <1>2, <1>7 DEF AsksFor, touches
<1>9. AsksFor([ Listing!Asked(kind, id, ids) EXCEPT !.to = to ], kind, id, ids, None)
  BY <1>1, <1>3, <1>6 DEF AsksFor, touches
<1>10. AsksFor([ Listing!Asked(kind, id, ids) EXCEPT !.target = target ], kind, id, ids, target)
  BY <1>1, <1>4, <1>6 DEF AsksFor, touches
<1> QED
  BY <1>8, <1>9, <1>10

LEMMA AskedFresh ==
  ASSUME Listing!PageAssumption, PageInv, NEW kind \in Listing!Kinds, NEW id, NEW ids \in SUBSET Known,
         NEW target \in Named,
         NEW q, AsksFor(q, kind, id, ids, target),
         kind \in { "unmerge", "toggle", "sync", "edit" } => id \in ids,
         kind = "create" => (target # None => target \in ids),
         kind = "delete" => \A s, t \in ids : s = t,
         IF kind = "create" THEN id \in unused /\ unused' = unused \ {id} ELSE id \in Named /\ unused' = unused
  PROVE  Unmentioned(q)
<1>1. Listing!Touches(ids) \subseteq Known /\ ids \subseteq Listing!Touches(ids)
  BY TouchesKnown DEF PageInv
<1>2. Shape(q)
  BY <1>1 DEF Shape, AsksFor, Listing!Kinds
<1>3. None \in Named
  BY DEF Named
<1> QED
  BY <1>2, <1>3 DEF Unmentioned, AsksFor

LEMMA ListedNames ==
  ASSUME Listing!PageAssumption, PageInv
  PROVE  /\ DOMAIN page.list \subseteq Known /\ Known \subseteq Ids /\ Named \subseteq Ids \cup {None}
               /\ None \notin Known
         /\ page \in PageStates /\ page.selected \subseteq Known /\ page.toDelete \in Named
         /\ \A ids \in SUBSET Known : Listing!Touches(ids) \subseteq Ids
<1>1. PageTypes /\ Mentions
  BY DEF PageInv
<1>2. Known \subseteq Ids /\ None \notin Ids
  BY DEF Known, Listing!PageAssumption
<1>3. \A ids \in SUBSET Known : Listing!Touches(ids) \subseteq Known
  BY <1>1, TouchesKnown
<1> QED
  BY <1>1, <1>2, <1>3 DEF PageTypes, Mentions, Named

\* The page without its requests.
LEMMA PageMoves ==
  ASSUME PageInv, page' \in PageStates, page'.list = page.list, page'.selected \subseteq Known,
         page'.toDelete \in Named,
         rows' = rows, pending' = pending, unused' = unused, slips' = slips
  PROVE  PageInv'
<1>1. Creating' = Creating /\ Known' = Known /\ Named' = Named
  BY DEF Creating, Known, Named
<1>2. PageTypes' /\ Listing!Flat' /\ Creations' /\ Shapes'
  BY <1>1 DEF PageInv, PageTypes, Listing!Flat, Creations, Shapes, Shape, Deletes
<1>3. Mentions'
  BY <1>1 DEF PageInv, Mentions, RequestMentions
<1>4. Mirrors => Mirrors'
  <2>1. \A s, gone : SameBut(s, gone)' <=> SameBut(s, gone)
    BY DEF SameBut, Alike
  <2>2. \A r, s : Landed(r, s)' <=> Landed(r, s)
    BY DEF Landed
  <2>3. \A r : Cascade(r)' <=> Cascade(r)
    BY DEF Cascade, Listing!Children
  <2>4. \A r : Expected(r)' <=> Expected(r)
    BY <2>1, <2>2, <2>3 DEF Expected, Area, Due, Gone, Deletes
  <2>5. \A s : Covered(s)' <=> Covered(s)
    BY DEF Covered, Area
  <2>6. AllExpected => AllExpected'
    <3> SUFFICES ASSUME AllExpected, NEW j \in DOMAIN pending PROVE Expected(pending[j])'
      BY DEF AllExpected
    <3>1. PICK r : r = pending[j]
      OBVIOUS
    <3>2. Expected(r)'
      BY <2>4, <3>1 DEF AllExpected
    <3> QED
      BY <3>1, <3>2 DEF Expected, Area, Due, Gone, Deletes, SameBut, Landed, Cascade
  <2>7. SameElsewhere => SameElsewhere'
    BY <2>1, <2>5 DEF SameElsewhere
  <2>8. Apart => Apart'
    BY DEF Apart
  <2>9. ClosedAreas => ClosedAreas'
    BY DEF ClosedAreas, Closed, Area
  <2> QED
    BY <2>6, <2>7, <2>8, <2>9 DEF Mirrors
<1> QED
  BY <1>2, <1>3, <1>4 DEF PageInv

LEMMA OpensOrSelects ==
  ASSUME Listing!PageAssumption, PageInv, NEW s \in Ids, Listing!OpenDeleteDialog(s) \/ Listing!Select(s)
  PROVE  PageInv'
<1>1. DOMAIN page.list \subseteq Known /\ Known \subseteq Ids /\ page \in PageStates
      /\ page.selected \subseteq Known /\ page.toDelete \in Named
  BY ListedNames
<1>2. CASE Listing!OpenDeleteDialog(s)
  <2>1. s \in Known /\ page' = [ page EXCEPT !.toDelete = s ]
    BY <1>1, <1>2 DEF Listing!OpenDeleteDialog
  <2>2. page' \in PageStates /\ page'.list = page.list /\ page'.selected = page.selected /\ page'.toDelete = s
    BY <1>1, <2>1 DEF PageStates
  <2> QED
    BY <1>1, <1>2, <2>1, <2>2, PageMoves DEF Listing!OpenDeleteDialog, Named
<1>3. CASE Listing!Select(s)
  <2> DEFINE chosen == IF s \in page.selected THEN page.selected \ {s} ELSE page.selected \cup {s}
  <2>1. s \in Known /\ chosen \subseteq Known /\ page' = [ page EXCEPT !.selected = chosen ]
    BY <1>1, <1>3 DEF Listing!Select, Listing!Roots
  <2> HIDE DEF chosen
  <2>2. page' \in PageStates /\ page'.list = page.list /\ page'.selected = chosen /\ page'.toDelete = page.toDelete
    BY <1>1, <2>1 DEF PageStates
  <2> QED
    BY <1>1, <1>3, <2>1, <2>2, PageMoves DEF Listing!Select
<1> QED
  BY <1>2, <1>3

LEMMA Refreshes ==
  ASSUME Listing!PageAssumption, PageInv, Listing!RefreshSources
  PROVE  PageInv'
<1>1. /\ PageTypes /\ Listing!Flat /\ Mentions /\ Creations /\ Shapes
      /\ DOMAIN pending = {} /\ rows' = rows /\ pending' = pending /\ unused' = unused
      /\ page' = [ page EXCEPT !.list = rows ]
  BY DEF PageInv, Listing!RefreshSources
<1>2. page' \in PageStates /\ page'.list = rows /\ page'.selected = page.selected /\ page'.toDelete = page.toDelete
  BY <1>1 DEF PageTypes, PageStates
<1>3. Creating' = Creating /\ Known' = Known /\ Named' = Named /\ Creating = {}
  BY <1>1 DEF Creating, Known, Named
<1>4. PageTypes' /\ Listing!Flat' /\ Creations' /\ Shapes'
  BY <1>1, <1>2, <1>3 DEF PageTypes, Listing!Flat, Creations, Shapes
<1>5. Mentions'
  BY <1>1, <1>2, <1>3 DEF Mentions
<1>6. Mirrors'
  <2>1. \A s \in Ids : SameBut(s, {})'
    BY <1>1, <1>2 DEF SameBut, Alike
  <2> QED
    BY <1>1, <2>1 DEF Mirrors, Apart, ClosedAreas, SameElsewhere, AllExpected
<1> QED
  BY <1>4, <1>5, <1>6 DEF PageInv

LEMMA Asking ==
  ASSUME Listing!PageAssumption, PageInv,
         \/ Listing!ConfirmDelete \/ Listing!HandleBulkDelete \/ Listing!HandleBulkForceSync
         \/ \E kind \in { "unmerge", "toggle", "sync", "edit" }, s \in Ids : Listing!Asks(kind, s)
         \/ \E s \in Ids, target \in Ids \cup {None} : Listing!HandleCreate(s, target)
  PROVE  PageInv'
<1>1. /\ DOMAIN page.list \subseteq Known /\ Known \subseteq Ids /\ Named \subseteq Ids \cup {None} /\ None \notin Known
      /\ page \in PageStates /\ page.selected \subseteq Known /\ page.toDelete \in Named
      /\ \A ids \in SUBSET Known : Listing!Touches(ids) \subseteq Ids
  BY ListedNames
<1>2. None \in Named /\ Named = Known \cup {None} /\ "active" \in { "active", "paused" }
  BY DEF Named
<1>3. CASE Listing!ConfirmDelete
  <2> DEFINE q == Listing!Asked("delete", page.toDelete, {page.toDelete})
  <2>1. page.toDelete \in Known
    BY <1>1, <1>2, <1>3 DEF Listing!ConfirmDelete
  <2>2. AsksFor(q, "delete", page.toDelete, {page.toDelete}, None)
    BY <1>1, <1>2, <2>1, AskedFields DEF Listing!Kinds
  <2>3. Listing!Sends(q) /\ unused' = unused /\ page' = [ page EXCEPT !.deleting = TRUE ]
    BY <1>3 DEF Listing!ConfirmDelete
  <2> HIDE DEF q
  <2>4. Unmentioned(q)
    BY <1>1, <1>2, <2>1, <2>2, <2>3, AskedFresh DEF Listing!Kinds
  <2>5. page' \in PageStates /\ page'.list = page.list /\ page'.selected = page.selected
        /\ page'.toDelete = page.toDelete
    BY <1>1, <2>3 DEF PageStates
  <2> QED
    BY <2>3, <2>4, <2>5, SentInv
<1>4. CASE Listing!HandleBulkDelete
  <2> DEFINE q == Listing!Asked("bulkDelete", None, page.selected)
  <2>1. AsksFor(q, "bulkDelete", None, page.selected, None)
    BY <1>1, <1>2, AskedFields DEF Listing!Kinds
  <2>2. Listing!Sends(q) /\ unused' = unused /\ page' = [ page EXCEPT !.deleting = TRUE ]
    BY <1>4 DEF Listing!HandleBulkDelete
  <2> HIDE DEF q
  <2>3. Unmentioned(q)
    BY <1>1, <1>2, <2>1, <2>2, AskedFresh DEF Listing!Kinds
  <2>4. page' \in PageStates /\ page'.list = page.list /\ page'.selected = page.selected
        /\ page'.toDelete = page.toDelete
    BY <1>1, <2>2 DEF PageStates
  <2> QED
    BY <2>2, <2>3, <2>4, SentInv
<1>5. CASE Listing!HandleBulkForceSync
  <2> DEFINE q == Listing!Asked("bulkSync", None, page.selected)
  <2>1. AsksFor(q, "bulkSync", None, page.selected, None)
    BY <1>1, <1>2, AskedFields DEF Listing!Kinds
  <2>2. Listing!Sends(q) /\ unused' = unused /\ page' = page
    BY <1>5 DEF Listing!HandleBulkForceSync
  <2> HIDE DEF q
  <2>3. Unmentioned(q)
    BY <1>1, <1>2, <2>1, <2>2, AskedFresh DEF Listing!Kinds
  <2> QED
    BY <1>1, <2>2, <2>3, SentInv
<1>6. ASSUME NEW kind \in { "unmerge", "toggle", "sync", "edit" }, NEW s \in Ids, Listing!Asks(kind, s)
      PROVE  PageInv'
  <2> DEFINE to == IF page.list[s].status = "paused" THEN "active" ELSE "paused"
             q == [ Listing!Asked(kind, s, {s}) EXCEPT !.to = to ]
  <2>1. s \in Known /\ kind \in Listing!Kinds /\ kind \notin { "create", "delete" }
    BY <1>1, <1>6 DEF Listing!Asks, Listing!Kinds
  <2>2. AsksFor(q, kind, s, {s}, None)
    BY <1>1, <1>2, <2>1, AskedFields
  <2>3. Listing!Sends(q) /\ unused' = unused /\ page' = page
    BY <1>6 DEF Listing!Asks
  <2> HIDE DEF q
  <2>4. Unmentioned(q)
    BY <1>1, <1>2, <2>1, <2>2, <2>3, AskedFresh
  <2> QED
    BY <1>1, <2>3, <2>4, SentInv
<1>7. ASSUME NEW s \in Ids, NEW target \in Ids \cup {None}, Listing!HandleCreate(s, target)
      PROVE  PageInv'
  <2> DEFINE q == [ Listing!Asked("create", s, {target} \ {None}) EXCEPT !.target = target ]
  <2>1. target \in Named /\ {target} \ {None} \subseteq Known /\ "create" \in Listing!Kinds
    BY <1>1, <1>2, <1>7 DEF Listing!HandleCreate, Listing!Kinds
  <2>2. AsksFor(q, "create", s, {target} \ {None}, target)
    BY <1>1, <1>2, <2>1, AskedFields
  <2>3. Listing!Sends(q) /\ s \in unused /\ unused' = unused \ {s} /\ page' = page
    BY <1>7 DEF Listing!HandleCreate
  <2> HIDE DEF q
  <2>4. Unmentioned(q)
    BY <1>1, <1>2, <2>1, <2>2, <2>3, AskedFresh
  <2> QED
    BY <1>1, <2>3, <2>4, SentInv
<1> QED
  BY <1>3, <1>4, <1>5, <1>6, <1>7

-----------------------------------------------------------------------------
(* What the server does.                                                   *)

\* A request with a new phase, and with some of its fields new.
Now(q, r, phase, id, left, doomed, row) ==
    /\ q \in Listing!Request /\ q.kind = r.kind /\ q.ids = r.ids /\ q.to = r.to /\ q.target = r.target
       /\ q.touches = r.touches
    /\ q.phase = phase /\ q.id = id /\ q.left = left /\ q.doomed = doomed /\ q.row = row

LEMMA NowIs ==
  ASSUME NEW r \in Listing!Request, NEW phase \in Listing!Phases, NEW id \in Ids \cup {None}, NEW left \in SUBSET Ids,
         NEW doomed \in SUBSET Ids, NEW row \in Listing!Row
  PROVE  /\ Now([ r EXCEPT !.phase = phase ], r, phase, r.id, r.left, r.doomed, r.row)
         /\ Now([ r EXCEPT !.phase = phase, !.id = id, !.doomed = doomed ], r, phase, id, r.left, doomed, r.row)
         /\ Now([ r EXCEPT !.phase = phase, !.left = left ], r, phase, r.id, left, r.doomed, r.row)
         /\ Now([ r EXCEPT !.left = left, !.phase = phase ], r, phase, r.id, left, r.doomed, r.row)
         /\ Now([ [ r EXCEPT !.phase = phase ] EXCEPT !.row = row ], r, phase, r.id, r.left, r.doomed, row)
<1>1. Now([ r EXCEPT !.phase = phase ], r, phase, r.id, r.left, r.doomed, r.row)
  BY Zenon DEF Listing!Request, Now
<1>2. Now([ r EXCEPT !.phase = phase, !.id = id, !.doomed = doomed ], r, phase, id, r.left, doomed, r.row)
  BY Zenon DEF Listing!Request, Now
<1>3. Now([ r EXCEPT !.phase = phase, !.left = left ], r, phase, r.id, left, r.doomed, r.row)
  BY Zenon DEF Listing!Request, Now
<1>4. Now([ r EXCEPT !.left = left, !.phase = phase ], r, phase, r.id, left, r.doomed, r.row)
  BY Zenon DEF Listing!Request, Now
<1>5. Now([ [ r EXCEPT !.phase = phase ] EXCEPT !.row = row ], r, phase, r.id, r.left, r.doomed, row)
  <2>1. PICK q : q = [ r EXCEPT !.phase = phase ]
    OBVIOUS
  <2>2. Now(q, r, phase, r.id, r.left, r.doomed, r.row)
    BY <1>1, <2>1
  <2>3. Now([ q EXCEPT !.row = row ], r, phase, r.id, r.left, r.doomed, row)
    BY <2>2 DEF Now, Listing!Request
  <2> QED
    BY <2>1, <2>3
<1> QED
  BY <1>1, <1>2, <1>3, <1>4, <1>5

LEMMA ServedInv ==
  ASSUME Listing!PageAssumption, PageInv, NEW i \in DOMAIN pending, NEW q, NEW phase, NEW id, NEW left,
         NEW doomed, NEW row,
         Now(q, pending[i], phase, id, left, doomed, row), pending' = [ pending EXCEPT ![i] = q ],
         pending[i].kind = "create" => id = pending[i].id,
         pending[i].phase \in { "sent", "cascading" }, page' = page, unused' = unused, slips \subseteq slips',
         rows' \in RowLists, Listing!Flat', DOMAIN rows' \subseteq DOMAIN rows \cup Newcomers(q),
         \A s \in DOMAIN rows' : rows'[s].merged \in Named,
         row.merged \in Named, pending[i].kind # "create" => id \in Named, Shape(q),
         slips' = {} => /\ \A s \in Ids \ Area(q) : /\ s \in DOMAIN rows' <=> s \in DOMAIN rows
                                                    /\ s \in DOMAIN rows => rows'[s] = rows[s]
                        /\ Closed(Area(q), rows') /\ Expected(q)'
  PROVE  PageInv'
<1>1. pending \in Seq(Listing!Request)
  BY DEF PageInv, PageTypes
<1>2. /\ pending' \in Seq(Listing!Request) /\ DOMAIN pending' = DOMAIN pending /\ pending'[i] = q
      /\ \A j \in DOMAIN pending : j # i => pending'[j] = pending[j]
  BY <1>1 DEF Now
<1>3. Serves(i)
  BY <1>2 DEF Serves, Now
<1>4. PageTypes' /\ Mentions' /\ Creations' /\ Shapes'
  BY <1>2, <1>3, Served DEF Now
<1>5. slips' = {} => Mirrors'
  <2> SUFFICES ASSUME slips' = {} PROVE Mirrors'
    OBVIOUS
  <2>1. slips = {}
    OBVIOUS
  <2>2. Area(pending[i]) = Area(q)
    BY DEF Area, Now
  <2>3. Expected(q)'
    OBVIOUS
  <2>4. Expected(pending[i])'
    BY <1>2, <2>3 DEF Expected, Area, Due, Gone, Deletes, SameBut, Landed, Cascade
  <2> QED
    BY <1>3, <2>1, <2>2, <2>4, ServedMirrors
<1> QED
  BY <1>4, <1>5 DEF PageInv

\* The facts about one request that the steps start from.
LEMMA Serving ==
  ASSUME Listing!PageAssumption, PageInv, NEW i \in DOMAIN pending
  PROVE  /\ pending[i] \in Listing!Request /\ Shape(pending[i]) /\ RequestMentions(pending[i])
         /\ rows \in RowLists /\ DOMAIN rows \subseteq Ids /\ Listing!Flat /\ None \notin Ids
         /\ \A s \in DOMAIN rows : rows[s] \in Listing!Row /\ rows[s].merged \in Named
         /\ DOMAIN page.list \subseteq Known /\ page.list \in RowLists /\ page \in PageStates
         /\ DOMAIN page.list \subseteq Ids /\ \A s \in DOMAIN page.list : page.list[s] \in Listing!Row
            /\ page.list[s].merged \in Named
         /\ Known \subseteq Ids /\ Named = Known \cup {None}
         /\ slips = {} => /\ Expected(pending[i]) /\ Closed(Area(pending[i]), rows)
            /\ Closed(Area(pending[i]), page.list)
<1>1. PageTypes /\ Mentions /\ Shapes /\ Listing!Flat /\ (slips = {} => Mirrors)
  BY DEF PageInv
<1>2. pending[i] \in Listing!Request
  BY <1>1, Pendings
<1>3. rows \in RowLists /\ DOMAIN rows \subseteq Ids /\ \A s \in DOMAIN rows : rows[s] \in Listing!Row
  BY <1>1, RowListTypes DEF PageTypes
<1>4. page \in PageStates /\ page.list \in RowLists
  BY <1>1, PageFields DEF PageTypes
<1>5. DOMAIN page.list \subseteq Ids /\ \A s \in DOMAIN page.list : page.list[s] \in Listing!Row
  BY <1>4, RowListTypes
<1>6. Known \subseteq Ids /\ Named = Known \cup {None} /\ None \notin Ids
  BY DEF Known, Named, Listing!PageAssumption
<1>7. Shape(pending[i]) /\ RequestMentions(pending[i])
  BY <1>1 DEF Shapes, Mentions
<1>8. slips = {} => Expected(pending[i]) /\ Closed(Area(pending[i]), rows) /\ Closed(Area(pending[i]), page.list)
  BY <1>1 DEF Mirrors, AllExpected, ClosedAreas
<1> QED
  BY <1>1, <1>2, <1>3, <1>4, <1>5, <1>6, <1>7, <1>8 DEF Mentions

LEMMA ExpectedStays ==
  ASSUME NEW q, rows' = rows, page'.list = page.list
  PROVE  Expected(q)' <=> Expected(q)
<1>1. \A s, gone : SameBut(s, gone)' <=> SameBut(s, gone)
  BY DEF SameBut, Alike
<1>2. \A s : Landed(q, s)' <=> Landed(q, s)
  BY DEF Landed
<1>3. Cascade(q)' <=> Cascade(q)
  BY DEF Cascade, Listing!Children
<1> QED
  BY <1>1, <1>2, <1>3 DEF Expected, Area, Due, Gone, Deletes

\* Steps that leave the rows alone.
LEMMA ServedRows ==
  ASSUME Listing!PageAssumption, PageInv, NEW i \in DOMAIN pending, NEW q, NEW phase, NEW id, NEW left,
         NEW doomed, NEW row,
         Now(q, pending[i], phase, id, left, doomed, row), pending' = [ pending EXCEPT ![i] = q ],
         pending[i].kind = "create" => id = pending[i].id,
         pending[i].phase \in { "sent", "cascading" }, page' = page, unused' = unused, slips \subseteq slips', rows' = rows,
         row.merged \in Named, pending[i].kind # "create" => id \in Named, Shape(q),
         slips' = {} => Expected(q)
  PROVE  PageInv'
<1>1. /\ rows \in RowLists /\ Listing!Flat /\ \A s \in DOMAIN rows : rows[s].merged \in Named
      /\ slips = {} => Closed(Area(pending[i]), rows)
  BY Serving
<1>2. Listing!Flat'
  BY <1>1 DEF Listing!Flat
<1>3. Area(q) = Area(pending[i])
  BY DEF Now, Area
<1>4. slips' = {} => Closed(Area(q), rows') /\ Expected(q)'
  BY <1>1, <1>3, ExpectedStays
<1> QED
  BY <1>1, <1>2, <1>4, ServedInv

\* Requests of which nothing has been done are expected to have done the same.
LEMMA ExpectsAlike ==
  ASSUME NEW p, NEW q, Expected(p), Due(p) = {}, Due(q) = {}, Gone(q) = Gone(p), Area(q) = Area(p),
         q.phase = "cascading" => Cascade(q), Deletes(q) /\ q.phase = "failed" => q.left = q.ids
  PROVE  Expected(q)
<1>1. PICK area, gone : area = Area(q) /\ gone = Gone(q)
  OBVIOUS
<1>2. \A t \in area : SameBut(t, gone)
  BY <1>1 DEF Expected
<1>3. \A t \in Area(q) \ Due(q) : SameBut(t, Gone(q))
  BY <1>1, <1>2
<1>4. \A t \in Due(q) : Landed(q, t)
  OBVIOUS
<1> QED
  BY <1>3, <1>4 DEF Expected

LEMMA DeleteReadsInv ==
  ASSUME Listing!PageAssumption, PageInv, NEW i \in DOMAIN pending, Listing!Executes(i, "delete")
         \/ Listing!Executes(i, "bulkDelete"),
         NEW s \in pending[i].left, Listing!DeleteReads(i, s)
  PROVE  PageInv'
<1> DEFINE p == pending[i]
           doomed == IF rows[s].merged = None THEN Listing!Children(rows, s) ELSE {}
<1>1. /\ p \in Listing!Request /\ Shape(p) /\ RequestMentions(p) /\ DOMAIN rows \subseteq Ids
      /\ Named = Known \cup {None} /\ Known \subseteq Ids
      /\ slips = {} => Expected(p)
  BY Serving
<1>2. p.kind \in { "delete", "bulkDelete" } /\ p.phase = "sent" /\ s \in DOMAIN rows /\ UNCHANGED << rows, page,
      unused, slips >>
  BY DEF Listing!Executes, Listing!DeleteReads
<1>3. s \in Ids /\ doomed \in SUBSET Ids /\ "cascading" \in Listing!Phases
  BY <1>1, <1>2 DEF Listing!Children, Listing!Phases
<1>4. pending' = [ pending EXCEPT ![i] = [ p EXCEPT !.phase = "cascading", !.id = s, !.doomed = doomed ] ]
  BY DEF Listing!DeleteReads, Listing!Becomes
<1>5. p.left \in SUBSET Ids /\ p.row \in Listing!Row /\ p.id \in Ids \cup {None} /\ p.doomed \in SUBSET Ids
  BY <1>1, RequestFields
<1> HIDE DEF p
<1>6. PICK q : q = [ p EXCEPT !.phase = "cascading", !.id = s, !.doomed = doomed ]
  OBVIOUS
<1>7. Now(q, p, "cascading", s, p.left, doomed, p.row)
  BY <1>1, <1>3, <1>5, <1>6, NowIs
<1>8. Shape(q)
  BY <1>1, <1>2, <1>7 DEF Shape, Now, Deletes, p
<1>9. s \in Named /\ p.row.merged \in Named
  BY <1>1 DEF RequestMentions, Shape, p
<1>10. slips = {} => Expected(q)
  <2> SUFFICES ASSUME slips = {} PROVE Expected(q)
    OBVIOUS
  <2>1. Expected(p)
    BY <1>1
  <2>2. Due(q) = {} /\ Due(p) = {} /\ Gone(q) = Gone(p) /\ Area(q) = Area(p)
    <3>1. q.kind = p.kind /\ q.phase # "ok" /\ p.phase # "ok" /\ q.ids = p.ids /\ q.left = p.left
          /\ q.touches = p.touches
          /\ p.kind # "create"
      BY <1>2, <1>7 DEF Now
    <3>2. Due(q) = {} /\ Due(p) = {}
      BY <1>2, <3>1 DEF Due
    <3>3. Gone(q) = Gone(p)
      BY <3>1 DEF Gone, Deletes
    <3>4. Area(q) = Area(p)
      BY <3>1 DEF Area
    <3> QED
      BY <3>2, <3>3, <3>4
  <2>3. Cascade(q)
    BY <1>2, <1>7 DEF Cascade, Now
  <2> QED
    BY <1>7, <2>1, <2>2, <2>3, ExpectsAlike DEF Now
<1> QED
  BY <1>2, <1>4, <1>6, <1>7, <1>8, <1>9, <1>10, ServedRows DEF p

LEMMA RefusesInv ==
  ASSUME Listing!PageAssumption, PageInv, NEW i \in DOMAIN pending, Listing!Refuses(i)
  PROVE  PageInv'
<1> DEFINE p == pending[i]
<1>1. /\ p \in Listing!Request /\ Shape(p) /\ RequestMentions(p)
      /\ slips = {} => Expected(p)
  BY Serving
<1>2. /\ p.phase = "sent" /\ p.kind # "bulkSync" /\ UNCHANGED << rows, page, unused >>
      /\ slips' = IF p.left # p.ids THEN slips \cup {"halfDone"} ELSE slips
  BY DEF Listing!Refuses
<1>3. pending' = [ pending EXCEPT ![i] = [ p EXCEPT !.phase = "failed" ] ] /\ "failed" \in Listing!Phases
  BY DEF Listing!Refuses, Listing!Becomes, Listing!Phases
<1>4. p.left \in SUBSET Ids /\ p.row \in Listing!Row /\ p.id \in Ids \cup {None} /\ p.doomed \in SUBSET Ids
  BY <1>1, RequestFields
<1> HIDE DEF p
<1>5. PICK q : q = [ p EXCEPT !.phase = "failed" ]
  OBVIOUS
<1>6. Now(q, p, "failed", p.id, p.left, p.doomed, p.row)
  BY <1>1, <1>3, <1>4, <1>5, NowIs
<1>7. Shape(q)
  BY <1>1, <1>2, <1>6 DEF Shape, Now, Deletes
<1>8. p.row.merged \in Named /\ (p.kind # "create" => p.id \in Named)
  BY <1>1 DEF RequestMentions
<1>9. slips' = {} => Expected(q)
  <2> SUFFICES ASSUME slips' = {} PROVE Expected(q)
    OBVIOUS
  <2>1. Expected(p) /\ p.left = p.ids
    BY <1>1, <1>2
  <2>2. Due(q) = {} /\ Due(p) = {} /\ Gone(q) = Gone(p) /\ Area(q) = Area(p)
    <3>1. q.kind = p.kind /\ q.phase # "ok" /\ p.phase # "ok" /\ q.ids = p.ids /\ q.left = p.left
          /\ q.touches = p.touches
          /\ q.id = p.id
      BY <1>2, <1>6 DEF Now
    <3>2. Due(q) = {} /\ Due(p) = {}
      BY <1>2, <3>1 DEF Due
    <3>3. Gone(q) = Gone(p)
      BY <3>1 DEF Gone, Deletes
    <3>4. Area(q) = Area(p)
      BY <3>1 DEF Area
    <3> QED
      BY <3>2, <3>3, <3>4
  <2> QED
    BY <1>6, <2>1, <2>2, ExpectsAlike DEF Now
<1> QED
  BY <1>2, <1>3, <1>5, <1>6, <1>7, <1>8, <1>9, ServedRows DEF p

\* What a deletion makes of the rows, whatever part of the group it takes.
Drop(vanished) ==
    [ t \in DOMAIN rows \ vanished |->
        IF rows[t].merged \in vanished THEN [ rows[t] EXCEPT !.merged = None ] ELSE rows[t] ]

LEMMA DropFacts ==
  ASSUME Listing!PageAssumption, PageInv, NEW vanished \in SUBSET Ids, rows' = Drop(vanished)
  PROVE  /\ rows' \in RowLists /\ Listing!Flat' /\ DOMAIN rows' = DOMAIN rows \ vanished
         /\ \A t \in DOMAIN rows' : /\ rows'[t].merged = IF rows[t].merged \in vanished THEN None ELSE rows[t].merged
                                    /\ rows[t].merged \notin vanished => rows'[t] = rows[t]
         /\ \A t \in DOMAIN rows' : rows'[t].merged \in Named
<1>1. PageTypes /\ Listing!Flat /\ Mentions /\ DOMAIN rows \subseteq Ids
      /\ \A t \in DOMAIN rows : rows[t] \in Listing!Row
  BY RowListTypes DEF PageInv, PageTypes
<1>2. DOMAIN rows' = DOMAIN rows \ vanished
  BY DEF Drop
<1>3. ASSUME NEW t \in DOMAIN rows'
      PROVE  /\ rows'[t] \in Listing!Row /\ rows'[t].merged = IF rows[t].merged \in vanished THEN None ELSE rows[t].merged
             /\ rows[t].merged \notin vanished => rows'[t] = rows[t]
  <2>1. t \in DOMAIN rows /\ rows[t] \in Listing!Row
        /\ rows'[t] = IF rows[t].merged \in vanished THEN [ rows[t] EXCEPT !.merged = None ] ELSE rows[t]
    BY <1>1, <1>2 DEF Drop
  <2>2. [ rows[t] EXCEPT !.merged = None ] \in Listing!Row /\ [ rows[t] EXCEPT !.merged = None ].merged = None
    BY <2>1 DEF Listing!Row
  <2> QED
    BY <2>1, <2>2
<1>4. rows' \in RowLists
  <2>1. rows' \in [ DOMAIN rows \ vanished -> Listing!Row ]
    BY <1>3 DEF Drop
  <2> QED
    BY <1>1, <2>1, IsList
<1>5. Listing!Flat'
  <2> SUFFICES ASSUME NEW t \in DOMAIN rows', rows'[t].merged # None
               PROVE  rows'[t].merged \in DOMAIN rows' /\ rows'[rows'[t].merged].merged = None
    BY DEF Listing!Flat
  <2>1. t \in DOMAIN rows /\ rows'[t].merged = rows[t].merged /\ rows[t].merged \notin vanished
    BY <1>2, <1>3
  <2>2. rows[t].merged \in DOMAIN rows' /\ rows[rows[t].merged].merged = None
    BY <1>1, <1>2, <2>1 DEF Listing!Flat
  <2> QED
    BY <1>3, <2>1, <2>2
<1>6. \A t \in DOMAIN rows' : rows'[t].merged \in Named
  BY <1>1, <1>2, <1>3 DEF Mentions, Named
<1> QED
  BY <1>2, <1>3, <1>4, <1>5, <1>6

\* A deletion that nothing crossed takes one group, or one child, and nothing else.
LEMMA DropsGroup ==
  ASSUME Listing!PageAssumption, PageInv, slips = {}, NEW i \in DOMAIN pending, pending[i].phase = "cascading",
         NEW gone, gone = {pending[i].id} \cup pending[i].doomed
                          \cup UNION { Listing!Children(rows, t) : t \in pending[i].doomed \cap Listing!Roots(rows) }
  PROVE  /\ pending[i].id \in DOMAIN rows
         /\ gone = {pending[i].id} \cup Listing!Children(rows, pending[i].id) /\ gone \subseteq Area(pending[i])
         /\ \A t \in DOMAIN rows \ gone : rows[t].merged \notin gone
<1> DEFINE s == pending[i].id
<1>1. Listing!Flat /\ Cascade(pending[i]) /\ Closed(Area(pending[i]), rows) /\ s \in Area(pending[i])
      /\ None \notin Ids
      /\ DOMAIN rows \subseteq Ids
  BY Serving DEF Expected, Shape, Area
<1>2. s \in DOMAIN rows /\ s # None
  BY <1>1 DEF Cascade
<1>3. pending[i].doomed = Listing!Children(rows, s)
  <2>1. CASE rows[s].merged = None
    BY <1>1, <2>1 DEF Cascade
  <2>2. CASE rows[s].merged # None
    <3>1. Listing!Children(rows, s) = {}
      BY <1>1, <1>2, <2>2 DEF Listing!Flat, Listing!Children
    <3> QED
      BY <1>1, <2>2, <3>1 DEF Cascade
  <2> QED
    BY <2>1, <2>2
<1>4. \A t \in Listing!Children(rows, s) : t \in DOMAIN rows /\ rows[t].merged = s /\ t # None /\ t \in Area(pending[i])
  BY <1>1, <1>2 DEF Listing!Children, Closed
<1>5. \A t \in Listing!Children(rows, s) : Listing!Children(rows, t) = {}
  BY <1>1, <1>2, <1>4 DEF Listing!Flat, Listing!Children
<1>6. gone = {s} \cup Listing!Children(rows, s)
  BY <1>3, <1>5
<1> HIDE DEF s
<1>7. \A t \in DOMAIN rows \ gone : rows[t].merged \notin gone
  <2> SUFFICES ASSUME NEW t \in DOMAIN rows, t \notin gone, rows[t].merged \in gone PROVE FALSE
    OBVIOUS
  <2>1. rows[t].merged # s
    BY <1>6 DEF Listing!Children
  <2>2. rows[t].merged \in Listing!Children(rows, s)
    BY <1>6, <2>1
  <2> QED
    BY <1>5, <2>2 DEF Listing!Children
<1> QED
  BY <1>1, <1>2, <1>4, <1>6, <1>7 DEF s

LEMMA DropsAll ==
  ASSUME Listing!PageAssumption, PageInv, slips = {}, NEW i \in DOMAIN pending, pending[i].phase = "cascading",
         NEW gone, gone = {pending[i].id} \cup pending[i].doomed
                          \cup UNION { Listing!Children(rows, t) : t \in pending[i].doomed \cap Listing!Roots(rows) },
         gone \subseteq Ids, rows' = Drop(gone), page' = page, NEW q,
         q.kind = pending[i].kind, q.ids = pending[i].ids, q.touches = pending[i].touches,
         IF pending[i].left = {pending[i].id} THEN q.phase = "ok"
         ELSE q.phase = "sent" /\ q.left = pending[i].left \ {pending[i].id}
  PROVE  /\ \A t \in Ids \ Area(q) : (t \in DOMAIN rows' <=> t \in DOMAIN rows)
               /\ (t \in DOMAIN rows => rows'[t] = rows[t])
         /\ Closed(Area(q), rows') /\ Expected(q)'
<1> DEFINE p == pending[i]
           s == pending[i].id
<1>1. /\ s \in DOMAIN rows /\ gone = {s} \cup Listing!Children(rows, s) /\ gone \subseteq Area(p)
      /\ \A t \in DOMAIN rows \ gone : rows[t].merged \notin gone
  <2>1. \A went : went = {s} \cup p.doomed
                       \cup UNION { Listing!Children(rows, t) : t \in p.doomed \cap Listing!Roots(rows) } =>
          /\ s \in DOMAIN rows /\ went = {s} \cup Listing!Children(rows, s) /\ went \subseteq Area(p)
          /\ \A t \in DOMAIN rows \ went : rows[t].merged \notin went
    BY DropsGroup
  <2> QED
    BY <2>1
<1>2. /\ Expected(p) /\ Closed(Area(p), rows) /\ Deletes(p) /\ s \in p.left /\ p.left \subseteq p.ids
         /\ Listing!Flat
      /\ DOMAIN rows \subseteq Ids
  BY Serving DEF Shape
<1>3. DOMAIN rows' = DOMAIN rows \ gone /\ \A t \in DOMAIN rows' : rows'[t] = rows[t]
  BY <1>1, DropFacts
<1>4. Area(q) = Area(p) /\ Area(p) = p.touches
  BY <1>2 DEF Area, Deletes
<1>5. Due(p) = {} /\ Due(q) = {}
  BY <1>2 DEF Due, Deletes
<1>6. Gone(p) = p.ids \ p.left /\ Gone(q) = Gone(p) \cup {s}
  <2>1. Gone(p) = p.ids \ p.left
    BY <1>2 DEF Gone
  <2>2. Deletes(q)
    BY <1>2 DEF Deletes
  <2>3. CASE p.left = {s}
    <3>1. Gone(q) = p.ids
      BY <2>2, <2>3 DEF Gone
    <3> QED
      BY <1>2, <2>1, <2>3, <3>1
  <2>4. CASE p.left # {s}
    <3>1. Gone(q) = p.ids \ (p.left \ {s})
      BY <2>2, <2>4 DEF Gone
    <3> QED
      BY <1>2, <2>1, <3>1
  <2> QED
    BY <2>1, <2>3, <2>4
<1> HIDE DEF s, p
<1>7. PICK went : went = Gone(q)
  OBVIOUS
<1>8. ASSUME NEW t \in Area(p) PROVE SameBut(t, went)'
  <2>1. SameBut(t, Gone(p))
    BY <1>2, <1>5 DEF Expected
  <2>2. t \in DOMAIN rows' <=> t \in DOMAIN rows /\ t # s /\ rows[t].merged # s
    BY <1>1, <1>3 DEF Listing!Children
  <2>3. t \in DOMAIN rows => rows[t].merged = page.list[t].merged
    BY <2>1 DEF SameBut, Alike
  <2>4. went = Gone(p) \cup {s}
    BY <1>6, <1>7
  <2>5. t \in DOMAIN rows' <=> (t \in DOMAIN page.list /\ t \notin went /\ page.list[t].merged \notin went)
    BY <2>1, <2>2, <2>3, <2>4 DEF SameBut
  <2>6. t \in DOMAIN rows' => Alike(rows'[t], page.list[t])
    BY <1>3, <2>1 DEF SameBut
  <2> QED
    BY <2>5, <2>6 DEF SameBut, Alike
<1>11. Expected(q)'
  <2>1. q.phase # "cascading" /\ q.phase # "failed"
    OBVIOUS
  <2>2. Due(q)' = {} /\ Gone(q)' = went /\ Area(q)' = Area(p)
    BY <1>4, <1>5, <1>7 DEF Due, Gone, Area, Deletes
  <2>3. \A t \in (Area(q) \ Due(q))' : SameBut(t, Gone(q))'
    BY <1>8, <2>2 DEF SameBut, Alike
  <2> QED
    BY <2>1, <2>2, <2>3 DEF Expected
<1>9. Closed(Area(q), rows')
  BY <1>2, <1>3, <1>4 DEF Closed
<1>10. \A t \in Ids \ Area(q) : (t \in DOMAIN rows' <=> t \in DOMAIN rows) /\ (t \in DOMAIN rows => rows'[t] = rows[t])
  BY <1>1, <1>3, <1>4
<1> QED
  BY <1>9, <1>10, <1>11

LEMMA DeleteRowsInv ==
  ASSUME Listing!PageAssumption, PageInv, NEW i \in DOMAIN pending, Listing!DeleteRows(i)
  PROVE  PageInv'
<1> DEFINE p == pending[i]
           gone == {p.id} \cup p.doomed
                   \cup UNION { Listing!Children(rows, t) : t \in p.doomed \cap Listing!Roots(rows) }
<1>1. /\ p \in Listing!Request /\ Shape(p) /\ RequestMentions(p) /\ rows \in RowLists /\ DOMAIN rows \subseteq Ids
      /\ Named = Known \cup {None} /\ Known \subseteq Ids
      /\ slips = {} => Expected(p)
  BY Serving
<1>2. /\ p.phase = "cascading" /\ page' = page /\ unused' = unused /\ Deletes(p) /\ p.id \in p.left
      /\ p.left \in SUBSET Ids /\ p.row \in Listing!Row /\ p.id \in Ids \cup {None} /\ p.doomed \in SUBSET Ids
  BY <1>1, RequestFields DEF Listing!DeleteRows, Shape
<1>3. \/ /\ gone \subseteq DOMAIN rows /\ rows' = Drop(gone)
         /\ IF p.left = {p.id} THEN Listing!Becomes(i, Listing!Executed(i))
            ELSE Listing!Becomes(i, [ p EXCEPT !.phase = "sent", !.left = @ \ {p.id} ])
         /\ slips' = slips
      \/ \E vanished \in SUBSET (gone \cap DOMAIN rows) :
           /\ rows' = Drop(vanished)
           /\ Listing!Becomes(i, [ p EXCEPT !.phase = "failed" ])
           /\ slips' = IF vanished # {} \/ p.left # p.ids THEN slips \cup {"halfDone"} ELSE slips
  BY DEF Listing!DeleteRows, Drop
<1>4. p.row.merged \in Named /\ p.id \in Named /\ p.kind # "create"
  BY <1>1, <1>2 DEF RequestMentions, Deletes
<1>5. "ok" \in Listing!Phases /\ "sent" \in Listing!Phases /\ "failed" \in Listing!Phases
      /\ p.left \ {p.id} \in SUBSET Ids
  BY <1>2 DEF Listing!Phases
<1>6. gone \subseteq DOMAIN rows => gone \subseteq Ids
  BY <1>1
<1> HIDE DEF p, gone
<1>7. ASSUME gone \subseteq DOMAIN rows, rows' = Drop(gone), slips' = slips,
             IF p.left = {p.id} THEN Listing!Becomes(i, Listing!Executed(i))
             ELSE Listing!Becomes(i, [ p EXCEPT !.phase = "sent", !.left = @ \ {p.id} ])
      PROVE  PageInv'
  <2> DEFINE phase == IF p.left = {p.id} THEN "ok" ELSE "sent"
             left == IF p.left = {p.id} THEN p.left ELSE p.left \ {p.id}
  <2>1. PICK q : q = IF p.left = {p.id} THEN [ p EXCEPT !.phase = "ok" ] ELSE [ p EXCEPT !.phase = "sent",
        !.left = p.left \ {p.id} ]
    OBVIOUS
  <2>2. pending' = [ pending EXCEPT ![i] = q ]
    <3>1. CASE p.left = {p.id}
      BY <1>7, <2>1, <3>1 DEF Listing!Becomes, Listing!Executed, p
    <3>2. CASE p.left # {p.id}
      BY <1>7, <2>1, <3>2 DEF Listing!Becomes
    <3> QED
      BY <3>1, <3>2
  <2>3. Now(q, p, phase, p.id, left, p.doomed, p.row)
    <3>1. CASE p.left = {p.id}
      <4>1. Now(q, p, "ok", p.id, p.left, p.doomed, p.row)
        BY <1>1, <1>2, <1>5, <2>1, <3>1, NowIs
      <4> QED
        BY <3>1, <4>1
    <3>2. CASE p.left # {p.id}
      <4>1. Now(q, p, "sent", p.id, p.left \ {p.id}, p.doomed, p.row)
        BY <1>1, <1>2, <1>5, <2>1, <3>2, NowIs
      <4> QED
        BY <3>2, <4>1
    <3> QED
      BY <3>1, <3>2
  <2>4. Shape(q)
    <3>1. p.kind = "delete" => p.ids = {p.id} /\ p.left = {p.id}
      BY <1>1, <1>2 DEF Shape
    <3>2. CASE p.left = {p.id}
      BY <1>1, <1>2, <2>3, <3>1, <3>2 DEF Shape, Now, Deletes
    <3>3. CASE p.left # {p.id}
      BY <1>1, <1>2, <2>3, <3>1, <3>3 DEF Shape, Now, Deletes
    <3> QED
      BY <3>2, <3>3
  <2>5. rows' \in RowLists /\ Listing!Flat' /\ DOMAIN rows' \subseteq DOMAIN rows
        /\ \A t \in DOMAIN rows' : rows'[t].merged \in Named
    BY <1>6, <1>7, DropFacts
  <2>6. slips' = {} => /\ \A t \in Ids \ Area(q) : /\ t \in DOMAIN rows' <=> t \in DOMAIN rows
                                                   /\ t \in DOMAIN rows => rows'[t] = rows[t]
                       /\ Closed(Area(q), rows') /\ Expected(q)'
    BY <1>2, <1>6, <1>7, <2>3, DropsAll DEF Now, p, gone
  <2> HIDE DEF phase, left
  <2> QED
    BY <1>2, <1>4, <1>7, <2>2, <2>3, <2>4, <2>5, <2>6, ServedInv DEF p
<1>8. ASSUME NEW vanished \in SUBSET (gone \cap DOMAIN rows), rows' = Drop(vanished),
             Listing!Becomes(i, [ p EXCEPT !.phase = "failed" ]),
             slips' = IF vanished # {} \/ p.left # p.ids THEN slips \cup {"halfDone"} ELSE slips
      PROVE  PageInv'
  <2>1. PICK q : q = [ p EXCEPT !.phase = "failed" ]
    OBVIOUS
  <2>2. pending' = [ pending EXCEPT ![i] = q ]
    BY <1>8, <2>1 DEF Listing!Becomes
  <2>3. Now(q, p, "failed", p.id, p.left, p.doomed, p.row)
    BY <1>1, <1>2, <1>5, <2>1, NowIs
  <2>4. Shape(q)
    BY <1>1, <1>2, <2>3 DEF Shape, Now, Deletes
  <2>5. vanished \in SUBSET Ids
    BY <1>1
  <2>6. rows' \in RowLists /\ Listing!Flat' /\ DOMAIN rows' \subseteq DOMAIN rows
        /\ \A t \in DOMAIN rows' : rows'[t].merged \in Named
    BY <1>8, <2>5, DropFacts
  <2>7. CASE vanished = {}
    <3>1. rows' = rows
      <4>1. rows \in [ DOMAIN rows -> Listing!Row ]
        BY <1>1, RowListTypes
      <4> QED
        BY <1>8, <2>7, <4>1 DEF Drop
    <3>2. slips' = {} => Expected(q)
      <4> SUFFICES ASSUME slips' = {} PROVE Expected(q)
        OBVIOUS
      <4>1. Expected(p) /\ p.left = p.ids
        BY <1>1, <1>8
      <4>2. Due(q) = {} /\ Due(p) = {}
        BY <1>2, <2>3 DEF Due, Deletes, Now
      <4>3. Gone(q) = Gone(p)
        BY <1>2, <2>3 DEF Gone, Deletes, Now
      <4>4. Area(q) = Area(p)
        BY <1>4, <2>3 DEF Area, Now
      <4> QED
        BY <2>3, <4>1, <4>2, <4>3, <4>4, ExpectsAlike DEF Now
    <3> QED
      BY <1>2, <1>4, <1>8, <2>2, <2>3, <2>4, <3>1, <3>2, ServedRows DEF p
  <2>8. CASE vanished # {}
    BY <1>2, <1>4, <1>8, <2>2, <2>3, <2>4, <2>6, <2>8, ServedInv DEF p
  <2> QED
    BY <2>7, <2>8
<1> QED
  BY <1>3, <1>7, <1>8

\* A request whose rows are written and that is answered with an error all the same.
LEMMA FailsAfter ==
  ASSUME Listing!PageAssumption, PageInv, NEW i \in DOMAIN pending, pending[i].phase = "sent",
         pending[i].kind # "bulkSync", Listing!Becomes(i, [ pending[i] EXCEPT !.phase = "failed" ]),
         page' = page, unused' = unused, slips' = slips \cup {"halfDone"}, rows' \in RowLists, Listing!Flat',
         DOMAIN rows' \subseteq DOMAIN rows \cup (IF pending[i].kind = "create" THEN {pending[i].id} ELSE {}),
         \A t \in DOMAIN rows' : rows'[t].merged \in Named
  PROVE  PageInv'
<1> DEFINE p == pending[i]
<1>1. p \in Listing!Request /\ Shape(p) /\ RequestMentions(p)
  BY Serving
<1>2. p.kind # "bulkSync" /\ p.phase = "sent" /\ "failed" \in Listing!Phases
  BY DEF Listing!Phases
<1>3. PICK q : q = [ p EXCEPT !.phase = "failed" ]
  OBVIOUS
<1>4. pending' = [ pending EXCEPT ![i] = q ]
  BY <1>3 DEF Listing!Becomes
<1> HIDE DEF p
<1>5. p.left \in SUBSET Ids /\ p.row \in Listing!Row /\ p.id \in Ids \cup {None} /\ p.doomed \in SUBSET Ids
  BY <1>1, RequestFields
<1>6. Now(q, p, "failed", p.id, p.left, p.doomed, p.row)
  BY <1>1, <1>2, <1>3, <1>5, NowIs
<1>7. Shape(q) /\ p.row.merged \in Named /\ (p.kind # "create" => p.id \in Named)
  BY <1>1, <1>2, <1>6 DEF Shape, Now, Deletes, RequestMentions
<1>8. DOMAIN rows' \subseteq DOMAIN rows \cup Newcomers(q)
  BY <1>6 DEF Newcomers, Now, p
<1>9. slips' # {} /\ slips \subseteq slips' /\ p.phase \in { "sent", "cascading" }
  BY <1>2
<1> QED
  BY <1>4, <1>6, <1>7, <1>8, <1>9, ServedInv DEF p

LEMMA ExpectsLanded ==
  ASSUME NEW q, ~ Deletes(q), q.phase # "cascading",
         \A t \in Area(q) \ Due(q) : SameBut(t, {})', \A t \in Due(q) : Landed(q, t)'
  PROVE  Expected(q)'
<1>1. Due(q)' = Due(q) /\ Gone(q)' = {} /\ Area(q)' = Area(q)
  BY DEF Due, Gone, Area, Deletes
<1>2. \A t \in (Area(q) \ Due(q))' : SameBut(t, Gone(q))'
  BY <1>1 DEF SameBut
<1>3. \A t \in Due(q)' : Landed(q, t)'
  BY <1>1
<1> QED
  BY <1>2, <1>3 DEF Expected, Deletes

LEMMA UnmergeInv ==
  ASSUME Listing!PageAssumption, PageInv, NEW i \in DOMAIN pending, Listing!Executes(i, "unmerge"),
         pending[i].id \in DOMAIN rows, rows[pending[i].id].merged # None,
         rows' = [ rows EXCEPT ![pending[i].id].merged = None ],
         Listing!Concludes(i, rows'[pending[i].id]), UNCHANGED << page, unused >>
  PROVE  PageInv'
<1> DEFINE p == pending[i]
<1>0. PICK s : s = p.id
  OBVIOUS
<1>1. /\ p \in Listing!Request /\ Shape(p) /\ RequestMentions(p) /\ rows \in RowLists
         /\ DOMAIN rows \subseteq Ids /\ Listing!Flat
      /\ \A t \in DOMAIN rows : rows[t] \in Listing!Row /\ rows[t].merged \in Named
      /\ Named = Known \cup {None} /\ None \notin Ids
      /\ slips = {} => Expected(p) /\ Closed(Area(p), rows)
  BY Serving
<1>2. p.kind = "unmerge" /\ p.phase = "sent" /\ "ok" \in Listing!Phases
  BY DEF Listing!Executes, Listing!Phases
<1>3. s \in Area(p) /\ s \in Named /\ s # None /\ s \in Ids
  BY <1>0, <1>1, <1>2 DEF Shape, Area, RequestMentions
<1>4. /\ DOMAIN rows' = DOMAIN rows /\ rows'[s] = [ rows[s] EXCEPT !.merged = None ]
      /\ \A t \in DOMAIN rows : t # s => rows'[t] = rows[t]
      /\ s \in DOMAIN rows /\ rows[s].merged # None
  BY <1>0, <1>1
<1>5. rows'[s] \in Listing!Row /\ rows'[s].merged = None /\ Paused(rows'[s]) = Paused(rows[s])
  BY <1>1, <1>4 DEF Listing!Row, Paused
<1>6. rows' \in RowLists
  <2>1. rows' = [ t \in DOMAIN rows |-> IF t = s THEN rows'[s] ELSE rows[t] ]
    BY <1>1, <1>4, RowListTypes
  <2>2. rows' \in [ DOMAIN rows -> Listing!Row ]
    BY <1>1, <1>5, <2>1
  <2> QED
    BY <1>1, <2>2, IsList
<1>7. Listing!Flat' /\ \A t \in DOMAIN rows' : rows'[t].merged \in Named
  <2>1. \A t \in DOMAIN rows : t # s /\ rows[t].merged # None => rows[t].merged # s
    BY <1>1, <1>4 DEF Listing!Flat
  <2> QED
    BY <1>1, <1>4, <1>5, <2>1 DEF Listing!Flat
<1>8. CASE Listing!Becomes(i, [ Listing!Executed(i) EXCEPT !.row = rows'[pending[i].id] ]) /\ slips' = slips
  <2>8. PICK q : q = [ [ p EXCEPT !.phase = "ok" ] EXCEPT !.row = rows'[s] ]
    OBVIOUS
  <2>9. pending' = [ pending EXCEPT ![i] = q ]
    BY <1>8, <1>0, <2>8 DEF Listing!Becomes, Listing!Executed
  <2> HIDE DEF p
  <2>10. p.left \in SUBSET Ids /\ p.row \in Listing!Row /\ p.id \in Ids \cup {None} /\ p.doomed \in SUBSET Ids
    BY <1>1, RequestFields
  <2>11. Now(q, p, "ok", p.id, p.left, p.doomed, rows'[s])
    BY <1>1, <1>2, <1>5, <2>8, <2>10, NowIs
  <2>12. Shape(q)
    BY <1>1, <1>2, <2>11 DEF Shape, Now, Deletes
  <2>13. slips' = {} => /\ \A t \in Ids \ Area(q) : /\ t \in DOMAIN rows' <=> t \in DOMAIN rows
                                                    /\ t \in DOMAIN rows => rows'[t] = rows[t]
                        /\ Closed(Area(q), rows') /\ Expected(q)'
    <3> SUFFICES ASSUME slips = {} PROVE /\ \A t \in Ids \ Area(q) : /\ t \in DOMAIN rows' <=> t \in DOMAIN rows
                                                                     /\ t \in DOMAIN rows => rows'[t] = rows[t]
                                         /\ Closed(Area(q), rows') /\ Expected(q)'
      BY <1>8
    <3>1. Expected(p) /\ Closed(Area(p), rows)
      BY <1>1
    <3>2. Area(q) = Area(p) /\ Due(p) = {} /\ Gone(p) = {} /\ Due(q) = {s}
      BY <1>0, <1>2, <2>11 DEF Area, Due, Gone, Deletes, Now
    <3>3. \A t \in Area(p) : SameBut(t, {})
      BY <3>1, <3>2 DEF Expected
    <3>4. \A t \in Area(q) \ Due(q) : SameBut(t, {})'
      BY <1>4, <3>2, <3>3 DEF SameBut, Alike
    <3>5. Landed(q, s)'
      <4>1. s \in DOMAIN rows /\ s \in DOMAIN page.list
        BY <1>3, <1>4, <3>3 DEF SameBut
      <4> QED
        BY <1>2, <1>4, <2>11, <4>1 DEF Landed, Now
    <3>6. Expected(q)'
      BY <1>2, <2>11, <3>2, <3>4, <3>5, ExpectsLanded DEF Deletes, Now
    <3>7. Closed(Area(q), rows')
      BY <1>4, <1>5, <3>1, <3>2 DEF Closed
    <3> QED
      BY <1>3, <1>4, <3>2, <3>6, <3>7
  <2> QED
    BY <1>8, <1>0, <1>2, <1>3, <1>4, <1>5, <1>6, <1>7, <2>9, <2>11, <2>12, <2>13, ServedInv DEF p
<1>9. CASE Listing!Becomes(i, [ pending[i] EXCEPT !.phase = "failed" ]) /\ slips' = slips \cup {"halfDone"}
  BY <1>2, <1>4, <1>6, <1>7, <1>9, FailsAfter
<1> QED
  BY <1>8, <1>9 DEF Listing!Concludes

LEMMA ToggleInv ==
  ASSUME Listing!PageAssumption, PageInv, NEW i \in DOMAIN pending, Listing!Executes(i, "toggle"),
         pending[i].id \in DOMAIN rows, rows' = [ rows EXCEPT ![pending[i].id].status = pending[i].to ],
         Listing!Concludes(i, pending[i].row), UNCHANGED << page, unused >>
  PROVE  PageInv'
<1> DEFINE p == pending[i]
<1>0. PICK s : s = p.id
  OBVIOUS
<1>1. /\ p \in Listing!Request /\ Shape(p) /\ RequestMentions(p) /\ rows \in RowLists
         /\ DOMAIN rows \subseteq Ids /\ Listing!Flat
      /\ \A t \in DOMAIN rows : rows[t] \in Listing!Row /\ rows[t].merged \in Named
      /\ Named = Known \cup {None} /\ None \notin Ids
      /\ slips = {} => Expected(p) /\ Closed(Area(p), rows)
  BY Serving
<1>2. p.kind = "toggle" /\ p.phase = "sent" /\ "ok" \in Listing!Phases /\ p.to \in { "active", "paused" }
  BY <1>1, RequestFields DEF Listing!Executes, Listing!Phases
<1>3. s \in Area(p) /\ s \in Named
  BY <1>0, <1>1, <1>2 DEF Shape, Area, RequestMentions
<1>4. /\ DOMAIN rows' = DOMAIN rows /\ rows'[s] = [ rows[s] EXCEPT !.status = p.to ]
      /\ \A t \in DOMAIN rows : t # s => rows'[t] = rows[t]
      /\ s \in DOMAIN rows
  BY <1>0, <1>1
<1>5. rows'[s] \in Listing!Row /\ rows'[s].merged = rows[s].merged /\ rows'[s].status = p.to
  BY <1>1, <1>2, <1>4 DEF Listing!Row
<1>6. rows' \in RowLists
  <2>1. rows' = [ t \in DOMAIN rows |-> IF t = s THEN rows'[s] ELSE rows[t] ]
    BY <1>0, <1>1, <1>4, RowListTypes
  <2>2. rows' \in [ DOMAIN rows -> Listing!Row ]
    BY <1>1, <1>5, <2>1
  <2> QED
    BY <1>1, <2>2, IsList
<1>7. Listing!Flat' /\ \A t \in DOMAIN rows' : rows'[t].merged \in Named
  <2>1. \A t \in DOMAIN rows : rows'[t].merged = rows[t].merged
    BY <1>4, <1>5
  <2> QED
    BY <1>1, <1>4, <2>1 DEF Listing!Flat
<1>8. CASE Listing!Becomes(i, [ Listing!Executed(i) EXCEPT !.row = pending[i].row ]) /\ slips' = slips
  <2>8. PICK q : q = [ [ p EXCEPT !.phase = "ok" ] EXCEPT !.row = p.row ]
    OBVIOUS
  <2>9. pending' = [ pending EXCEPT ![i] = q ]
    BY <1>8, <2>8 DEF Listing!Becomes, Listing!Executed
  <2> HIDE DEF p
  <2>10. p.left \in SUBSET Ids /\ p.row \in Listing!Row /\ p.id \in Ids \cup {None} /\ p.doomed \in SUBSET Ids
    BY <1>1, RequestFields
  <2>11. Now(q, p, "ok", p.id, p.left, p.doomed, p.row)
    BY <1>1, <1>2, <2>8, <2>10, NowIs
  <2>12. Shape(q) /\ p.row.merged \in Named
    BY <1>1, <1>2, <2>11 DEF Shape, Now, Deletes, RequestMentions
  <2>13. slips' = {} => /\ \A t \in Ids \ Area(q) : /\ t \in DOMAIN rows' <=> t \in DOMAIN rows
                                                    /\ t \in DOMAIN rows => rows'[t] = rows[t]
                        /\ Closed(Area(q), rows') /\ Expected(q)'
    <3> SUFFICES ASSUME slips = {} PROVE /\ \A t \in Ids \ Area(q) : /\ t \in DOMAIN rows' <=> t \in DOMAIN rows
                                                                     /\ t \in DOMAIN rows => rows'[t] = rows[t]
                                         /\ Closed(Area(q), rows') /\ Expected(q)'
      BY <1>8
    <3>1. Expected(p) /\ Closed(Area(p), rows)
      BY <1>1
    <3>2. Area(q) = Area(p) /\ Due(p) = {} /\ Gone(p) = {} /\ Due(q) = {s}
      BY <1>0, <1>2, <2>11 DEF Area, Due, Gone, Deletes, Now
    <3>3. \A t \in Area(p) : SameBut(t, {})
      BY <3>1, <3>2 DEF Expected
    <3>4. \A t \in Area(q) \ Due(q) : SameBut(t, {})'
      BY <1>4, <3>2, <3>3 DEF SameBut, Alike
    <3>5. Landed(q, s)'
      <4>1. s \in DOMAIN page.list /\ page.list[s].merged = rows[s].merged
        BY <1>3, <1>4, <3>3 DEF SameBut, Alike
      <4> QED
        BY <1>2, <1>4, <1>5, <2>11, <4>1 DEF Landed, Now, Paused
    <3>6. Expected(q)'
      BY <1>2, <2>11, <3>2, <3>4, <3>5, ExpectsLanded DEF Deletes, Now
    <3>7. Closed(Area(q), rows')
      BY <1>4, <1>5, <3>1, <3>2 DEF Closed
    <3> QED
      BY <1>3, <1>4, <3>2, <3>6, <3>7
  <2> QED
    BY <1>8, <1>0, <1>2, <1>3, <1>4, <1>6, <1>7, <2>9, <2>11, <2>12, <2>13, ServedInv DEF p
<1>9. CASE Listing!Becomes(i, [ pending[i] EXCEPT !.phase = "failed" ]) /\ slips' = slips \cup {"halfDone"}
  BY <1>2, <1>4, <1>6, <1>7, <1>9, FailsAfter
<1> QED
  BY <1>8, <1>9 DEF Listing!Concludes

LEMMA EditInv ==
  ASSUME Listing!PageAssumption, PageInv, NEW i \in DOMAIN pending, Listing!Executes(i, "edit"),
         pending[i].id \in DOMAIN rows,
         Listing!Becomes(i, [ Listing!Executed(i) EXCEPT !.row = rows[pending[i].id] ]), UNCHANGED << rows, page,
            unused, slips >>
  PROVE  PageInv'
<1> DEFINE p == pending[i]
<1>0. PICK s : s = p.id
  OBVIOUS
<1>1. /\ p \in Listing!Request /\ Shape(p) /\ RequestMentions(p)
         /\ \A t \in DOMAIN rows : rows[t] \in Listing!Row /\ rows[t].merged \in Named
      /\ slips = {} => Expected(p)
  BY Serving
<1>2. p.kind = "edit" /\ p.phase = "sent" /\ "ok" \in Listing!Phases /\ s \in DOMAIN rows
  BY <1>0 DEF Listing!Executes, Listing!Phases
<1>3. s \in Area(p) /\ s \in Named
  BY <1>0, <1>1, <1>2 DEF Shape, Area, RequestMentions
<1>4. PICK q : q = [ [ p EXCEPT !.phase = "ok" ] EXCEPT !.row = rows[s] ]
  OBVIOUS
<1>5. pending' = [ pending EXCEPT ![i] = q ]
  BY <1>0, <1>4 DEF Listing!Becomes, Listing!Executed
<1> HIDE DEF p
<1>6. p.left \in SUBSET Ids /\ p.id \in Ids \cup {None} /\ p.doomed \in SUBSET Ids
  BY <1>1, RequestFields
<1>7. Now(q, p, "ok", p.id, p.left, p.doomed, rows[s])
  BY <1>1, <1>2, <1>4, <1>6, NowIs
<1>8. Shape(q)
  BY <1>1, <1>2, <1>7 DEF Shape, Now, Deletes
<1>9. slips = {} => Expected(q)
  <2> SUFFICES ASSUME slips = {} PROVE Expected(q)
    OBVIOUS
  <2>1. Expected(p)
    BY <1>1
  <2>2. Area(q) = Area(p) /\ Due(p) = {} /\ Gone(p) = {} /\ Due(q) = {s} /\ Gone(q) = {}
    BY <1>0, <1>2, <1>7 DEF Area, Due, Gone, Deletes, Now
  <2>3. \A t \in Area(p) : SameBut(t, {})
    BY <2>1, <2>2 DEF Expected
  <2>4. Landed(q, s)
    <3>1. s \in DOMAIN page.list
      BY <1>2, <1>3, <2>3 DEF SameBut
    <3> QED
      BY <1>2, <1>7, <3>1 DEF Landed, Now
  <2> QED
    BY <1>2, <1>7, <2>2, <2>3, <2>4 DEF Expected, Deletes, Now
<1> QED
  BY <1>0, <1>1, <1>2, <1>3, <1>5, <1>7, <1>8, <1>9, ServedRows DEF p

LEMMA CreateInv ==
  ASSUME Listing!PageAssumption, PageInv, NEW i \in DOMAIN pending, Listing!ExecuteCreate(i)
  PROVE  PageInv'
<1> DEFINE p == pending[i]
<1>0. PICK s, root, row : s = p.id /\ root = Listing!ResolvedTarget(p.target)
      /\ row = [ merged |-> root, status |-> "active" ]
  OBVIOUS
<1>1. /\ p \in Listing!Request /\ Shape(p) /\ RequestMentions(p) /\ rows \in RowLists
         /\ DOMAIN rows \subseteq Ids /\ Listing!Flat
      /\ \A t \in DOMAIN rows : rows[t] \in Listing!Row /\ rows[t].merged \in Named
      /\ Named = Known \cup {None} /\ None \notin Ids /\ Known \subseteq Ids /\ DOMAIN page.list \subseteq Known
      /\ slips = {} => Expected(p) /\ Closed(Area(p), rows)
  BY Serving
<1>2. /\ p.kind = "create" /\ p.phase = "sent" /\ "ok" \in Listing!Phases /\ p.target \in DOMAIN rows \cup {None}
      /\ rows' = Listing!WithRow(s, row) /\ page' = page /\ unused' = unused /\ Listing!Concludes(i, rows'[s])
  BY <1>0 DEF Listing!ExecuteCreate, Listing!Executes, Listing!Phases
<1>3. s \in Ids /\ s \notin DOMAIN rows /\ s \notin Known /\ s \in Area(p)
  BY <1>0, <1>2 DEF PageInv, Creations, Creating, Known, Area
<1>4. root # None => root \in DOMAIN rows /\ rows[root].merged = None /\ root \in Ids
  BY <1>0, <1>1, <1>2 DEF Listing!ResolvedTarget, Listing!Flat
<1>5. root \in Named
  BY <1>0, <1>1, <1>2 DEF Listing!ResolvedTarget, RequestMentions
<1>6. row \in Listing!Row /\ row.merged = root
  BY <1>0, <1>1, <1>5 DEF Listing!Row
<1>7. /\ DOMAIN rows' = DOMAIN rows \cup {s} /\ rows'[s] = row
      /\ \A t \in DOMAIN rows : t # s /\ rows'[t] = rows[t]
  BY <1>2, <1>3 DEF Listing!WithRow
<1>8. rows' \in RowLists
  <2>1. rows' \in [ DOMAIN rows \cup {s} -> Listing!Row ]
    BY <1>1, <1>2, <1>6 DEF Listing!WithRow
  <2> QED
    BY <1>1, <1>3, <2>1, IsList
<1>9. Listing!Flat' /\ \A t \in DOMAIN rows' : rows'[t].merged \in Named
  BY <1>1, <1>4, <1>5, <1>6, <1>7 DEF Listing!Flat
<1>10. CASE Listing!Becomes(i, [ Listing!Executed(i) EXCEPT !.row = rows'[s] ]) /\ slips' = slips
  <2>10. PICK q : q = [ [ p EXCEPT !.phase = "ok" ] EXCEPT !.row = row ]
    OBVIOUS
  <2>11. pending' = [ pending EXCEPT ![i] = q ]
    BY <1>10, <1>2, <1>7, <2>10 DEF Listing!Becomes, Listing!Executed
  <2> HIDE DEF p
  <2>12. p.left \in SUBSET Ids /\ p.row \in Listing!Row /\ p.id \in Ids \cup {None} /\ p.doomed \in SUBSET Ids
    BY <1>1, RequestFields
  <2>13. Now(q, p, "ok", p.id, p.left, p.doomed, row)
    BY <1>1, <1>2, <1>6, <2>10, <2>12, NowIs
  <2>14. Shape(q) /\ DOMAIN rows' \subseteq DOMAIN rows \cup Newcomers(q)
    BY <1>0, <1>1, <1>2, <1>7, <2>13 DEF Shape, Now, Deletes, Newcomers
  <2>15. slips' = {} => /\ \A t \in Ids \ Area(q) : /\ t \in DOMAIN rows' <=> t \in DOMAIN rows
                                                    /\ t \in DOMAIN rows => rows'[t] = rows[t]
                        /\ Closed(Area(q), rows') /\ Expected(q)'
    <3> SUFFICES ASSUME slips = {} PROVE /\ \A t \in Ids \ Area(q) : /\ t \in DOMAIN rows' <=> t \in DOMAIN rows
                                                                     /\ t \in DOMAIN rows => rows'[t] = rows[t]
                                         /\ Closed(Area(q), rows') /\ Expected(q)'
      BY <1>2, <1>10
    <3>1. Expected(p) /\ Closed(Area(p), rows)
      BY <1>1
    <3>2. Area(q) = Area(p) /\ Due(p) = {} /\ Gone(p) = {} /\ Due(q) = {s}
      BY <1>0, <1>2, <2>13 DEF Area, Due, Gone, Deletes, Now
    <3>3. \A t \in Area(p) : SameBut(t, {})
      BY <3>1, <3>2 DEF Expected
    <3>4. \A t \in Area(q) \ Due(q) : SameBut(t, {})'
      BY <1>2, <1>7, <3>2, <3>3 DEF SameBut, Alike
    <3>5. Landed(q, s)'
      BY <1>1, <1>2, <1>3, <1>7, <2>13 DEF Landed, Now
    <3>6. Expected(q)'
      BY <1>2, <2>13, <3>2, <3>4, <3>5, ExpectsLanded DEF Deletes, Now
    <3>7. root # None => root \in Area(p)
      <4>1. p.target # None => p.target \in Area(p)
        BY <1>1, <1>2 DEF Shape, Area
      <4> QED
        BY <1>0, <1>2, <3>1, <4>1 DEF Listing!ResolvedTarget, Closed
    <3>8. Closed(Area(q), rows')
      BY <1>3, <1>6, <1>7, <3>1, <3>2, <3>7 DEF Closed
    <3> QED
      BY <1>3, <1>7, <3>2, <3>6, <3>8
  <2>16. /\ pending[i].kind = "create" /\ pending[i].phase \in { "sent", "cascading" } /\ page' = page /\ unused' = unused
            /\ slips \subseteq slips'
         /\ row.merged \in Named
    BY <1>2, <1>5, <1>6, <1>10 DEF p
  <2> QED
    BY <1>10, <1>8, <1>9, <2>11, <2>13, <2>14, <2>15, <2>16, ServedInv DEF p
<1>11. CASE Listing!Becomes(i, [ pending[i] EXCEPT !.phase = "failed" ]) /\ slips' = slips \cup {"halfDone"}
  <2>1. DOMAIN rows' \subseteq DOMAIN rows \cup (IF p.kind = "create" THEN {p.id} ELSE {})
    BY <1>0, <1>2, <1>7
  <2> QED
    BY <1>2, <1>8, <1>9, <1>11, <2>1, FailsAfter
<1> QED
  BY <1>2, <1>10, <1>11 DEF Listing!Concludes

LEMMA SyncedFacts ==
  ASSUME Listing!PageAssumption, PageInv, NEW s \in DOMAIN rows, NEW some \in SUBSET Listing!ToSync(s),
         rows' = Listing!Synced(s, some)
  PROVE  /\ rows' \in RowLists /\ Listing!Flat' /\ DOMAIN rows' = DOMAIN rows
         /\ \A t \in DOMAIN rows : /\ rows'[t].merged = rows[t].merged
                                   /\ t # s => (Paused(rows'[t]) <=> Paused(rows[t]))
                                   /\ t # s /\ rows[t].merged # s => rows'[t] = rows[t]
         /\ ~ Paused(rows'[s]) /\ \A t \in DOMAIN rows' : rows'[t].merged \in Named
<1>1. PageTypes /\ Listing!Flat /\ Mentions /\ DOMAIN rows \subseteq Ids
      /\ \A t \in DOMAIN rows : rows[t] \in Listing!Row
  BY RowListTypes DEF PageInv, PageTypes
<1>2. DOMAIN rows' = DOMAIN rows
  BY DEF Listing!Synced
<1>3. ASSUME NEW t \in DOMAIN rows
      PROVE  /\ rows'[t] \in Listing!Row /\ rows'[t].merged = rows[t].merged
             /\ t # s => (Paused(rows'[t]) <=> Paused(rows[t]))
             /\ t # s /\ rows[t].merged # s => rows'[t] = rows[t]
             /\ t = s => ~ Paused(rows'[t])
  <2>1. ASSUME NEW status \in { "syncing", "active" }
        PROVE  /\ [ rows[t] EXCEPT !.status = status ] \in Listing!Row
               /\ [ rows[t] EXCEPT !.status = status ].merged = rows[t].merged
               /\ [ rows[t] EXCEPT !.status = status ].status = status
    BY <1>1 DEF Listing!Row
  <2>2. t \in some => t = s \/ (rows[t].merged = s /\ rows[t].status \in { "active", "error" })
    BY DEF Listing!ToSync, Listing!Children
  <2>3. CASE t \in some
    <3>1. rows'[t] = [ rows[t] EXCEPT !.status = "syncing" ]
      BY <2>3 DEF Listing!Synced
    <3> QED
      BY <1>1, <2>1, <2>2, <2>3, <3>1 DEF Paused
  <2>4. CASE t \notin some /\ t = s
    <3>1. rows'[t] = [ rows[t] EXCEPT !.status = "active" ]
      BY <2>4 DEF Listing!Synced
    <3> QED
      BY <1>1, <2>1, <2>4, <3>1 DEF Paused
  <2>5. CASE t \notin some /\ t # s
    <3>1. rows'[t] = rows[t]
      BY <2>5 DEF Listing!Synced
    <3> QED
      BY <1>1, <2>5, <3>1
  <2> QED
    BY <2>3, <2>4, <2>5
<1>4. rows' \in RowLists
  <2>1. rows' \in [ DOMAIN rows -> Listing!Row ]
    BY <1>3 DEF Listing!Synced
  <2> QED
    BY <1>1, <2>1, IsList
<1>5. Listing!Flat'
  BY <1>1, <1>2, <1>3 DEF Listing!Flat
<1> QED
  BY <1>1, <1>2, <1>3, <1>4, <1>5 DEF Mentions

LEMMA SyncInv ==
  ASSUME Listing!PageAssumption, PageInv, NEW i \in DOMAIN pending, Listing!Executes(i, "sync"),
         pending[i].id \in DOMAIN rows,
         rows' = Listing!Synced(pending[i].id, Listing!ToSync(pending[i].id)),
         Listing!Becomes(i, Listing!Executed(i)), UNCHANGED << page, unused, slips >>
  PROVE  PageInv'
<1> DEFINE p == pending[i]
<1>0. PICK s : s = p.id
  OBVIOUS
<1>1. /\ p \in Listing!Request /\ Shape(p) /\ RequestMentions(p) /\ DOMAIN rows \subseteq Ids /\ None \notin Ids
      /\ slips = {} => Expected(p) /\ Closed(Area(p), rows)
  BY Serving
<1>2. p.kind = "sync" /\ p.phase = "sent" /\ "ok" \in Listing!Phases /\ s \in DOMAIN rows
      /\ rows' = Listing!Synced(s, Listing!ToSync(s)) /\ Listing!ToSync(s) \in SUBSET Listing!ToSync(s)
  BY <1>0 DEF Listing!Executes, Listing!Phases
<1>3. s \in Area(p) /\ s \in Named
  BY <1>0, <1>1, <1>2 DEF Shape, Area, RequestMentions
<1>4. /\ rows' \in RowLists /\ Listing!Flat' /\ DOMAIN rows' = DOMAIN rows
      /\ \A t \in DOMAIN rows : /\ rows'[t].merged = rows[t].merged
                                /\ t # s => (Paused(rows'[t]) <=> Paused(rows[t]))
                                /\ t # s /\ rows[t].merged # s => rows'[t] = rows[t]
      /\ ~ Paused(rows'[s]) /\ \A t \in DOMAIN rows' : rows'[t].merged \in Named
  BY <1>2, SyncedFacts
<1>5. PICK q : q = [ p EXCEPT !.phase = "ok" ]
  OBVIOUS
<1>6. pending' = [ pending EXCEPT ![i] = q ]
  BY <1>5 DEF Listing!Becomes, Listing!Executed
<1> HIDE DEF p
<1>7. p.left \in SUBSET Ids /\ p.row \in Listing!Row /\ p.id \in Ids \cup {None} /\ p.doomed \in SUBSET Ids
  BY <1>1, RequestFields
<1>8. Now(q, p, "ok", p.id, p.left, p.doomed, p.row)
  BY <1>1, <1>2, <1>5, <1>7, NowIs
<1>9. Shape(q) /\ p.row.merged \in Named
  BY <1>1, <1>2, <1>8 DEF Shape, Now, Deletes, RequestMentions
<1>10. slips' = {} => /\ \A t \in Ids \ Area(q) : /\ t \in DOMAIN rows' <=> t \in DOMAIN rows
                                                  /\ t \in DOMAIN rows => rows'[t] = rows[t]
                      /\ Closed(Area(q), rows') /\ Expected(q)'
  <2> SUFFICES ASSUME slips = {} PROVE /\ \A t \in Ids \ Area(q) : /\ t \in DOMAIN rows' <=> t \in DOMAIN rows
                                                                   /\ t \in DOMAIN rows => rows'[t] = rows[t]
                                       /\ Closed(Area(q), rows') /\ Expected(q)'
    OBVIOUS
  <2>1. Expected(p) /\ Closed(Area(p), rows)
    BY <1>1
  <2>2. Area(q) = Area(p) /\ Due(p) = {} /\ Gone(p) = {} /\ Due(q) = {s}
    BY <1>0, <1>2, <1>8 DEF Area, Due, Gone, Deletes, Now
  <2>3. \A t \in Area(p) : SameBut(t, {})
    BY <2>1, <2>2 DEF Expected
  <2>4. \A t \in Area(q) \ Due(q) : SameBut(t, {})'
    BY <1>4, <2>2, <2>3 DEF SameBut, Alike
  <2>5. Landed(q, s)'
    <3>1. s \in DOMAIN page.list /\ page.list[s].merged = rows[s].merged
      BY <1>2, <1>3, <2>3 DEF SameBut, Alike
    <3> QED
      BY <1>2, <1>4, <1>8, <3>1 DEF Landed, Now
  <2>6. Expected(q)'
    BY <1>2, <1>8, <2>2, <2>4, <2>5, ExpectsLanded DEF Deletes, Now
  <2>7. Closed(Area(q), rows')
    BY <1>4, <2>1, <2>2 DEF Closed
  <2>8. \A t \in DOMAIN rows \ Area(q) : rows'[t] = rows[t]
    BY <1>1, <1>2, <1>3, <1>4, <2>1, <2>2 DEF Closed
  <2> QED
    BY <1>4, <2>6, <2>7, <2>8
<1> QED
  BY <1>0, <1>2, <1>3, <1>4, <1>6, <1>8, <1>9, <1>10, ServedInv DEF p

\* One that fails keeps the groups, wherever it got to.
LEMMA SyncFailsFacts ==
  ASSUME Listing!PageAssumption, PageInv, NEW s, Listing!SyncFails(s)
  PROVE  /\ rows' \in RowLists /\ Listing!Flat' /\ DOMAIN rows' = DOMAIN rows
         /\ \A t \in DOMAIN rows' : rows'[t].merged \in Named
         /\ slips' = slips \cup {"halfDone"}
<1>1. CASE rows' = rows
  BY <1>1 DEF Listing!SyncFails, PageInv, PageTypes, Mentions, Listing!Flat
<1>2. CASE s \in DOMAIN rows /\ \E some \in SUBSET Listing!ToSync(s) : rows' = Listing!Synced(s, some)
  BY <1>2, SyncedFacts DEF Listing!SyncFails
<1> QED
  BY <1>1, <1>2 DEF Listing!SyncFails

LEMMA SyncFailsInv ==
  ASSUME Listing!PageAssumption, PageInv, NEW i \in DOMAIN pending, Listing!Executes(i, "sync"),
         Listing!SyncFails(pending[i].id), Listing!Becomes(i, [ pending[i] EXCEPT !.phase = "failed" ]),
         UNCHANGED << page, unused >>
  PROVE  PageInv'
<1>1. /\ rows' \in RowLists /\ Listing!Flat' /\ DOMAIN rows' = DOMAIN rows
      /\ \A t \in DOMAIN rows' : rows'[t].merged \in Named
      /\ slips' = slips \cup {"halfDone"}
  BY SyncFailsFacts
<1>2. pending[i].phase = "sent" /\ pending[i].kind = "sync"
  BY DEF Listing!Executes
<1> QED
  BY <1>1, <1>2, FailsAfter

LEMMA BulkSyncInv ==
  ASSUME Listing!PageAssumption, PageInv, NEW i \in DOMAIN pending, Listing!Executes(i, "bulkSync"),
         NEW s \in pending[i].left,
         (s \in DOMAIN rows /\ rows' = Listing!Synced(s, Listing!ToSync(s)) /\ UNCHANGED slips)
            \/ Listing!SyncFails(s),
         Listing!Becomes(i, [ pending[i] EXCEPT !.left = @ \ {s},
            !.phase = IF pending[i].left = {s} THEN "ok" ELSE "sent" ]),
         UNCHANGED << page, unused >>
  PROVE  PageInv'
<1> DEFINE p == pending[i]
<1>0. PICK phase, left : phase = (IF p.left = {s} THEN "ok" ELSE "sent") /\ left = p.left \ {s}
  OBVIOUS
<1>1. /\ p \in Listing!Request /\ Shape(p) /\ RequestMentions(p) /\ DOMAIN rows \subseteq Ids /\ None \notin Ids
      /\ slips = {} => Expected(p) /\ Closed(Area(p), rows)
  BY Serving
<1>2. /\ p.kind = "bulkSync" /\ p.phase = "sent" /\ phase \in Listing!Phases /\ s \in p.left /\ p.left \subseteq p.ids
      /\ s \in p.ids /\ p.ids \subseteq Area(p) /\ page' = page /\ unused' = unused
      /\ \/ s \in DOMAIN rows /\ rows' = Listing!Synced(s, Listing!ToSync(s)) /\ slips' = slips
         \/ Listing!SyncFails(s)
  BY <1>0, <1>1 DEF Listing!Executes, Listing!Phases, Shape, Area
<1>3. PICK q : q = [ p EXCEPT !.left = left, !.phase = phase ]
  OBVIOUS
<1>4. pending' = [ pending EXCEPT ![i] = q ]
  BY <1>0, <1>3 DEF Listing!Becomes
<1> HIDE DEF p
<1>5. left \in SUBSET Ids /\ p.row \in Listing!Row /\ p.id \in Ids \cup {None} /\ p.doomed \in SUBSET Ids
  BY <1>0, <1>1, RequestFields
<1>6. Now(q, p, phase, p.id, left, p.doomed, p.row)
  BY <1>1, <1>2, <1>3, <1>5, NowIs
<1>7. Shape(q) /\ p.row.merged \in Named /\ p.id \in Named
  BY <1>0, <1>1, <1>2, <1>6 DEF Shape, Now, Deletes, RequestMentions
<1>8. CASE s \in DOMAIN rows /\ rows' = Listing!Synced(s, Listing!ToSync(s)) /\ slips' = slips
  <2>1. /\ rows' \in RowLists /\ Listing!Flat' /\ DOMAIN rows' = DOMAIN rows
        /\ \A t \in DOMAIN rows : /\ rows'[t].merged = rows[t].merged
                                  /\ t # s => (Paused(rows'[t]) <=> Paused(rows[t]))
                                  /\ t # s /\ rows[t].merged # s => rows'[t] = rows[t]
        /\ ~ Paused(rows'[s]) /\ \A t \in DOMAIN rows' : rows'[t].merged \in Named
    BY <1>8, SyncedFacts
  <2>2. slips' = {} => /\ \A t \in Ids \ Area(q) : /\ t \in DOMAIN rows' <=> t \in DOMAIN rows
                                                   /\ t \in DOMAIN rows => rows'[t] = rows[t]
                       /\ Closed(Area(q), rows') /\ Expected(q)'
    <3> SUFFICES ASSUME slips = {} PROVE /\ \A t \in Ids \ Area(q) : /\ t \in DOMAIN rows' <=> t \in DOMAIN rows
                                                                     /\ t \in DOMAIN rows => rows'[t] = rows[t]
                                         /\ Closed(Area(q), rows') /\ Expected(q)'
      BY <1>8
    <3>1. Expected(p) /\ Closed(Area(p), rows)
      BY <1>1
    <3>2. Area(q) = Area(p) /\ Gone(p) = {} /\ Due(p) = p.ids \ p.left /\ Due(q) = Due(p) \cup {s}
      <4>1. Area(q) = Area(p)
        BY <1>2, <1>6 DEF Area, Now
      <4>2. Gone(p) = {}
        BY <1>2 DEF Gone, Deletes
      <4>3. Due(p) = p.ids \ p.left
        BY <1>2 DEF Due
      <4>4. Due(q) = p.ids \ left
        BY <1>2, <1>6 DEF Due, Now
      <4> QED
        BY <1>0, <1>2, <4>1, <4>2, <4>3, <4>4
    <3>3. \A t \in Area(p) \ Due(p) : SameBut(t, {})
      BY <3>1, <3>2 DEF Expected
    <3>4. \A t \in Area(q) \ Due(q) : SameBut(t, {})'
      BY <1>2, <2>1, <3>2, <3>3 DEF SameBut, Alike
    <3>5. Landed(q, s)'
      <4>1. SameBut(s, {})
        BY <1>2, <3>2, <3>3
      <4>2. s \in DOMAIN page.list /\ page.list[s].merged = rows[s].merged
        BY <1>8, <4>1 DEF SameBut, Alike
      <4> QED
        BY <1>2, <1>6, <1>8, <2>1, <4>2 DEF Landed, Now
    <3>6. ASSUME NEW t \in Due(p) PROVE Landed(q, t)'
      <4>1. Landed(p, t) /\ t # s
        BY <1>2, <3>1, <3>2 DEF Expected
      <4>2. /\ t \in DOMAIN rows /\ t \in DOMAIN page.list /\ rows[t].merged = page.list[t].merged /\ ~ Paused(rows[t])
        BY <1>2, <4>1 DEF Landed
      <4> QED
        BY <1>2, <1>6, <2>1, <4>1, <4>2 DEF Landed, Now
    <3>7. Expected(q)'
      <4>1. \A t \in Due(q) : Landed(q, t)'
        BY <3>2, <3>5, <3>6
      <4> QED
        BY <1>0, <1>2, <1>6, <3>4, <4>1, ExpectsLanded DEF Deletes, Now
    <3>8. Closed(Area(q), rows')
      BY <2>1, <3>1, <3>2 DEF Closed
    <3>9. \A t \in DOMAIN rows \ Area(q) : rows'[t] = rows[t]
      BY <1>1, <1>2, <1>8, <2>1, <3>1, <3>2 DEF Closed
    <3> QED
      BY <2>1, <3>7, <3>8, <3>9
  <2>3. p.kind # "create" /\ p.phase \in { "sent", "cascading" } /\ slips \subseteq slips'
    BY <1>2, <1>8
  <2> QED
    BY <1>2, <1>4, <1>6, <1>7, <2>1, <2>2, <2>3, ServedInv DEF p
<1>9. CASE Listing!SyncFails(s)
  <2>1. /\ rows' \in RowLists /\ Listing!Flat' /\ DOMAIN rows' = DOMAIN rows
        /\ \A t \in DOMAIN rows' : rows'[t].merged \in Named
        /\ slips' = slips \cup {"halfDone"}
    BY <1>9, SyncFailsFacts
  <2>2. p.kind # "create" /\ p.phase \in { "sent", "cascading" } /\ slips \subseteq slips' /\ slips' # {}
    BY <1>2, <2>1
  <2> QED
    BY <1>2, <1>4, <1>6, <1>7, <2>1, <2>2, ServedInv DEF p
<1> QED
  BY <1>2, <1>8, <1>9

LEMMA ServerInv ==
  ASSUME Listing!PageAssumption, PageInv, NEW i \in DOMAIN pending,
         Listing!DeleteRows(i) \/ Listing!Refuses(i) \/ Listing!Execute(i) \/ Listing!ExecuteCreate(i)
            \/ Listing!ExecuteSync(i)
  PROVE  PageInv'
<1>1. CASE Listing!DeleteRows(i)
  BY <1>1, DeleteRowsInv
<1>2. CASE Listing!Refuses(i)
  BY <1>2, RefusesInv
<1>3. CASE Listing!ExecuteCreate(i)
  BY <1>3, CreateInv
<1>4. CASE Listing!Execute(i)
  <2>1. CASE (Listing!Executes(i, "delete") \/ Listing!Executes(i, "bulkDelete"))
        /\ \E s \in pending[i].left : Listing!DeleteReads(i, s)
    BY <2>1, DeleteReadsInv
  <2>2. CASE /\ Listing!Executes(i, "unmerge")
             /\ pending[i].id \in DOMAIN rows /\ rows[pending[i].id].merged # None
             /\ rows' = [ rows EXCEPT ![pending[i].id].merged = None ]
             /\ Listing!Concludes(i, rows'[pending[i].id])
             /\ UNCHANGED << page, unused, sent >>
    BY <2>2, UnmergeInv
  <2>3. CASE /\ Listing!Executes(i, "toggle") /\ pending[i].id \in DOMAIN rows
             /\ rows' = [ rows EXCEPT ![pending[i].id].status = pending[i].to ]
             /\ Listing!Concludes(i, pending[i].row)
             /\ UNCHANGED << page, unused, sent >>
    BY <2>3, ToggleInv
  <2>4. CASE /\ Listing!Executes(i, "edit") /\ pending[i].id \in DOMAIN rows
             /\ Listing!Becomes(i, [ Listing!Executed(i) EXCEPT !.row = rows[pending[i].id] ])
             /\ UNCHANGED << rows, page, unused, sent, slips >>
    BY <2>4, EditInv
  <2> QED
    BY <1>4, <2>1, <2>2, <2>3, <2>4 DEF Listing!Execute
<1>5. CASE Listing!ExecuteSync(i)
  <2>1. CASE /\ Listing!Executes(i, "sync") /\ pending[i].id \in DOMAIN rows
             /\ rows' = Listing!Synced(pending[i].id, Listing!ToSync(pending[i].id))
             /\ Listing!Becomes(i, Listing!Executed(i))
             /\ UNCHANGED << page, unused, sent, slips >>
    BY <2>1, SyncInv
  <2>3. CASE /\ Listing!Executes(i, "sync")
             /\ Listing!SyncFails(pending[i].id) /\ Listing!Becomes(i, [ pending[i] EXCEPT !.phase = "failed" ])
             /\ UNCHANGED << page, unused, sent >>
    BY <2>3, SyncFailsInv
  <2>2. ASSUME Listing!Executes(i, "bulkSync"), NEW s \in pending[i].left,
               (s \in DOMAIN rows /\ rows' = Listing!Synced(s, Listing!ToSync(s)) /\ UNCHANGED slips)
                  \/ Listing!SyncFails(s),
               Listing!Becomes(i, [ pending[i] EXCEPT !.left = @ \ {s},
                  !.phase = IF pending[i].left = {s} THEN "ok" ELSE "sent" ]),
               UNCHANGED << page, unused, sent >>
        PROVE  PageInv'
    BY <2>2, BulkSyncInv
  <2> QED
    BY <1>5, <2>1, <2>2, <2>3 DEF Listing!ExecuteSync
<1> QED
  BY <1>1, <1>2, <1>3, <1>4, <1>5

-----------------------------------------------------------------------------
(* What the page makes of the answers.                                     *)

LEMMA AnsweredInv ==
  ASSUME Listing!PageAssumption, PageInv, NEW i \in DOMAIN pending, Answered(i), page' \in PageStates,
         slips \subseteq slips',
         DOMAIN page'.list \subseteq Known', \A s \in DOMAIN page'.list : page'.list[s].merged \in Named',
         page'.selected \subseteq Known, page'.toDelete \in Named,
         slips' = {} => /\ \A s \in Ids \ Area(pending[i]) :
                             /\ s \in DOMAIN page'.list <=> s \in DOMAIN page.list
                             /\ s \in DOMAIN page.list => page'.list[s] = page.list[s]
                        /\ \A s \in Area(pending[i]) : SameBut(s, {})'
  PROVE  PageInv'
<1>1. Known \subseteq Known' /\ Named \subseteq Named'
  BY AnsweredNames DEF PageInv
<1>2. PageTypes' /\ Listing!Flat' /\ Mentions' /\ Creations' /\ Shapes'
  BY <1>1, AnsweredTypes
<1>3. ASSUME slips' = {} PROVE Mirrors'
  <2>1. slips = {}
    BY <1>3
  <2> QED
    BY <1>3, <2>1, AnsweredMirrors
<1> QED
  BY <1>2, <1>3 DEF PageInv

LEMMA WithoutFacts ==
  ASSUME Listing!PageAssumption, PageInv, NEW gone, NEW listing, listing = Listing!Without(gone)
  PROVE  /\ listing \in RowLists /\ DOMAIN listing \subseteq Known
         /\ DOMAIN listing = { s \in DOMAIN page.list : s \notin gone /\ page.list[s].merged \notin gone }
         /\ \A s \in DOMAIN listing : listing[s] = page.list[s] /\ listing[s].merged \in Named
<1>1. DOMAIN page.list \subseteq Known /\ Known \subseteq Ids /\ DOMAIN page.list \subseteq Ids
      /\ \A s \in DOMAIN page.list : page.list[s] \in Listing!Row /\ page.list[s].merged \in Named
  <2>1. PageTypes /\ Mentions
    BY DEF PageInv
  <2>2. page.list \in RowLists
    BY <2>1, PageFields DEF PageTypes
  <2> QED
    BY <2>1, <2>2, RowListTypes DEF Mentions, Known
<1>2. DOMAIN listing = { s \in DOMAIN page.list : s \notin gone /\ page.list[s].merged \notin gone }
      /\ \A s \in DOMAIN listing : listing[s] = page.list[s]
  BY DEF Listing!Without, Listing!Restrict
<1>3. listing \in RowLists
  <2>1. listing \in [ DOMAIN listing -> Listing!Row ]
    BY <1>1, <1>2 DEF Listing!Without, Listing!Restrict
  <2> QED
    BY <1>1, <1>2, <2>1, IsList
<1> QED
  BY <1>1, <1>2, <1>3

\* A deletion that was answered as it was asked for leaves the list as the rows are.
LEMMA DeletedArea ==
  ASSUME Listing!PageAssumption, PageInv, slips = {}, NEW i \in DOMAIN pending, Deletes(pending[i]),
         pending[i].phase = "ok",
         page'.list = Listing!Without(pending[i].ids), rows' = rows
  PROVE  /\ \A s \in Ids \ Area(pending[i]) : /\ s \in DOMAIN page'.list <=> s \in DOMAIN page.list
                                              /\ s \in DOMAIN page.list => page'.list[s] = page.list[s]
         /\ \A s \in Area(pending[i]) : SameBut(s, {})'
<1> DEFINE p == pending[i]
<1>1. Expected(p) /\ Closed(Area(p), page.list) /\ Shape(p) /\ p \in Listing!Request /\ None \notin Ids
  BY Serving
<1>2. p.ids \subseteq Area(p) /\ p.ids \subseteq Ids /\ Gone(p) = p.ids /\ Due(p) = {}
  <2>1. p.ids \subseteq Area(p) /\ p.ids \subseteq Ids
    BY <1>1, RequestFields DEF Shape, Area
  <2>2. Gone(p) = p.ids
    BY DEF Gone
  <2>3. Due(p) = {}
    BY DEF Due, Deletes
  <2> QED
    BY <2>1, <2>2, <2>3
<1>3. /\ DOMAIN page'.list = { s \in DOMAIN page.list : s \notin p.ids /\ page.list[s].merged \notin p.ids }
      /\ \A s \in DOMAIN page'.list : page'.list[s] = page.list[s]
  <2>1. PICK gone, listing : gone = p.ids /\ listing = Listing!Without(gone)
    OBVIOUS
  <2>2. page'.list = listing
    BY <2>1
  <2>3. /\ DOMAIN listing = { s \in DOMAIN page.list : s \notin gone /\ page.list[s].merged \notin gone }
        /\ \A s \in DOMAIN listing : listing[s] = page.list[s]
    BY <2>1 DEF Listing!Without, Listing!Restrict
  <2> HIDE DEF p
  <2> QED
    BY <2>1, <2>2, <2>3
<1> HIDE DEF p
<1>4. ASSUME NEW s \in Ids, s \notin Area(p), s \in DOMAIN page.list PROVE s \in DOMAIN page'.list
  <2>1. s \notin p.ids
    BY <1>2, <1>4
  <2>2. page.list[s].merged # None => page.list[s].merged \notin Area(p)
    BY <1>1, <1>4 DEF Closed
  <2>3. page.list[s].merged \notin p.ids
    BY <1>1, <1>2, <2>2
  <2> QED
    BY <1>3, <1>4, <2>1, <2>3
<1>5. ASSUME NEW s \in Area(p) PROVE SameBut(s, {})'
  <2>1. SameBut(s, p.ids)
    BY <1>1, <1>2 DEF Expected
  <2> QED
    BY <1>3, <2>1 DEF SameBut, Alike
<1> QED
  BY <1>3, <1>4, <1>5 DEF p

LEMMA DeletedInv ==
  ASSUME Listing!PageAssumption, PageInv, NEW i \in DOMAIN pending, Listing!Deleted(i)
  PROVE  PageInv'
<1> DEFINE p == pending[i]
<1>0. PICK listing : listing = Listing!Without({page.toDelete} \ {None})
  OBVIOUS
<1>1. /\ p.kind = "delete" /\ p.phase = "ok" /\ Answered(i)
      /\ page' = [ page EXCEPT !.list = listing, !.toDelete = None, !.deleting = FALSE ]
      /\ slips' = IF page.toDelete # p.id THEN slips \cup {"retargeted"} ELSE slips
  BY <1>0 DEF Listing!Deleted, Answered
<1>2. /\ listing \in RowLists /\ DOMAIN listing \subseteq Known /\ \A s \in DOMAIN listing : listing[s].merged \in Named
  BY <1>0, WithoutFacts
<1>3. page \in PageStates /\ page.selected \subseteq Known /\ None \in Named
  BY ListedNames DEF Named
<1>4. page' \in PageStates /\ page'.list = listing /\ page'.selected = page.selected /\ page'.toDelete = None
  BY <1>1, <1>2, <1>3, Zenon DEF PageStates
<1>5. Known \subseteq Known' /\ Named \subseteq Named'
  BY <1>1, AnsweredNames DEF PageInv
<1>6. ASSUME slips' = {}
      PROVE  /\ \A s \in Ids \ Area(pending[i]) : /\ s \in DOMAIN page'.list <=> s \in DOMAIN page.list
                                                  /\ s \in DOMAIN page.list => page'.list[s] = page.list[s]
             /\ \A s \in Area(pending[i]) : SameBut(s, {})'
  <2>1. slips = {} /\ page.toDelete = p.id
    BY <1>1, <1>6
  <2>2. p.ids = {p.id} /\ p.ids \subseteq Ids /\ None \notin Ids
    BY <1>1, Serving, RequestFields DEF Shape
  <2>3. {page.toDelete} \ {None} = p.ids
    BY <2>1, <2>2
  <2>4. page'.list = Listing!Without(pending[i].ids) /\ Deletes(pending[i]) /\ rows' = rows
    BY <1>0, <1>1, <1>4, <2>3 DEF Deletes, Answered
  <2> QED
    BY <1>1, <2>1, <2>4, DeletedArea
<1>7. slips \subseteq slips'
  BY <1>1
<1> HIDE DEF p
<1> QED
  BY <1>1, <1>2, <1>3, <1>4, <1>5, <1>6, <1>7, AnsweredInv

LEMMA BulkDeletedInv ==
  ASSUME Listing!PageAssumption, PageInv, NEW i \in DOMAIN pending, Listing!BulkDeleted(i)
  PROVE  PageInv'
<1> DEFINE p == pending[i]
<1>0. PICK listing : listing = Listing!Without(page.selected)
  OBVIOUS
<1>1. /\ p.kind = "bulkDelete" /\ p.phase = "ok" /\ Answered(i)
      /\ page' = [ page EXCEPT !.list = listing, !.selected = {}, !.deleting = FALSE ]
      /\ slips' = IF page.selected # p.ids THEN slips \cup {"reselected"} ELSE slips
  BY <1>0 DEF Listing!BulkDeleted, Answered
<1>2. /\ listing \in RowLists /\ DOMAIN listing \subseteq Known /\ \A s \in DOMAIN listing : listing[s].merged \in Named
  BY <1>0, WithoutFacts
<1>3. page \in PageStates /\ page.toDelete \in Named
  BY ListedNames
<1>4. page' \in PageStates /\ page'.list = listing /\ page'.selected = {} /\ page'.toDelete = page.toDelete
  <2>1. {} \in SUBSET Ids
    OBVIOUS
  <2> QED
    BY <1>1, <1>2, <1>3, <2>1, Zenon DEF PageStates
<1>5. Known \subseteq Known' /\ Named \subseteq Named'
  BY <1>1, AnsweredNames DEF PageInv
<1>6. ASSUME slips' = {}
      PROVE  /\ \A s \in Ids \ Area(pending[i]) : /\ s \in DOMAIN page'.list <=> s \in DOMAIN page.list
                                                  /\ s \in DOMAIN page.list => page'.list[s] = page.list[s]
             /\ \A s \in Area(pending[i]) : SameBut(s, {})'
  <2>1. slips = {} /\ page.selected = p.ids
    BY <1>1, <1>6
  <2>2. page'.list = Listing!Without(pending[i].ids) /\ Deletes(pending[i]) /\ rows' = rows
    BY <1>0, <1>1, <1>4, <2>1 DEF Deletes, Answered
  <2> QED
    BY <1>1, <2>1, <2>2, DeletedArea
<1>7. slips \subseteq slips'
  BY <1>1
<1> HIDE DEF p
<1> QED
  BY <1>1, <1>2, <1>3, <1>4, <1>5, <1>6, <1>7, AnsweredInv

LEMMA BulkSyncedInv ==
  ASSUME Listing!PageAssumption, PageInv, NEW i \in DOMAIN pending, Listing!BulkSynced(i)
  PROVE  PageInv'
<1> DEFINE p == pending[i]
           Syncs(s) == s \in page.selected
                       \/ (page.list[s].merged \in page.selected /\ s \notin FileBased
                          /\ page.list[s].status \in { "active", "error" })
<1>0. PICK listing : listing = [ s \in DOMAIN page.list |-> IF Syncs(s) THEN [ page.list[s] EXCEPT !.status = "syncing" ] ELSE page.list[s] ]
  OBVIOUS
<1>1. /\ p.kind = "bulkSync" /\ p.phase = "ok" /\ Answered(i)
      /\ page' = [ page EXCEPT !.selected = {}, !.list = listing ]
      /\ slips' = IF page.selected # p.ids THEN slips \cup {"reselected"} ELSE slips
  BY <1>0 DEF Listing!BulkSynced, Answered
<1>2. /\ DOMAIN page.list \subseteq Known /\ DOMAIN page.list \subseteq Ids /\ Shape(p) /\ p \in Listing!Request
         /\ None \notin Ids
      /\ \A s \in DOMAIN page.list : page.list[s] \in Listing!Row /\ page.list[s].merged \in Named
      /\ slips = {} => Expected(p) /\ Closed(Area(p), page.list)
  BY Serving
<1>3. DOMAIN listing = DOMAIN page.list
  BY <1>0
<1>4. ASSUME NEW s \in DOMAIN page.list
      PROVE  /\ listing[s] \in Listing!Row /\ listing[s].merged = page.list[s].merged
             /\ s \in page.selected => ~ Paused(listing[s])
             /\ s \notin page.selected => (Paused(listing[s]) <=> Paused(page.list[s]))
             /\ s \notin page.selected /\ page.list[s].merged \notin page.selected => listing[s] = page.list[s]
  <2>1. /\ [ page.list[s] EXCEPT !.status = "syncing" ] \in Listing!Row
        /\ [ page.list[s] EXCEPT !.status = "syncing" ].merged = page.list[s].merged
        /\ [ page.list[s] EXCEPT !.status = "syncing" ].status = "syncing"
    BY <1>2 DEF Listing!Row
  <2>2. listing[s] = IF Syncs(s) THEN [ page.list[s] EXCEPT !.status = "syncing" ] ELSE page.list[s]
    BY <1>0
  <2> QED
    BY <1>2, <2>1, <2>2 DEF Paused
<1>5. listing \in RowLists
  <2>1. listing \in [ DOMAIN page.list -> Listing!Row ]
    BY <1>0, <1>4
  <2> QED
    BY <1>2, <2>1, IsList
<1>6. page \in PageStates /\ page.toDelete \in Named
  BY ListedNames
<1>7. page' \in PageStates /\ page'.list = listing /\ page'.selected = {} /\ page'.toDelete = page.toDelete
  <2>1. {} \in SUBSET Ids
    OBVIOUS
  <2> HIDE DEF Syncs
  <2> QED
    BY <1>1, <1>5, <1>6, <2>1, Zenon DEF PageStates
<1>8. Known \subseteq Known' /\ Named \subseteq Named'
  BY <1>1, AnsweredNames DEF PageInv
<1> HIDE DEF Syncs
<1>9. ASSUME slips' = {}
      PROVE  /\ \A s \in Ids \ Area(pending[i]) : /\ s \in DOMAIN page'.list <=> s \in DOMAIN page.list
                                                  /\ s \in DOMAIN page.list => page'.list[s] = page.list[s]
             /\ \A s \in Area(pending[i]) : SameBut(s, {})'
  <2>1. slips = {} /\ page.selected = p.ids /\ rows' = rows
    BY <1>1, <1>9 DEF Answered
  <2>2. p.ids \subseteq Area(p) /\ p.ids \subseteq Ids /\ Due(p) = p.ids /\ Gone(p) = {} /\ Expected(p)
    <3>1. p.ids \subseteq Area(p) /\ p.ids \subseteq Ids
      BY <1>2, RequestFields DEF Shape, Area
    <3>2. Due(p) = p.ids
      BY <1>1, <1>2 DEF Shape, Due
    <3>3. Gone(p) = {}
      BY <1>1 DEF Gone, Deletes
    <3> QED
      BY <1>2, <2>1, <3>1, <3>2, <3>3
  <2> HIDE DEF p
  <2>3. ASSUME NEW s \in Ids, s \notin Area(p), s \in DOMAIN page.list PROVE listing[s] = page.list[s]
    <3>1. page.list[s].merged \notin p.ids
      BY <1>2, <2>1, <2>2, <2>3 DEF Closed
    <3> QED
      BY <1>4, <2>1, <2>2, <2>3, <3>1
  <2>4. ASSUME NEW s \in Area(p) PROVE SameBut(s, {})'
    <3>1. CASE s \in p.ids
      <4>1. Landed(p, s)
        BY <2>2, <3>1 DEF Expected
      <4>2. s \in DOMAIN rows /\ s \in DOMAIN page.list /\ rows[s].merged = page.list[s].merged /\ ~ Paused(rows[s])
        BY <1>1, <4>1 DEF Landed, p
      <4>3. ~ Paused(listing[s]) /\ listing[s].merged = rows[s].merged
        BY <1>4, <2>1, <3>1, <4>2
      <4> QED
        BY <1>3, <1>7, <2>1, <4>2, <4>3 DEF SameBut, Alike
    <3>2. CASE s \notin p.ids
      <4>1. SameBut(s, {})
        BY <2>2, <3>2 DEF Expected
      <4>2. s \in DOMAIN page.list => listing[s].merged = page.list[s].merged
            /\ (Paused(listing[s]) <=> Paused(page.list[s]))
        BY <1>4, <2>1, <3>2
      <4> QED
        BY <1>3, <1>7, <2>1, <4>1, <4>2 DEF SameBut, Alike
    <3> QED
      BY <3>1, <3>2
  <2> QED
    BY <1>3, <1>7, <2>3, <2>4 DEF p
<1>10. slips \subseteq slips'
  BY <1>1
<1>11. DOMAIN page'.list \subseteq Known' /\ \A s \in DOMAIN page'.list : page'.list[s].merged \in Named'
  BY <1>2, <1>3, <1>4, <1>7, <1>8
<1> HIDE DEF p
<1> QED
  BY <1>1, <1>6, <1>7, <1>9, <1>10, <1>11, AnsweredInv

\* An answer that sets one row of the list, or none.
LEMMA LandsInv ==
  ASSUME Listing!PageAssumption, PageInv, NEW i \in DOMAIN pending, ~ Deletes(pending[i]), pending[i].kind # "bulkSync",
         NEW listing \in RowLists, Listing!Lands(i, listing), NEW s, s = pending[i].id,
         DOMAIN listing \subseteq Known', \A t \in DOMAIN listing : listing[t].merged \in Named',
         \A t \in Ids : t # s => (t \in DOMAIN listing <=> t \in DOMAIN page.list)
            /\ (t \in DOMAIN page.list => listing[t] = page.list[t]),
         slips = {} => s \in DOMAIN listing /\ Alike(rows[s], listing[s])
  PROVE  PageInv'
<1> DEFINE p == pending[i]
<1>1. /\ p.phase = "ok" /\ Answered(i) /\ page' = [ page EXCEPT !.list = listing ] /\ slips' = slips
  BY DEF Listing!Lands, Answered
<1>2. /\ page \in PageStates /\ page.toDelete \in Named /\ page.selected \subseteq Known
  BY ListedNames
<1>3. page' \in PageStates /\ page'.list = listing /\ page'.selected = page.selected /\ page'.toDelete = page.toDelete
  BY <1>1, <1>2 DEF PageStates
<1>4. ASSUME slips' = {}
      PROVE  /\ \A t \in Ids \ Area(pending[i]) : /\ t \in DOMAIN page'.list <=> t \in DOMAIN page.list
                                                  /\ t \in DOMAIN page.list => page'.list[t] = page.list[t]
             /\ \A t \in Area(pending[i]) : SameBut(t, {})'
  <2>1. slips = {} /\ rows' = rows /\ Expected(p) /\ Shape(p) /\ p \in Listing!Request /\ Known \subseteq Ids
    BY <1>1, <1>4, Serving DEF Answered
  <2>2. s \in Area(p) /\ Due(p) = {s} /\ Gone(p) = {} /\ Area(p) \subseteq Ids
    <3>1. p.kind \in Listing!Kinds /\ p.touches \subseteq Ids
      BY <2>1, RequestFields
    <3>2. s \in Area(p)
      BY <2>1, <3>1 DEF Shape, Area, Listing!Kinds, Deletes
    <3>3. Due(p) = {s} /\ Gone(p) = {}
      BY <1>1 DEF Due, Gone
    <3>4. p.kind = "create" => s \in Ids
      BY DEF PageInv, Creations
    <3> QED
      BY <3>1, <3>2, <3>3, <3>4 DEF Area
  <2>3. Landed(p, s)
    BY <2>1, <2>2 DEF Expected
  <2>4. ASSUME NEW t \in Area(p), t # s PROVE SameBut(t, {})
    BY <2>1, <2>2, <2>4 DEF Expected
  <2>5. SameBut(s, {})'
    BY <1>3, <2>1, <2>3 DEF SameBut, Alike, Landed
  <2>6. ASSUME NEW t \in Area(p), t # s PROVE SameBut(t, {})'
    <3>1. SameBut(t, {}) /\ t \in Ids
      BY <2>2, <2>4, <2>6
    <3> QED
      BY <1>3, <2>1, <2>6, <3>1 DEF SameBut, Alike
  <2>7. \A t \in Ids \ Area(p) : t # s
    BY <2>2
  <2> QED
    BY <1>3, <2>5, <2>6, <2>7
<1> QED
  BY <1>1, <1>2, <1>3, <1>4, AnsweredInv

LEMMA PatchedInv ==
  ASSUME Listing!PageAssumption, PageInv, NEW i \in DOMAIN pending, Listing!Patched(i)
  PROVE  PageInv'
<1> DEFINE p == pending[i]
           Sets(status) == IF p.id \in DOMAIN page.list THEN [ page.list EXCEPT ![p.id].status = status ] ELSE page.list
<1>0. PICK s : s = p.id
  OBVIOUS
<1>1. /\ p \in Listing!Request /\ Shape(p) /\ RequestMentions(p) /\ page.list \in RowLists
      /\ DOMAIN page.list \subseteq Known /\ DOMAIN page.list \subseteq Ids /\ Known \subseteq Ids
      /\ \A t \in DOMAIN page.list : page.list[t] \in Listing!Row /\ page.list[t].merged \in Named
      /\ slips = {} => Expected(p)
  BY Serving
<1>2. p.row \in Listing!Row /\ p.row.merged \in Named /\ p.to \in { "active", "paused" }
  BY <1>1, RequestFields DEF RequestMentions
<1>3. Answered(i) => /\ Known \subseteq Known' /\ Named \subseteq Named'
      /\ (p.kind = "create" => s \in Known' /\ s \in Ids)
  BY <1>0, AnsweredNames DEF PageInv, Creations
<1>4. page.list \in [ DOMAIN page.list -> Listing!Row ]
  BY <1>1, RowListTypes
<1>5. slips = {} /\ p.phase = "ok" /\ p.kind \notin { "delete", "bulkDelete", "bulkSync" } => Landed(p, s)
  BY <1>0, <1>1 DEF Expected, Due, Deletes
<1>6. ASSUME p.kind \in { "unmerge", "edit" }, Listing!Lands(i, Listing!Replaced(p.id, p.row))
      PROVE  PageInv'
  <2>1. PICK listing : listing = Listing!Replaced(s, p.row)
    OBVIOUS
  <2>2. Answered(i) /\ p.phase = "ok" /\ Listing!Lands(i, listing)
    BY <1>0, <1>6, <2>1 DEF Listing!Lands, Answered
  <2>3. /\ DOMAIN listing = DOMAIN page.list /\ \A t \in DOMAIN listing : listing[t] = IF t = s THEN p.row ELSE page.list[t]
    BY <1>4, <2>1 DEF Listing!Replaced
  <2>4. listing \in RowLists
    <3>1. listing = [ t \in DOMAIN page.list |-> IF t = s THEN p.row ELSE page.list[t] ]
      BY <1>4, <2>1 DEF Listing!Replaced
    <3>2. listing \in [ DOMAIN page.list -> Listing!Row ]
      BY <1>1, <1>2, <3>1
    <3> QED
      BY <1>1, <3>2, IsList
  <2>5. DOMAIN listing \subseteq Known' /\ \A t \in DOMAIN listing : listing[t].merged \in Named'
    BY <1>1, <1>2, <1>3, <2>2, <2>3
  <2>6. slips = {} => s \in DOMAIN listing /\ Alike(rows[s], listing[s])
    BY <1>5, <1>6, <2>2, <2>3 DEF Landed, Alike
  <2>7. ~ Deletes(p) /\ p.kind # "bulkSync"
    BY <1>6 DEF Deletes
  <2> HIDE DEF p
  <2> QED
    BY <1>0, <2>2, <2>3, <2>4, <2>5, <2>6, <2>7, LandsInv DEF p
<1>7. ASSUME p.kind = "create",
             Listing!Lands(i, [ t \in DOMAIN page.list \cup {p.id} |-> IF t = p.id THEN p.row ELSE page.list[t] ])
      PROVE  PageInv'
  <2>1. PICK listing : listing = [ t \in DOMAIN page.list \cup {s} |-> IF t = s THEN p.row ELSE page.list[t] ]
    OBVIOUS
  <2>2. Answered(i) /\ p.phase = "ok" /\ Listing!Lands(i, listing)
    BY <1>0, <1>7, <2>1 DEF Listing!Lands, Answered
  <2>3. s \in Known' /\ s \in Ids /\ Known \subseteq Known' /\ Named \subseteq Named'
    BY <1>3, <1>7, <2>2
  <2>4. listing \in RowLists
    <3>1. listing \in [ DOMAIN page.list \cup {s} -> Listing!Row ]
      BY <1>1, <1>2, <2>1
    <3> QED
      BY <1>1, <2>3, <3>1, IsList
  <2>5. DOMAIN listing \subseteq Known' /\ \A t \in DOMAIN listing : listing[t].merged \in Named'
    BY <1>1, <1>2, <2>1, <2>3
  <2>6. slips = {} => s \in DOMAIN listing /\ Alike(rows[s], listing[s])
    <3>1. s \in DOMAIN listing /\ listing[s] = p.row
      BY <2>1
    <3> QED
      BY <1>5, <1>7, <2>2, <3>1 DEF Landed, Alike
  <2>7. \A t \in Ids : t # s => (t \in DOMAIN listing <=> t \in DOMAIN page.list)
        /\ (t \in DOMAIN page.list => listing[t] = page.list[t])
    BY <2>1
  <2>8. ~ Deletes(p) /\ p.kind # "bulkSync"
    BY <1>7 DEF Deletes
  <2> HIDE DEF p
  <2> QED
    BY <1>0, <2>2, <2>4, <2>5, <2>6, <2>7, <2>8, LandsInv DEF p
<1>8. ASSUME NEW status \in { "active", "paused", "syncing" }, NEW listing, listing = Sets(status),
      Listing!Lands(i, listing),
             p.kind \in { "toggle", "sync" }, status = "paused" <=> (p.kind = "toggle" /\ p.to = "paused")
      PROVE  PageInv'
  <2>1. listing = Sets(status)
    BY <1>8
  <2>2. Answered(i) /\ p.phase = "ok" /\ Listing!Lands(i, listing)
    BY <1>8 DEF Listing!Lands, Answered
  <2>3. /\ DOMAIN listing = DOMAIN page.list
        /\ \A t \in DOMAIN listing : listing[t] = IF t = s THEN [ page.list[t] EXCEPT !.status = status ] ELSE page.list[t]
    BY <1>0, <1>4, <2>1
  <2>4. \A t \in DOMAIN page.list : /\ [ page.list[t] EXCEPT !.status = status ] \in Listing!Row
                                    /\ [ page.list[t] EXCEPT !.status = status ].merged = page.list[t].merged
                                    /\ [ page.list[t] EXCEPT !.status = status ].status = status
    BY <1>1, <1>8 DEF Listing!Row
  <2>5. listing \in RowLists
    <3>1. listing = [ t \in DOMAIN page.list |-> IF t = s THEN [ page.list[t] EXCEPT !.status = status ] ELSE page.list[t] ]
      BY <1>0, <1>4, <2>1
    <3>2. listing \in [ DOMAIN page.list -> Listing!Row ]
      BY <1>1, <2>4, <3>1
    <3> QED
      BY <1>1, <3>2, IsList
  <2>6. DOMAIN listing \subseteq Known' /\ \A t \in DOMAIN listing : listing[t].merged \in Named'
    BY <1>1, <1>3, <2>2, <2>3, <2>4
  <2>7. slips = {} => s \in DOMAIN listing /\ Alike(rows[s], listing[s])
    <3> SUFFICES ASSUME slips = {} PROVE s \in DOMAIN listing /\ Alike(rows[s], listing[s])
      OBVIOUS
    <3>1. Landed(p, s)
      BY <1>5, <1>8, <2>2
    <3>2. s \in DOMAIN page.list /\ rows[s].merged = page.list[s].merged
          /\ (Paused(rows[s]) <=> (p.kind = "toggle" /\ p.to = "paused"))
      BY <1>8, <3>1 DEF Landed
    <3>3. listing[s].merged = page.list[s].merged /\ listing[s].status = status
      BY <2>3, <2>4, <3>2
    <3> QED
      BY <1>8, <2>3, <3>2, <3>3 DEF Alike, Paused
  <2>8. ~ Deletes(p) /\ p.kind # "bulkSync"
    BY <1>8 DEF Deletes
  <2>9. \A t \in Ids : t # s => (t \in DOMAIN listing <=> t \in DOMAIN page.list)
        /\ (t \in DOMAIN page.list => listing[t] = page.list[t])
    BY <2>3
  <2> HIDE DEF p
  <2> QED
    BY <1>0, <2>2, <2>5, <2>6, <2>7, <2>8, <2>9, LandsInv DEF p
<1>9. \/ p.kind \in { "unmerge", "edit" } /\ Listing!Lands(i, Listing!Replaced(p.id, p.row))
      \/ p.kind = "create" /\ Listing!Lands(i, [ t \in DOMAIN page.list \cup {p.id} |-> IF t = p.id THEN p.row ELSE page.list[t] ])
      \/ p.kind = "toggle" /\ Listing!Lands(i, Sets(p.to))
      \/ p.kind = "sync" /\ Listing!Lands(i, Sets("syncing"))
  BY DEF Listing!Patched
<1> HIDE DEF p
<1>10. CASE p.kind = "toggle" /\ Listing!Lands(i, Sets(p.to))
  <2>1. PICK status, listing : status = p.to /\ listing = Sets(status)
    OBVIOUS
  <2>2. status \in { "active", "paused", "syncing" } /\ Listing!Lands(i, listing)
    BY <1>2, <1>10, <2>1
  <2>3. p.kind \in { "toggle", "sync" } /\ (status = "paused" <=> (p.kind = "toggle" /\ p.to = "paused"))
        /\ listing = Sets(status)
    BY <1>10, <2>1
  <2> HIDE DEF Sets
  <2> QED
    BY <1>8, <2>2, <2>3
<1>11. CASE p.kind = "sync" /\ Listing!Lands(i, Sets("syncing"))
  <2>1. PICK listing : listing = Sets("syncing")
    OBVIOUS
  <2>2. Listing!Lands(i, listing)
    BY <1>11, <2>1
  <2> QED
    BY <1>8, <1>11, <2>1, <2>2
<1> HIDE DEF Sets
<1> QED
  BY <1>6, <1>7, <1>9, <1>10, <1>11

LEMMA FailedInv ==
  ASSUME Listing!PageAssumption, PageInv, NEW i \in DOMAIN pending, Listing!Failed(i)
  PROVE  PageInv'
<1> DEFINE p == pending[i]
<1>1. /\ p.phase = "failed" /\ Answered(i) /\ slips' = slips
      /\ page' = IF p.kind \in { "delete", "bulkDelete" } THEN [ page EXCEPT !.deleting = FALSE ] ELSE page
  BY DEF Listing!Failed, Answered
<1>2. /\ page \in PageStates /\ page.toDelete \in Named /\ page.selected \subseteq Known
  BY ListedNames
<1>3. page' \in PageStates /\ page'.list = page.list /\ page'.selected = page.selected /\ page'.toDelete = page.toDelete
  <2>1. [ page EXCEPT !.deleting = FALSE ] \in PageStates
    BY <1>2 DEF PageStates
  <2> QED
    BY <1>1, <1>2, <2>1 DEF PageStates
<1>4. Known \subseteq Known' /\ Named \subseteq Named' /\ DOMAIN page.list \subseteq Known
      /\ \A s \in DOMAIN page.list : page.list[s].merged \in Named
  BY <1>1, AnsweredNames, Serving DEF PageInv
<1>5. ASSUME slips' = {} PROVE \A t \in Area(pending[i]) : SameBut(t, {})'
  <2>1. slips = {} /\ rows' = rows /\ Expected(p) /\ Shape(p)
    BY <1>1, <1>5, Serving DEF Answered
  <2>2. Due(p) = {}
    BY <1>1, <2>1 DEF Shape, Due
  <2>3. Gone(p) = {}
    BY <1>1, <2>1 DEF Expected, Gone
  <2> HIDE DEF p
  <2>4. \A t \in Area(p) : SameBut(t, {})
    BY <2>1, <2>2, <2>3 DEF Expected
  <2>5. \A t \in Area(p) : SameBut(t, {})'
    BY <1>3, <2>1, <2>4 DEF SameBut, Alike
  <2> QED
    BY <2>5 DEF p
<1>6. DOMAIN page'.list \subseteq Known' /\ \A s \in DOMAIN page'.list : page'.list[s].merged \in Named'
  BY <1>3, <1>4
<1> HIDE DEF p
<1> QED
  BY <1>1, <1>2, <1>3, <1>5, <1>6, AnsweredInv

\* That a client has written a group is not forgotten.
LEMMA RemergedStays ==
  ASSUME "remerged" \in slips, [Listing!Next]_Listing!vars
  PROVE  "remerged" \in slips'
<1>1. slips \subseteq slips' \/ slips' = slips \cap {"remerged"}
  <2>1. ASSUME NEW i, Listing!DeleteRows(i) \/ Listing!Refuses(i) \/ Listing!ExecuteCreate(i) \/ Listing!ExecuteSync(i)
        PROVE  slips \subseteq slips'
    BY <2>1 DEF Listing!DeleteRows, Listing!Refuses, Listing!ExecuteCreate, Listing!Concludes, Listing!ExecuteSync,
       Listing!SyncFails
  <2>2. ASSUME NEW i, Listing!Execute(i) PROVE slips \subseteq slips'
    BY <2>2 DEF Listing!Execute, Listing!DeleteReads, Listing!Concludes
  <2>3. ASSUME NEW i, \/ Listing!Deleted(i) \/ Listing!BulkDeleted(i) \/ Listing!BulkSynced(i)
                      \/ Listing!Patched(i) \/ Listing!Failed(i)
        PROVE  slips \subseteq slips'
    BY <2>3 DEF Listing!Deleted, Listing!BulkDeleted, Listing!BulkSynced, Listing!Patched, Listing!Lands, Listing!Failed
  <2>4. ASSUME NEW q, Listing!Sends(q) PROVE slips \subseteq slips'
    BY <2>4 DEF Listing!Sends
  <2>5. CASE \/ \E s \in Ids : Listing!OpenDeleteDialog(s) \/ Listing!Select(s)
             \/ Listing!ConfirmDelete \/ Listing!HandleBulkDelete \/ Listing!HandleBulkForceSync
             \/ \E kind \in { "unmerge", "toggle", "sync", "edit" }, s \in Ids : Listing!Asks(kind, s)
             \/ \E s \in Ids, target \in Ids \cup {None} : Listing!HandleCreate(s, target)
    BY <2>4, <2>5 DEF Listing!OpenDeleteDialog, Listing!Select, Listing!ConfirmDelete, Listing!HandleBulkDelete,
       Listing!HandleBulkForceSync, Listing!Asks, Listing!HandleCreate
  <2>6. CASE (\E s \in Ids, target \in Ids \cup {None} : Listing!UpdateMerge(s, target)) \/ Listing!RefreshSources
    BY <2>6 DEF Listing!UpdateMerge, Listing!RefreshSources
  <2>7. CASE UNCHANGED Listing!vars
    BY <2>7 DEF Listing!vars
  <2> QED
    BY <2>1, <2>2, <2>3, <2>5, <2>6, <2>7 DEF Listing!Next
<1> QED
  BY <1>1

\* Every step of the user, of the server and of the page keeps the invariant.
LEMMA PageNext == Listing!PageAssumption /\ PagesInv /\ [Listing!Next]_Listing!vars => PagesInv'
<1>0. CASE "remerged" \in slips
  BY <1>0, RemergedStays DEF PagesInv
<1>7. CASE \E s \in Ids, target \in Ids \cup {None} : Listing!UpdateMerge(s, target)
  BY <1>7 DEF Listing!UpdateMerge, PagesInv
<1> SUFFICES ASSUME Listing!PageAssumption, PageInv, [Listing!Next]_Listing!vars,
                    ~ \E s \in Ids, target \in Ids \cup {None} : Listing!UpdateMerge(s, target)
             PROVE  PageInv'
  BY <1>0, <1>7 DEF PagesInv
<1>1. CASE \E s \in Ids : Listing!OpenDeleteDialog(s) \/ Listing!Select(s)
  BY <1>1, OpensOrSelects
<1>2. CASE \/ Listing!ConfirmDelete \/ Listing!HandleBulkDelete \/ Listing!HandleBulkForceSync
           \/ \E kind \in { "unmerge", "toggle", "sync", "edit" }, s \in Ids : Listing!Asks(kind, s)
           \/ \E s \in Ids, target \in Ids \cup {None} : Listing!HandleCreate(s, target)
  BY <1>2, Asking
<1>3. CASE \E i \in DOMAIN pending : Listing!DeleteRows(i) \/ Listing!Refuses(i) \/ Listing!Execute(i)
      \/ Listing!ExecuteCreate(i) \/ Listing!ExecuteSync(i)
  BY <1>3, ServerInv
<1>4. CASE \E i \in DOMAIN pending : Listing!Deleted(i) \/ Listing!BulkDeleted(i) \/ Listing!BulkSynced(i)
      \/ Listing!Patched(i) \/ Listing!Failed(i)
  BY <1>4, DeletedInv, BulkDeletedInv, BulkSyncedInv, PatchedInv, FailedInv
<1>5. CASE Listing!RefreshSources
  BY <1>5, Refreshes
<1>6. CASE UNCHANGED Listing!vars
  <2>1. rows' = rows /\ page' = page /\ pending' = pending /\ unused' = unused /\ slips' = slips
    BY <1>6 DEF Listing!vars
  <2>2. page' \in PageStates /\ page'.selected \subseteq Known /\ page'.toDelete \in Named
    BY <2>1, ListedNames
  <2> QED
    BY <2>1, <2>2, PageMoves
<1> QED
  BY <1>1, <1>2, <1>3, <1>4, <1>5, <1>6 DEF Listing!Next

-----------------------------------------------------------------------------
(* The texts of attachments: how far the heap can grow between two samples,  *)
(* and what a place on the way tells of the attachment that is there.       *)

Pdfs == { p \in Extraction!Parts : Extraction!IsPdf(p) }
Fates == { "waiting", "reading", "asking", "queued", "parsing", "text", "none", "rejected" }

Enders == { "parser", "clock", "watch" }

ParseTurns ==
    [ at : { "idle" } ]
      \cup [ at : { "parsing" }, part : Pdfs, baseline : Nat ]
      \cup [ at : { "reclaim" }, part : Pdfs, text : { "text", "none" }, by : Enders ]

Heaps == [ garbage : Nat, resident : 0 .. MaxResident, missed : BOOLEAN, sampled : BOOLEAN ]

\* What a place on the way tells of the attachment that is there.
Fated(p) ==
    /\ part[p] = "rejected" => Extraction!Kind(p) = "lost"
    /\ part[p] \in { "asking", "text", "none" } => Extraction!Kind(p) # "lost"
    /\ part[p] = "none" => engine = "tika" \/ Extraction!Kind(p) # "plain"
    /\ part[p] = "asking" => engine = "tika"

FatesInv ==
    /\ engine \in { "legacy", "tika" }
    /\ part \in [ Extraction!Parts -> Fates ]
    /\ \A p \in Extraction!Parts : Fated(p)
    /\ DOMAIN built \subseteq Extraction!Documents
    /\ Extraction!DocumentsWhole

\* The parse whose turn it is has the one parser, until it is destroyed.
TurnInv ==
    /\ chain \in Seq(Pdfs)
    /\ turn \in ParseTurns
    /\ DOMAIN parsers = IF Extraction!Parsing THEN { turn.part } ELSE {}
    /\ Extraction!Parsing => parsers[turn.part] \in 0 .. Extraction!Growth(turn.part)

\* The memory of the parser at work.
Allocated == IF Extraction!Parsing THEN parsers[turn.part] ELSE 0

\* What cannot be collected grows once between two samples; what is left of a parse
\* is gone before the next begins, unless the collection failed.
HeapInv ==
    /\ heap \in Heaps
    /\ turn.at = "reclaim" \/ heap.garbage = 0 \/ heap.missed
    /\ ~ Extraction!Parsing => heap.sampled
    /\ Allocated + heap.resident <= IF heap.sampled THEN HardStop ELSE HardStop + 1
    /\ Extraction!HealthyParsed

TextInv == FatesInv /\ TurnInv /\ HeapInv

\* How far a parse grows.
LEMMA GrowthIs == \A p : Extraction!Growth(p) \in Nat /\ (Extraction!Kind(p) = "pdf" =>
   Extraction!Growth(p) = 1)
  BY WorkspaceAssumption DEF Extraction!Growth, Extraction!ExtractionAssumption

\* What no parser, and what one parser, has allocated.
LEMMA SumOfNone == \A S : S = {} => Extraction!MapThenSumSet(LAMBDA q : parsers[q], S) = 0
<1> SUFFICES Extraction!MapThenSumSet(LAMBDA q : parsers[q], {}) = 0
  OBVIOUS
<1> DEFINE It(g) == g = [ s \in SUBSET {} |->
                IF s = {} THEN 0
                ELSE LET x == CHOOSE y \in s : TRUE IN parsers[x] + g[s \ {x}] ]
           G == [ s \in SUBSET {} |-> 0 ]
<1>1. It(G)
  OBVIOUS
<1>2. It(CHOOSE g : It(g))
  BY <1>1
<1>3. Extraction!MapThenSumSet(LAMBDA q : parsers[q], {}) = (CHOOSE g : It(g))[{}]
  BY DEF Extraction!MapThenSumSet, Extraction!MapThenFoldSet
<1> QED
  BY <1>2, <1>3

LEMMA SumOfOne ==
  ASSUME NEW p, parsers[p] \in Nat
  PROVE  Extraction!MapThenSumSet(LAMBDA q : parsers[q], { p }) = parsers[p]
<1> DEFINE It(g) == g = [ s \in SUBSET { p } |->
                IF s = {} THEN 0
                ELSE LET x == CHOOSE y \in s : TRUE IN parsers[x] + g[s \ {x}] ]
           G == [ s \in SUBSET { p } |-> IF s = {} THEN 0 ELSE parsers[p] ]
<1>1. It(G)
  <2>1. \A s \in SUBSET { p } : s # {} => (CHOOSE y \in s : TRUE) = p /\ s \ { p } = {}
    OBVIOUS
  <2>2. parsers[p] + 0 = parsers[p]
    OBVIOUS
  <2> QED
    BY <2>1, <2>2
<1>2. It(CHOOSE g : It(g))
  BY <1>1
<1>3. Extraction!MapThenSumSet(LAMBDA q : parsers[q], { p }) = (CHOOSE g : It(g))[{ p }]
  BY DEF Extraction!MapThenSumSet, Extraction!MapThenFoldSet
<1>4. (CHOOSE y \in { p } : TRUE) = p /\ { p } \ { p } = {}
  OBVIOUS
<1> HIDE DEF G
<1>5. (CHOOSE g : It(g))[{ p }] = parsers[p] + (CHOOSE g : It(g))[{}] /\ (CHOOSE g : It(g))[{}] = 0
  BY <1>2, <1>4
<1> QED
  BY <1>3, <1>5

\* At most one parser counts.
LEMMA HeapUsedIs ==
  ASSUME TurnInv, HeapInv
  PROVE  /\ Extraction!Live = Allocated + heap.resident
         /\ Extraction!HeapUsed = Allocated + heap.resident + heap.garbage
         /\ Extraction!Live \in Nat /\ Extraction!HeapUsed \in Nat /\ Allocated \in Nat
<1> DEFINE T == Extraction!MapThenSumSet(LAMBDA q : parsers[q], DOMAIN parsers)
<1>1. Extraction!Live = T + heap.resident /\ Extraction!HeapUsed = Extraction!Live + heap.garbage
  BY Zenon DEF Extraction!HeapUsed, Extraction!Live
<1>2. heap.garbage \in Nat /\ heap.resident \in Nat
  BY WorkspaceAssumption DEF HeapInv, Heaps, Extraction!ExtractionAssumption
<1>3. T = Allocated /\ Allocated \in Nat
  <2>1. CASE Extraction!Parsing
    <3>1. parsers[turn.part] \in Nat /\ DOMAIN parsers = { turn.part } /\ Allocated = parsers[turn.part]
      BY <2>1, GrowthIs DEF TurnInv, Allocated
    <3>2. Extraction!MapThenSumSet(LAMBDA q : parsers[q], { turn.part }) = parsers[turn.part]
      BY <3>1, SumOfOne
    <3> QED
      BY <3>1, <3>2, Zenon
  <2>2. CASE ~ Extraction!Parsing
    <3>1. DOMAIN parsers = {} /\ Allocated = 0
      BY <2>2 DEF TurnInv, Allocated
    <3>2. Extraction!MapThenSumSet(LAMBDA q : parsers[q], {}) = 0
      BY SumOfNone
    <3>3. T = Allocated
      BY <3>1, <3>2, Zenon
    <3> QED
      BY <3>1, <3>3
  <2> QED
    BY <2>1, <2>2
<1> HIDE DEF T
<1> QED
  BY <1>1, <1>2, <1>3

\* The extraction begins with nothing read.
LEMMA TextInit == Extraction!Init => TextInv
<1> SUFFICES ASSUME Extraction!Init PROVE TextInv
  OBVIOUS
<1>1. FatesInv
  BY DEF Extraction!Init, FatesInv, Fates, Fated, Extraction!DocumentsWhole
<1>2. TurnInv
  BY DEF Extraction!Init, TurnInv, ParseTurns, Extraction!NoTurn, Extraction!Parsing
<1>3. HeapInv
  BY WorkspaceAssumption DEF Extraction!Init, HeapInv, Heaps, Extraction!HealthyParsed,
     Extraction!NoTurn, Extraction!Parsing, Allocated, Extraction!ExtractionAssumption
<1> QED
  BY <1>1, <1>2, <1>3 DEF TextInv

\* Attachments move on, and documents are built of settled ones.
LEMMA FatesStep == TextInv /\ Extraction!Next => FatesInv'
<1> SUFFICES ASSUME TextInv, Extraction!Next PROVE FatesInv'
  OBVIOUS
<1> USE DEF TextInv
\* A step that moves one attachment on.
<1>1. ASSUME NEW p \in Extraction!Parts, NEW f \in Fates, Extraction!Settles(p, f),
             UNCHANGED << engine, built >>,
             f = "rejected" => Extraction!Kind(p) = "lost",
             f \in { "asking", "text", "none" } => Extraction!Kind(p) # "lost",
             f = "none" => engine = "tika" \/ Extraction!Kind(p) # "plain",
             f = "asking" => engine = "tika"
      PROVE  FatesInv'
  <2>1. part' \in [ Extraction!Parts -> Fates ] /\ part'[p] = f
        /\ \A q \in Extraction!Parts \ {p} : part'[q] = part[q]
    BY <1>1 DEF FatesInv, Extraction!Settles
  <2>2. \A q \in Extraction!Parts : Fated(q)'
    BY <1>1, <2>1 DEF FatesInv, Fated, Extraction!Kind
  <2>3. Extraction!DocumentsWhole' /\ DOMAIN built' \subseteq Extraction!Documents
    BY <1>1 DEF FatesInv, Extraction!DocumentsWhole, Extraction!Kind
  <2> QED
    BY <1>1, <2>1, <2>2, <2>3 DEF FatesInv
<1>2. ASSUME UNCHANGED << engine, part, built >> PROVE FatesInv'
  BY <1>2 DEF FatesInv, Fated, Extraction!DocumentsWhole, Extraction!Kind
<1>3. ASSUME NEW p \in Extraction!Parts,
             \/ Extraction!Take(p) \/ Extraction!ReadFails(p) \/ Extraction!Skip(p)
             \/ Extraction!Convert(p) \/ Extraction!Enqueue(p) \/ Extraction!AskTika(p) \/
                Extraction!TikaAnswers(p)
      PROVE  FatesInv'
  <2>1. CASE Extraction!Take(p)
    BY <1>1, <2>1 DEF Extraction!Take, Fates
  <2>2. CASE Extraction!ReadFails(p)
    BY <1>1, <2>2 DEF Extraction!ReadFails, Fates
  <2>3. CASE Extraction!Skip(p)
    BY <1>1, <2>3 DEF Extraction!Skip, Fates
  <2>4. CASE Extraction!Convert(p)
    <3>1. CASE Extraction!Kind(p) = "plain"
      BY <1>1, <2>4, <3>1 DEF Extraction!Convert, Fates
    <3>2. CASE Extraction!Kind(p) # "plain"
      BY <1>1, <2>4, <3>2 DEF Extraction!Convert, Fates
    <3> QED
      BY <3>1, <3>2
  <2>5. CASE Extraction!Enqueue(p)
    BY <1>1, <2>5 DEF Extraction!Enqueue, Fates
  <2>6. CASE Extraction!AskTika(p)
    BY <1>1, <2>6 DEF Extraction!AskTika, Fates, Extraction!IsPdf, Extraction!Endless
  <2>7. CASE Extraction!TikaAnswers(p)
    <3>1. PICK outcome \in { "text", "none" } : Extraction!Settles(p, outcome)
      BY <2>7 DEF Extraction!TikaAnswers
    <3>2. Fated(p) /\ part[p] = "asking"
      BY <2>7 DEF Extraction!TikaAnswers, FatesInv
    <3> QED
      BY <1>1, <2>7, <3>1, <3>2 DEF Extraction!TikaAnswers, Fates, Fated
  <2> QED
    BY <1>3, <2>1, <2>2, <2>3, <2>4, <2>5, <2>6, <2>7
<1>4. ASSUME NEW d \in Extraction!Documents, Extraction!Build(d) PROVE FatesInv'
  <2>1. /\ UNCHANGED << engine, part >> /\ d \notin DOMAIN built
        /\ built' = [ e \in DOMAIN built \cup {d} |->
                        IF e = d THEN [ i \in Extraction!Readable(d) |-> part[<< d, i >>] ] ELSE built[e] ]
    BY <1>4 DEF Extraction!Build
  <2>2. \A i \in DOMAIN Attachments[d] : << d, i >> \in Extraction!Parts /\ Extraction!Settled(<< d, i >>)
    BY <1>4 DEF Extraction!Build, Extraction!Parts
  <2>3. \A i \in DOMAIN Attachments[d] :
            part[<< d, i >>] # "rejected" <=> Extraction!Kind(<< d, i >>) # "lost"
    BY <2>2 DEF FatesInv, Fated, Extraction!Settled
  <2>4. \A i \in DOMAIN Attachments[d] :
            engine = "legacy" /\ Extraction!Kind(<< d, i >>) = "plain" => part[<< d, i >>] = "text"
    BY <2>2 DEF FatesInv, Fated, Extraction!Settled
  <2>5. Extraction!Readable(d) = { i \in DOMAIN Attachments[d] : Extraction!Kind(<< d, i >>) # "lost" }
    BY <2>3 DEF Extraction!Readable
  <2>6. Extraction!DocumentsWhole'
    <3>0. UNCHANGED engine
      BY <2>1
    <3> SUFFICES ASSUME NEW e \in DOMAIN built'
                 PROVE  /\ DOMAIN built'[e]
                              = { i \in DOMAIN Attachments[e] : Extraction!Kind(<< e, i >>) # "lost" }
                        /\ \A i \in DOMAIN built'[e] :
                              engine = "legacy" /\ Extraction!Kind(<< e, i >>) = "plain"
                                => built'[e][i] = "text"
      BY <3>0, Zenon DEF Extraction!DocumentsWhole, Extraction!Kind
    <3>1. CASE e = d
      <4>1. built'[e] = [ i \in Extraction!Readable(d) |-> part[<< d, i >>] ]
        BY <2>1, <3>1
      <4> QED
        BY <2>4, <2>5, <3>1, <4>1
    <3>2. CASE e # d
      <4>1. e \in DOMAIN built /\ built'[e] = built[e]
        BY <2>1, <3>2
      <4> QED
        BY <4>1 DEF FatesInv, Extraction!DocumentsWhole
    <3> QED
      BY <3>1, <3>2
  <2>7. DOMAIN built' \subseteq Extraction!Documents
    BY <2>1 DEF FatesInv
  <2>8. \A p \in Extraction!Parts : Fated(p)'
    BY <2>1 DEF FatesInv, Fated, Extraction!Kind
  <2> QED
    BY <2>1, <2>6, <2>7, <2>8 DEF FatesInv
<1>5. CASE Extraction!StartParse
  <2>1. Head(chain) \in Extraction!Parts /\ Extraction!Settles(Head(chain), "parsing")
        /\ UNCHANGED << engine, built >>
    BY <1>5, HeadTailProperties DEF Extraction!StartParse, TurnInv, Pdfs
  <2> QED
    BY <1>1, <2>1 DEF Fates
<1>6. CASE Extraction!Emits \/ Extraction!TimesOut \/ Extraction!Watch \/ Extraction!Load \/
   Extraction!Unload \/ Extraction!Collect
  BY <1>2, <1>6 DEF Extraction!Emits, Extraction!TimesOut, Extraction!Watch, Extraction!Load,
     Extraction!Unload, Extraction!Collect, Extraction!Finish
<1>7. CASE Extraction!Reclaim
  <2>1. turn \in [ at : { "reclaim" }, part : Pdfs, text : { "text", "none" }, by : Enders ]
    BY <1>7 DEF Extraction!Reclaim, TurnInv, ParseTurns
  <2>2. turn.part \in Extraction!Parts /\ Extraction!IsPdf(turn.part) /\ turn.text \in { "text", "none" }
    BY <2>1 DEF Pdfs
  <2> QED
    BY <1>1, <1>7, <2>2 DEF Extraction!Reclaim, Fates, Extraction!IsPdf, Extraction!Endless
<1>8. ASSUME NEW p \in DOMAIN parsers, Extraction!Grow(p) PROVE FatesInv'
  BY <1>2, <1>8 DEF Extraction!Grow
<1> QED
  BY <1>3, <1>4, <1>5, <1>6, <1>7, <1>8 DEF Extraction!Next

\* One parse after the other, each with the only parser.
LEMMA TurnStep == TextInv /\ Extraction!Next => TurnInv'
<1> SUFFICES ASSUME TextInv, Extraction!Next PROVE TurnInv'
  OBVIOUS
<1> USE DEF TextInv
<1>1. ASSUME UNCHANGED << turn, parsers >>, chain' \in Seq(Pdfs) PROVE TurnInv'
  BY <1>1 DEF TurnInv, Extraction!Parsing, Extraction!Growth, Extraction!Kind
<1>2. ASSUME Extraction!Parsing, NEW t \in { "text", "none" }, NEW by \in Enders,
             Extraction!Finish(t, by)
      PROVE  TurnInv'
  <2>1. turn.part \in Pdfs /\ DOMAIN parsers = { turn.part }
    BY <1>2 DEF TurnInv, ParseTurns, Extraction!Parsing
  <2>2. turn' \in ParseTurns /\ turn'.at = "reclaim" /\ chain' = chain
    BY <1>2, <2>1 DEF Extraction!Finish, ParseTurns
  <2>3. DOMAIN parsers' = {}
    BY <1>2, <2>1 DEF Extraction!Finish, Extraction!Destroyed, Extraction!Restrict
  <2> QED
    BY <2>2, <2>3 DEF TurnInv, Extraction!Parsing
<1>3. ASSUME NEW p \in Extraction!Parts,
             \/ Extraction!Take(p) \/ Extraction!ReadFails(p) \/ Extraction!Skip(p)
             \/ Extraction!Convert(p) \/ Extraction!AskTika(p) \/ Extraction!TikaAnswers(p)
      PROVE  TurnInv'
  BY <1>1, <1>3 DEF Extraction!Take, Extraction!ReadFails, Extraction!Skip, Extraction!Convert,
     Extraction!AskTika, Extraction!TikaAnswers, TurnInv
<1>4. ASSUME NEW p \in Extraction!Parts, Extraction!Enqueue(p) PROVE TurnInv'
  <2>1. p \in Pdfs
    BY <1>4 DEF Extraction!Enqueue, Pdfs
  <2>2. chain' \in Seq(Pdfs)
    BY <1>4, <2>1, AppendProperties DEF Extraction!Enqueue, TurnInv
  <2> QED
    BY <1>1, <1>4, <2>2 DEF Extraction!Enqueue
<1>5. ASSUME NEW d \in Extraction!Documents, Extraction!Build(d) PROVE TurnInv'
  BY <1>1, <1>5 DEF Extraction!Build, TurnInv
<1>6. CASE Extraction!StartParse
  <2>1. Head(chain) \in Pdfs /\ Tail(chain) \in Seq(Pdfs)
    BY <1>6, HeadTailProperties DEF Extraction!StartParse, TurnInv
  <2>2. Extraction!HeapUsed \in Nat
    BY HeapUsedIs
  <2>3. turn' \in ParseTurns /\ turn'.at = "parsing" /\ turn'.part = Head(chain)
    BY <1>6, <2>1, <2>2 DEF Extraction!StartParse, ParseTurns
  <2>4. DOMAIN parsers' = { Head(chain) } /\ parsers'[Head(chain)] = 0
    BY <1>6 DEF Extraction!StartParse, TurnInv, Extraction!Parsing
  <2>5. 0 \in 0 .. Extraction!Growth(Head(chain))
    BY GrowthIs
  <2>6. parsers'[turn'.part] \in 0 .. Extraction!Growth(turn'.part)
    BY <2>3, <2>4, <2>5
  <2>7. DOMAIN parsers' = { turn'.part } /\ chain' \in Seq(Pdfs) /\ Extraction!Parsing'
    BY <1>6, <2>1, <2>3, <2>4 DEF Extraction!StartParse, Extraction!Parsing
  <2> QED
    BY <2>3, <2>6, <2>7 DEF TurnInv
<1>7. CASE Extraction!Emits
  <2>1. PICK t \in { "text", "none" } : Extraction!Finish(t, "parser")
    BY <1>7 DEF Extraction!Emits
  <2> QED
    BY <1>2, <1>7, <2>1 DEF Extraction!Emits, Enders
<1>8. CASE Extraction!TimesOut
  BY <1>2, <1>8 DEF Extraction!TimesOut, Enders
<1>9. CASE Extraction!Watch
  BY <1>1, <1>2, <1>9 DEF Extraction!Watch, TurnInv, Enders
<1>10. CASE Extraction!Reclaim
  BY <1>10 DEF Extraction!Reclaim, TurnInv, ParseTurns, Extraction!NoTurn, Extraction!Parsing
<1>11. ASSUME NEW p \in DOMAIN parsers, Extraction!Grow(p) PROVE TurnInv'
  <2>1. Extraction!Parsing /\ p = turn.part /\ parsers[p] \in 0 .. Extraction!Growth(p)
        /\ parsers[p] < Extraction!Growth(p)
    BY <1>11 DEF TurnInv, Extraction!Grow
  <2>2. parsers[p] + 1 \in 0 .. Extraction!Growth(p)
    BY <2>1, GrowthIs
  <2>3. UNCHANGED << chain, turn >> /\ DOMAIN parsers' = DOMAIN parsers /\ parsers'[p] = parsers[p] + 1
    BY <1>11 DEF Extraction!Grow
  <2>4. Extraction!Growth(p)' = Extraction!Growth(p)
    BY DEF Extraction!Growth, Extraction!Kind
  <2> QED
    BY <2>1, <2>2, <2>3, <2>4 DEF TurnInv, Extraction!Parsing
<1>12. CASE Extraction!Load \/ Extraction!Unload \/ Extraction!Collect
  BY <1>1, <1>12 DEF Extraction!Load, Extraction!Unload, Extraction!Collect, TurnInv
<1> QED
  BY <1>3, <1>4, <1>5, <1>6, <1>7, <1>8, <1>9, <1>10, <1>11, <1>12 DEF Extraction!Next

\* Nothing grows twice between two samples, and only below the hard stop.
LEMMA HeapStep == TextInv /\ Extraction!Next => HeapInv'
<1> SUFFICES ASSUME TextInv, Extraction!Next PROVE HeapInv'
  OBVIOUS
<1> USE DEF TextInv
<1>1. /\ Extraction!Live = Allocated + heap.resident
      /\ Extraction!HeapUsed = Allocated + heap.resident + heap.garbage
      /\ Extraction!HeapUsed \in Nat /\ Allocated \in Nat
      /\ heap.garbage \in Nat /\ heap.resident \in 0 .. MaxResident
      /\ heap.sampled \in BOOLEAN /\ heap.missed \in BOOLEAN
  BY HeapUsedIs DEF HeapInv, Heaps
<1>2. HardStop \in Nat /\ HardStop >= 1 /\ HardStop + 1 < HeapLimit /\ MaxResident \in 0 .. HardStop
      /\ HeapBudget \in Nat /\ HeapBudget >= 1
  BY WorkspaceAssumption DEF Extraction!ExtractionAssumption
\* A parser is destroyed: what it held is garbage now.
<1>3. ASSUME Extraction!Parsing, NEW t, NEW by, Extraction!Finish(t, by),
             Extraction!Kind(turn.part) = "pdf" /\ by = "watch" => heap.resident > 0 \/ heap.missed
      PROVE  HeapInv'
  <2>1. heap' = [ heap EXCEPT !.garbage = @ + parsers[turn.part], !.sampled = TRUE ]
    BY <1>3 DEF Extraction!Finish, Extraction!Destroyed
  <2>2. turn'.at = "reclaim" /\ turn'.part = turn.part /\ turn'.by = by
    BY <1>3 DEF Extraction!Finish
  <2>3. Allocated = parsers[turn.part]
    BY <1>3 DEF HeapInv, Extraction!Parsing, Allocated
  <2>4. heap' \in Heaps /\ heap'.resident = heap.resident /\ heap'.missed = heap.missed /\ heap'.sampled
    <3>1. heap.garbage + parsers[turn.part] \in Nat
      BY <1>1, <2>3
    <3>2. heap \in Heaps
      BY DEF HeapInv
    <3> QED
      BY <1>1, <2>1, <3>1, <3>2 DEF Heaps
  <2>5. Allocated' = 0
    BY <2>2 DEF Allocated, Extraction!Parsing
  <2>6. Allocated' + heap'.resident <= HardStop
    BY <1>1, <1>2, <2>4, <2>5
  <2>7. Extraction!HealthyParsed'
    BY <1>3, <2>2, <2>4 DEF Extraction!HealthyParsed, Extraction!Kind
  <2> QED
    BY <2>2, <2>4, <2>6, <2>7 DEF HeapInv, Extraction!Parsing
<1>4. ASSUME UNCHANGED << turn, parsers, heap >> PROVE HeapInv'
  BY <1>4 DEF HeapInv, Extraction!HealthyParsed, Extraction!Parsing, Allocated, Extraction!Kind
<1>5. ASSUME NEW p \in Extraction!Parts,
             \/ Extraction!Take(p) \/ Extraction!ReadFails(p) \/ Extraction!Skip(p)
             \/ Extraction!Convert(p) \/ Extraction!Enqueue(p) \/ Extraction!AskTika(p) \/
                Extraction!TikaAnswers(p)
      PROVE  HeapInv'
  BY <1>4, <1>5 DEF Extraction!Take, Extraction!ReadFails, Extraction!Skip, Extraction!Convert,
     Extraction!Enqueue, Extraction!AskTika, Extraction!TikaAnswers
<1>6. ASSUME NEW d \in Extraction!Documents, Extraction!Build(d) PROVE HeapInv'
  BY <1>4, <1>6 DEF Extraction!Build
<1>7. CASE Extraction!StartParse
  <2>1. turn.at = "idle" /\ ~ Extraction!Parsing /\ heap' = heap
    BY <1>7 DEF Extraction!StartParse, Extraction!Parsing
  <2>2. heap.sampled /\ (heap.garbage = 0 \/ heap.missed)
    BY <2>1 DEF HeapInv
  <2>3. turn'.at = "parsing" /\ Extraction!Parsing'
    BY <1>7 DEF Extraction!StartParse, Extraction!Parsing
  <2>4. Allocated' = 0
    BY <1>7 DEF Extraction!StartParse, Extraction!Parsing, Allocated
  <2>5. Allocated' + heap'.resident <= HardStop
    BY <1>1, <1>2, <2>1, <2>4
  <2> QED
    BY <2>1, <2>2, <2>3, <2>5 DEF HeapInv, Extraction!HealthyParsed
<1>8. CASE Extraction!Emits
  <2>1. PICK t \in { "text", "none" } : Extraction!Finish(t, "parser")
    BY <1>8 DEF Extraction!Emits
  <2>2. Extraction!Parsing
    BY <1>8 DEF Extraction!Emits
  <2> QED
    BY <1>3, <2>1, <2>2
<1>9. CASE Extraction!TimesOut
  BY <1>3, <1>9 DEF Extraction!TimesOut
<1>10. CASE Extraction!Watch
  <2>1. CASE Extraction!OverBudget
    <3>1. Extraction!Parsing /\ Extraction!Finish("none", "watch")
      BY <1>10, <2>1 DEF Extraction!Watch
    <3>2. /\ Allocated = parsers[turn.part] /\ turn.baseline \in Nat
          /\ heap.garbage = 0 \/ heap.missed
      BY <3>1 DEF HeapInv, TurnInv, ParseTurns, Extraction!Parsing, Allocated
    <3>3. ASSUME Extraction!Kind(turn.part) = "pdf", heap.resident = 0, ~ heap.missed PROVE FALSE
      <4>1. Allocated <= 1
        BY <3>1, <3>2, <3>3, <1>1, GrowthIs DEF TurnInv
      <4>2. Extraction!HeapUsed <= 1
        BY <1>1, <3>2, <3>3, <4>1
      <4>3. Extraction!HeapUsed > turn.baseline + HeapBudget \/ Extraction!HeapUsed > HardStop
        BY <2>1 DEF Extraction!OverBudget
      <4> QED
        BY <1>1, <1>2, <3>2, <4>2, <4>3
    <3>4. Extraction!Kind(turn.part) = "pdf" => heap.resident > 0 \/ heap.missed
      BY <1>1, <1>2, <3>3
    <3> QED
      BY <1>3, <3>1, <3>4
  <2>2. CASE ~ Extraction!OverBudget
    <3>1. Extraction!Parsing /\ heap' = [ heap EXCEPT !.sampled = TRUE ] /\ UNCHANGED << turn, parsers >>
      BY <1>10, <2>2 DEF Extraction!Watch
    <3>2. Extraction!HeapUsed <= HardStop
      BY <1>1, <1>2, <2>2 DEF Extraction!OverBudget
    <3>3. heap' \in Heaps /\ heap'.garbage = heap.garbage /\ heap'.resident = heap.resident
          /\ heap'.missed = heap.missed /\ heap'.sampled
      BY <3>1 DEF HeapInv, Heaps
    <3>4. Allocated' = Allocated /\ turn'.at = "parsing" /\ turn.at = "parsing" /\ Extraction!Parsing'
      BY <3>1 DEF Allocated, Extraction!Parsing
    <3>5. Allocated' + heap'.resident <= HardStop
      BY <1>1, <1>2, <3>2, <3>3, <3>4
    <3>6. heap'.garbage = 0 \/ heap'.missed
      BY <3>3, <3>4 DEF HeapInv
    <3> QED
      BY <3>3, <3>4, <3>5, <3>6 DEF HeapInv, Extraction!HealthyParsed
  <2> QED
    BY <2>1, <2>2
<1>11. CASE Extraction!Reclaim
  <2>1. /\ heap' \in { Extraction!Collected, [ heap EXCEPT !.missed = TRUE ] }
        /\ turn' = Extraction!NoTurn /\ turn.at = "reclaim" /\ ~ Extraction!Parsing
    BY <1>11 DEF Extraction!Reclaim, Extraction!Parsing
  <2>2. heap.sampled
    BY <2>1 DEF HeapInv
  <2>3. heap' \in Heaps /\ (heap'.garbage = 0 \/ heap'.missed) /\ heap'.resident = heap.resident
        /\ heap'.sampled
    <3>1. CASE heap' = Extraction!Collected
      BY <1>1, <2>2, <3>1 DEF HeapInv, Heaps, Extraction!Collected
    <3>2. CASE heap' = [ heap EXCEPT !.missed = TRUE ]
      BY <1>1, <2>2, <3>2 DEF HeapInv, Heaps
    <3> QED
      BY <2>1, <3>1, <3>2
  <2>4. turn'.at = "idle" /\ ~ Extraction!Parsing' /\ Allocated' = 0
    BY <2>1 DEF Extraction!NoTurn, Extraction!Parsing, Allocated
  <2>5. Allocated' + heap'.resident <= HardStop
    BY <1>1, <1>2, <2>3, <2>4
  <2> QED
    BY <2>3, <2>4, <2>5 DEF HeapInv, Extraction!HealthyParsed
<1>12. ASSUME NEW p \in DOMAIN parsers, Extraction!Grow(p) PROVE HeapInv'
  <2>1. Extraction!Parsing /\ p = turn.part /\ parsers[p] \in Nat /\ DOMAIN parsers = { p }
    BY <1>12, GrowthIs DEF TurnInv
  <2>2. UNCHANGED turn /\ parsers'[p] = parsers[p] + 1 /\ heap.sampled
        /\ heap' = [ heap EXCEPT !.sampled = ~ Extraction!Parsing ]
    BY <1>12 DEF Extraction!Grow
  <2>3. heap' \in Heaps /\ heap'.garbage = heap.garbage /\ heap'.resident = heap.resident
        /\ heap'.missed = heap.missed /\ ~ heap'.sampled
    BY <2>1, <2>2 DEF HeapInv, Heaps
  <2>4. Allocated' = Allocated + 1 /\ turn.at = "parsing" /\ turn'.at = "parsing" /\ Extraction!Parsing'
    BY <2>1, <2>2 DEF Allocated, Extraction!Parsing
  <2>5. Allocated + heap.resident <= HardStop /\ (heap.garbage = 0 \/ heap.missed)
    BY <2>2, <2>4 DEF HeapInv
  <2>6. Allocated' + heap'.resident <= HardStop + 1
    BY <1>1, <1>2, <2>3, <2>4, <2>5
  <2> QED
    BY <2>3, <2>4, <2>5, <2>6 DEF HeapInv, Extraction!HealthyParsed
<1>13. CASE Extraction!Load
  <2>1. UNCHANGED << turn, parsers >> /\ turn.at # "reclaim" /\ heap.sampled /\ heap.resident < MaxResident
        /\ heap' = [ heap EXCEPT !.resident = @ + 1, !.sampled = ~ Extraction!Parsing ]
    BY <1>13 DEF Extraction!Load
  <2>2. heap.resident + 1 \in 0 .. MaxResident
    BY <1>1, <1>2, <2>1
  <2>3. heap' \in Heaps /\ heap'.garbage = heap.garbage /\ heap'.resident = heap.resident + 1
        /\ heap'.missed = heap.missed /\ heap'.sampled = ~ Extraction!Parsing
    BY <2>1, <2>2 DEF HeapInv, Heaps, Extraction!Parsing
  <2>4. Allocated' = Allocated /\ Extraction!Parsing' = Extraction!Parsing
        /\ (heap.garbage = 0 \/ heap.missed)
    BY <2>1 DEF Allocated, Extraction!Parsing, HeapInv
  <2>5. Allocated + heap.resident <= HardStop
    BY <2>1 DEF HeapInv
  <2>6. ~ Extraction!Parsing => Allocated = 0
    BY DEF Allocated
  <2>7. Allocated' + heap'.resident <= IF heap'.sampled THEN HardStop ELSE HardStop + 1
    <3>1. CASE Extraction!Parsing
      <4>1. ~ heap'.sampled /\ Allocated' = Allocated
        BY <2>3, <2>4, <3>1
      <4>2. Allocated' + heap'.resident <= HardStop + 1
        BY <1>1, <1>2, <2>3, <2>5, <4>1
      <4> QED
        BY <4>1, <4>2
    <3>2. CASE ~ Extraction!Parsing
      <4>1. Allocated' = 0 /\ heap'.resident \in 0 .. MaxResident
        BY <2>2, <2>3, <2>4, <2>6, <3>2
      <4> QED
        BY <1>2, <4>1
    <3> QED
      BY <3>1, <3>2
  <2> QED
    BY <2>1, <2>3, <2>4, <2>7 DEF HeapInv, Extraction!HealthyParsed
<1>14. CASE Extraction!Unload
  <2>1. UNCHANGED << turn, parsers >> /\ turn.at # "reclaim" /\ heap' = [ heap EXCEPT !.resident = 0 ]
    BY <1>14 DEF Extraction!Unload
  <2>2. heap' \in Heaps /\ heap'.garbage = heap.garbage /\ heap'.resident = 0
        /\ heap'.missed = heap.missed /\ heap'.sampled = heap.sampled
    BY <1>2, <2>1 DEF HeapInv, Heaps
  <2>3. Allocated' = Allocated /\ Extraction!Parsing' = Extraction!Parsing
    BY <2>1 DEF Allocated, Extraction!Parsing
  <2>4. Allocated + heap.resident <= IF heap.sampled THEN HardStop ELSE HardStop + 1
    BY <2>1 DEF HeapInv
  <2>5. Allocated' + heap'.resident <= IF heap'.sampled THEN HardStop ELSE HardStop + 1
    BY <1>1, <1>2, <2>2, <2>3, <2>4
  <2>6. (heap'.garbage = 0 \/ heap'.missed) /\ (~ Extraction!Parsing' => heap'.sampled)
    BY <2>1, <2>2, <2>3 DEF HeapInv
  <2> QED
    BY <2>1, <2>2, <2>5, <2>6 DEF HeapInv, Extraction!HealthyParsed
<1>15. CASE Extraction!Collect
  <2>1. UNCHANGED << turn, parsers >> /\ turn.at # "reclaim" /\ heap' = Extraction!Collected
    BY <1>15 DEF Extraction!Collect
  <2>2. heap' \in Heaps /\ heap'.garbage = 0 /\ heap'.resident = heap.resident
        /\ heap'.sampled = heap.sampled
    BY <1>1, <2>1 DEF HeapInv, Heaps, Extraction!Collected
  <2>3. Allocated' = Allocated /\ Extraction!Parsing' = Extraction!Parsing
    BY <2>1 DEF Allocated, Extraction!Parsing
  <2>4. /\ Allocated' + heap'.resident <= IF heap'.sampled THEN HardStop ELSE HardStop + 1
        /\ ~ Extraction!Parsing' => heap'.sampled
    BY <2>2, <2>3 DEF HeapInv
  <2> QED
    BY <2>1, <2>2, <2>4 DEF HeapInv, Extraction!HealthyParsed
<1> QED
  BY <1>5, <1>6, <1>7, <1>8, <1>9, <1>10, <1>11, <1>12, <1>13, <1>14, <1>15 DEF Extraction!Next

\* A step of the extraction keeps its invariant.
LEMMA TextNext ==
  ASSUME TextInv, [Extraction!Next]_Extraction!vars
  PROVE  TextInv'
<1>1. CASE Extraction!Next
  BY <1>1, FatesStep, TurnStep, HeapStep DEF TextInv
<1>2. CASE UNCHANGED Extraction!vars
  BY <1>2 DEF Extraction!vars, TextInv, FatesInv, Fated, Extraction!DocumentsWhole, Extraction!Kind,
     TurnInv, Extraction!Parsing, Extraction!Growth, HeapInv, Allocated,
              Extraction!HealthyParsed
<1> QED
  BY <1>1, <1>2

\* What the invariant says of the worker and the documents.
LEMMA TextHolds ==
  ASSUME TextInv
  PROVE  /\ Extraction!OneParse /\ Extraction!HeapHolds
         /\ Extraction!HealthyParsed /\ Extraction!DocumentsWhole
<1>1. Extraction!OneParse
  BY DEF TextInv, TurnInv, Extraction!OneParse
<1>2. Extraction!HeapHolds
  <2>1. Extraction!Live = Allocated + heap.resident /\ Extraction!Live \in Nat
    BY HeapUsedIs DEF TextInv
  <2>2. HardStop \in Nat /\ HeapLimit \in Nat /\ HardStop + 1 < HeapLimit
    BY WorkspaceAssumption DEF Extraction!ExtractionAssumption
  <2>3. Extraction!Live <= IF heap.sampled THEN HardStop ELSE HardStop + 1
    BY <2>1 DEF TextInv, HeapInv
  <2>4. Extraction!Live <= HardStop + 1
    BY <2>1, <2>2, <2>3
  <2>5. Extraction!Live < HeapLimit
    BY <2>1, <2>2, <2>4
  <2> QED
    BY <2>5 DEF Extraction!HeapHolds
<1> QED
  BY <1>1, <1>2 DEF TextInv, HeapInv, FatesInv

-----------------------------------------------------------------------------
(* The sides together.                                                       *)

\* No step leaves its side, and each side keeps its own invariant.
SidesInv ==
    /\ side = "processes" => ProcessInv
    /\ side = "accounts" => AccountInv
    /\ side = "messages" => BrowseInv
    /\ side = "message" => ReadInv
    /\ side = "sources" => PagesInv
    /\ side = "extraction" => TextInv

LEMMA InitSides == Init => SidesInv
<1> SUFFICES ASSUME Init PROVE SidesInv
  OBVIOUS
<1>1. side = "processes" => Processes!Init
  BY DEF Init
<1>2. side = "accounts" => Accounts!Init
  BY DEF Init
<1>3. side = "messages" => Browsing!Init
  BY DEF Init
<1>4. side = "message" => Reading!Init
  BY DEF Init
<1>5. Reading!ViewAssumption
  BY WorkspaceAssumption
<1>6. side = "sources" => Listing!Init
  BY DEF Init
<1>7. Listing!PageAssumption
  BY WorkspaceAssumption
<1>8. side = "extraction" => Extraction!Init
  BY DEF Init
<1> QED
  <2>1. /\ side = "processes" => ProcessInv
        /\ side = "accounts" => AccountInv
        /\ side = "messages" => BrowseInv
        /\ side = "message" => ReadInv
    BY <1>1, <1>2, <1>3, <1>4, <1>5, ProcessInit, AccountInit, BrowseInit, ReadInit
  <2>2. /\ side = "sources" => PagesInv
        /\ side = "extraction" => TextInv
    BY <1>6, <1>7, <1>8, PageInit, TextInit DEF PagesInv
  <2> QED
    BY <2>1, <2>2 DEF SidesInv

LEMMA NextSides == SidesInv /\ [Next]_vars => SidesInv'
<1> SUFFICES ASSUME SidesInv, [Next]_vars PROVE SidesInv'
  OBVIOUS
<1>0. CASE UNCHANGED vars
  <2>1. /\ side' = side
        /\ UNCHANGED Processes!vars /\ UNCHANGED Accounts!vars
    BY <1>0 DEF vars, processVars, userVars, Processes!vars, Accounts!vars
  <2>2. UNCHANGED Browsing!vars /\ UNCHANGED Reading!vars
    BY <1>0 DEF vars, listVars, viewVars, Browsing!vars, Reading!vars
  <2>3. Browsing!ListAssumption /\ Reading!ViewAssumption
    BY WorkspaceAssumption
  <2>4. side = "processes" => ProcessInv'
    BY <2>1, ProcessSteps DEF SidesInv
  <2>5. side = "accounts" => AccountInv'
    BY <2>1, AccountSteps DEF SidesInv
  <2>6. side = "messages" => BrowseInv'
    BY <2>2, <2>3, BrowseSteps DEF SidesInv
  <2>7. side = "message" => ReadInv'
    BY <2>2, <2>3, ReadSteps DEF SidesInv
  <2>8. UNCHANGED Listing!vars /\ Listing!PageAssumption
    BY <1>0, WorkspaceAssumption DEF vars, sourceVars, Listing!vars
  <2>9. side = "sources" => PagesInv'
    BY <2>8, PageNext DEF SidesInv
  <2>10. UNCHANGED Extraction!vars
    BY <1>0 DEF vars, extractionVars, Extraction!vars
  <2>11. side = "extraction" => TextInv'
    BY <2>10, TextNext DEF SidesInv
  <2> QED
    BY <2>1, <2>4, <2>5, <2>6, <2>7, <2>9, <2>11 DEF SidesInv
<1>1. CASE ProcessStep
  <2>1. side = "processes" /\ side' = side /\ Processes!Next
    BY <1>1 DEF ProcessStep
  <2> QED
    BY <2>1, ProcessSteps DEF SidesInv
<1>2. CASE UserStep
  <2>1. side = "accounts" /\ side' = side /\ Accounts!Next
    BY <1>2 DEF UserStep
  <2> QED
    BY <2>1, AccountSteps DEF SidesInv
<1>3. CASE BrowseStep
  <2>1. side = "messages" /\ side' = side /\ Browsing!Next /\ Browsing!ListAssumption
    BY <1>3, WorkspaceAssumption DEF BrowseStep
  <2> QED
    BY <2>1, BrowseSteps DEF SidesInv
<1>4. CASE ReadStep
  <2>1. side = "message" /\ side' = side /\ Reading!Next /\ Reading!ViewAssumption
    BY <1>4, WorkspaceAssumption DEF ReadStep
  <2> QED
    BY <2>1, ReadSteps DEF SidesInv
<1>5. CASE SourceStep
  <2>1. side = "sources" /\ side' = side /\ Listing!Next /\ Listing!PageAssumption
    BY <1>5, WorkspaceAssumption DEF SourceStep
  <2> QED
    BY <2>1, PageNext DEF SidesInv
<1>6. CASE ExtractionStep
  <2>1. side = "extraction" /\ side' = side /\ Extraction!Next
    BY <1>6 DEF ExtractionStep
  <2> QED
    BY <2>1, TextNext DEF SidesInv
<1> QED
  BY <1>0, <1>1, <1>2, <1>3, <1>4, <1>5, <1>6 DEF Next

LEMMA SidesHold == Spec => []SidesInv
  BY InitSides, NextSides, PTL DEF Spec

\* However processes start, fail and are told to stop while Redis comes and goes,
\* only a signal ends one for good, the heartbeat tells which worker runs, and
\* schedulers side by side leave one registration of each repeatable job, with
\* its pattern (supervisedWorker, workerHeartbeat, the schedulers).
THEOREM ProcessesHoldAlways == Spec => []ProcessesHold
<1>1. SidesInv => ProcessesHold
  BY ProcessesTell DEF SidesInv, ProcessesHold
<1> QED
  BY <1>1, SidesHold, PTL

\* However the requests of any number of pages and of the users themselves
\* interleave, or fail between two statements: somebody is left, whoever no
\* request crossed has one role, an address of their own and a log that leads to
\* it, and a page that nothing changed under shows the table (UserService, the
\* users page).
THEOREM AccountsHoldAlways == Spec => []AccountsHold
<1>1. SidesInv => AccountsHold
  BY AccountsTell DEF SidesInv, AccountsHold
<1> QED
  BY <1>1, SidesHold, PTL

\* However the user navigates and ticks while a bulk deletion goes on and others
\* delete: just what was confirmed is deleted, what stays selected exists and lies
\* in one merge group; a message's page shows its own preview however its parses
\* end, reports truly, offers what is served, and its deletion leads back to its
\* mailbox (the list of archived messages and the page of one).
THEOREM MessagesHoldAlways == Spec => []MessagesHold
<1>1. SidesInv => MessagesHold
  BY WorkspaceAssumption, BrowseTells, ReadTells DEF SidesInv, MessagesHold
<1> QED
  BY <1>1, SidesHold, PTL

\* However the requests of the page are executed, refused, fail halfway and are
\* answered in any order, while the dialog and the selection move on: merge groups
\* stay flat, and when all is answered the page lists the sources there are, in
\* their groups, and shows a group as paused just when all of it is, unless it met
\* what it is known not to cope with (IngestionService, the page of the sources).
THEOREM PageMirrorsAlways == Spec => []PageMirrors
<1>1. SidesInv => PageMirrors
  BY WorkspaceAssumption, PageMirrorsAll DEF SidesInv, PageMirrors
<1> QED
  BY <1>1, SidesHold, PTL

\* However PDFs hang, grow and end while the rest of the worker takes memory
\* beside them: one parse is at work at a time, the worker never runs out of
\* memory, a healthy PDF is given up only when something else fills the heap, and
\* a document has the text of every attachment that could be read (textExtractor,
\* IndexingService).
THEOREM ExtractionHoldsAlways == Spec => []ExtractionHolds
<1>1. SidesInv => ExtractionHolds
  BY TextHolds DEF SidesInv, ExtractionHolds
<1> QED
  BY <1>1, SidesHold, PTL
=============================================================================
