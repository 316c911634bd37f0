-------------------------- MODULE ApplicationProofs --------------------------
(***************************************************************************)
(* What holds of the process for every agents directory, every number of   *)
(* requests and every counter: the deltas of the system input add up, the  *)
(* rows of the agents fit their tables, and a name that a client was given *)
(* can be queried.                                                         *)
(***************************************************************************)
EXTENDS Application, TLAPS

\* The steps of the system input, and what the process does to it.
SystemAct == SystemStep \/ WriteRow \/ SystemStart \/ SystemStop

\* The fields of the goroutine's record, and of what it keeps of each part.
SwFields == sw = [pc |-> sw.pc, tick |-> sw.tick, stop |-> sw.stop,
                  ticker |-> sw.ticker, kept |-> sw.kept, row |-> sw.row]

KeptFields ==
  /\ sw.kept = [p \in Parts |-> [ok |-> sw.kept[p].ok, last |-> sw.kept[p].last]]
  /\ \A p \in Parts : sw.kept[p].last \in Int

SystemShape ==
  /\ SwFields
  /\ KeptFields
  /\ sw.row \in [Parts -> Int]
  /\ counter \in [Parts -> Int]
  /\ total \in [Parts -> Int]

\* A part that has not been read has reported nothing.
UnreadIsZero == \A p \in Parts :
  ~sw.kept[p].ok => total[p] = 0 /\ sw.row[p] = 0 /\ sw.kept[p].last = 0

\* The delta of a part is in the row only between its reading and the writing.
RowInFlight == /\ sw.row["disk"] # 0 => sw.pc \in {"net", "write", "panic"}
               /\ sw.row["net"] # 0 => sw.pc = "write"

SystemInv == SystemShape /\ UnreadIsZero /\ RowInFlight /\ DeltasAddUp

-----------------------------------------------------------------------------
(* The system input.                                                       *)

LEMMA SystemInitEstablishes == SystemInit => SystemInv
  BY DEF SystemInit, SystemInv, SystemShape, SwFields, KeptFields, UnreadIsZero,
     RowInFlight, DeltasAddUp, Unread, NoDelta, Parts

\* A collection that ends empties the row and touches nothing else that is summed.
LEMMA CollectedEmpties ==
  ASSUME SwFields, Collected
  PROVE  /\ SwFields'
         /\ sw'.kept = sw.kept
         /\ sw'.row = NoDelta
         /\ sw'.pc \in {"select", "panic"}
<1>1. CASE sw' = [sw EXCEPT !.row = NoDelta, !.pc = "select", !.ticker = TRUE]
  BY <1>1 DEF SwFields
<1>2. CASE sw' = [sw EXCEPT !.row = NoDelta, !.pc = "panic"]
  BY <1>2 DEF SwFields
<1> QED
  BY <1>1, <1>2 DEF Collected

\* A reading changes what is kept and the delta of its part.
LEMMA ReadingChanges ==
  ASSUME SystemShape, NEW p \in Parts, NEW v \in Int, NEW pc, Reading(p, v, pc)
  PROVE  /\ SwFields'
         /\ sw'.pc = pc
         /\ sw'.kept = [sw.kept EXCEPT ![p] = [ok |-> TRUE, last |-> v]]
         /\ sw'.row = [sw.row EXCEPT ![p] = IF sw.kept[p].ok THEN v - sw.kept[p].last
                                           ELSE 0]
         /\ total' = [total EXCEPT ![p] = IF sw.kept[p].ok THEN @ ELSE v]
         /\ counter' = counter
  BY DEF SystemShape, SwFields, Reading

\* A part that has no delta in flight is read: its sum moves to the new reading.
LEMMA ReadingPreserves ==
  ASSUME SystemInv, NEW p \in Parts, NEW v \in Int, NEW pc, Reading(p, v, pc),
         sw.row[p] = 0
  PROVE  SystemShape' /\ UnreadIsZero' /\ DeltasAddUp'
<1> USE DEF SystemInv
<1> DEFINE delta == IF sw.kept[p].ok THEN v - sw.kept[p].last ELSE 0
           reading == [ok |-> TRUE, last |-> v]
           sum == IF sw.kept[p].ok THEN total[p] ELSE v
<1>1. /\ SwFields'
      /\ sw'.kept = [sw.kept EXCEPT ![p] = reading]
      /\ sw'.row = [sw.row EXCEPT ![p] = delta]
      /\ total' = [total EXCEPT ![p] = sum]
      /\ counter' = counter
  BY ReadingChanges
<1>2. SystemShape
  OBVIOUS
<1>3. delta \in Int /\ sum \in Int
  BY <1>2 DEF SystemShape, KeptFields
<1>4. sw'.kept[p] = reading /\ sw'.row[p] = delta /\ total'[p] = sum
  <2> HIDE DEF delta, reading, sum
  <2> QED
    BY <1>1, <1>2 DEF SystemShape, KeptFields
<1>5. \A q \in Parts \ {p} : /\ sw'.kept[q] = sw.kept[q]
                             /\ sw'.row[q] = sw.row[q]
                             /\ total'[q] = total[q]
  <2> HIDE DEF delta, reading, sum
  <2> QED
    BY <1>1, <1>2 DEF SystemShape, KeptFields
<1>6. SystemShape'
  <2>1. KeptFields'
    <3>1. \A q \in Parts : /\ sw'.kept[q] = [ok |-> sw'.kept[q].ok,
                                           last |-> sw'.kept[q].last]
                           /\ sw'.kept[q].last \in Int
      BY <1>2, <1>5, <1>4 DEF SystemShape, KeptFields
    <3>2. sw'.kept = [q \in Parts |-> sw'.kept[q]]
      BY <1>1, <1>2 DEF SystemShape, KeptFields
    <3> QED
      BY <3>1, <3>2 DEF KeptFields
  <2>2. sw'.row \in [Parts -> Int] /\ total' \in [Parts -> Int]
    <3> HIDE DEF delta, reading, sum
    <3> QED
      BY <1>1, <1>2, <1>3 DEF SystemShape
  <2> QED
    BY <1>1, <1>2, <2>1, <2>2 DEF SystemShape
<1>7. /\ sw.kept[p].last \in Int
      /\ total[p] \in Int
      /\ total[p] = sw.kept[p].last
  BY DEF SystemShape, DeltasAddUp
<1>8. total'[p] + sw'.row[p] = sw'.kept[p].last
  BY <1>4, <1>7
<1>9. DeltasAddUp'
  BY <1>5, <1>8 DEF DeltasAddUp
<1>10. UnreadIsZero'
  BY <1>5, <1>4 DEF UnreadIsZero
<1> QED
  BY <1>6, <1>9, <1>10

\* One delta is in flight at a time, and every other step leaves the sums alone.
LEMMA SystemPreserves == SystemInv /\ [SystemAct]_systemVars => SystemInv'
<1> SUFFICES ASSUME SystemInv, [SystemAct]_systemVars PROVE SystemInv'
  OBVIOUS
<1> USE DEF SystemInv, SystemShape, SwFields, KeptFields, UnreadIsZero, RowInFlight,
            DeltasAddUp, Parts
<1>1. ASSUME NEW p \in Parts, Count(p) \/ ResetCounter(p) PROVE SystemInv'
  <2>1. counter' \in [Parts -> Int] /\ UNCHANGED <<sw, total>>
    BY <1>1 DEF Count, ResetCounter
  <2> QED
    BY <2>1
<1>2. CASE Tick \/ TakeTick \/ TakeStop
  BY <1>2 DEF Tick, TakeTick, TakeStop, At
<1>3. CASE CollectFails
  <2>1. /\ \A p \in Parts : sw.row[p] = 0
        /\ UNCHANGED <<counter, total>>
        /\ Collected
    BY <1>3 DEF CollectFails
  <2>2. SwFields' /\ sw'.kept = sw.kept /\ sw'.row = NoDelta
    BY <2>1, CollectedEmpties
  <2> QED
    BY <2>1, <2>2 DEF NoDelta
<1>4. CASE CollectBase \/ PartMissing
  BY <1>4 DEF CollectBase, PartMissing, At
<1>5. CASE CollectDisk
  <2>1. CASE Reading("disk", counter["disk"], "net")
    <3>1. sw.row["disk"] = 0 /\ sw.row["net"] = 0 /\ counter["disk"] \in Int
      BY <1>5 DEF CollectDisk, At
    <3>2. SystemShape' /\ UnreadIsZero' /\ DeltasAddUp'
      BY <2>1, <3>1, ReadingPreserves
    <3>3. /\ sw'.pc = "net"
          /\ sw'.row = [sw.row EXCEPT !["disk"] =
                          IF sw.kept["disk"].ok
                          THEN counter["disk"] - sw.kept["disk"].last ELSE 0]
      <4> HIDE DEF SystemInv, SwFields, KeptFields
      <4>1. "disk" \in Parts
        OBVIOUS
      <4> HIDE DEF SystemShape, Parts
      <4>2. SystemShape
        BY DEF SystemInv
      <4> QED
        BY <2>1, <3>1, <4>1, <4>2, ReadingChanges
    <3>4. sw'.row["net"] = 0
      BY <3>1, <3>3
    <3> QED
      BY <3>2, <3>3, <3>4
  <2>2. CASE sw' = [sw EXCEPT !.pc = "net"] /\ UNCHANGED <<counter, total>>
    BY <1>5, <2>2 DEF CollectDisk, At
  <2> QED
    BY <1>5, <2>1, <2>2 DEF CollectDisk
<1>6. CASE CollectNet
  <2>1. PICK v \in {counter["net"], 0} : Reading("net", v, "write")
    BY <1>6 DEF CollectNet
  <2>2. v \in Int /\ sw.row["net"] = 0
    BY <1>6 DEF CollectNet, At
  <2>3. SystemShape' /\ UnreadIsZero' /\ DeltasAddUp'
    BY <2>1, <2>2, ReadingPreserves
  <2>4. sw'.pc = "write"
    BY <2>1, <2>2, ReadingChanges
  <2> QED
    BY <2>3, <2>4
<1>7. CASE WriteRow
  <2>1. /\ counter' = counter
        /\ total' = [p \in Parts |-> total[p] + sw.row[p]]
        /\ Collected
    BY <1>7 DEF WriteRow
  <2>2. SwFields' /\ sw'.kept = sw.kept /\ sw'.row = NoDelta
    BY <2>1, CollectedEmpties
  <2>3. \A p \in Parts : total'[p] = sw.kept[p].last /\ sw'.row[p] = 0
    BY <2>1, <2>2 DEF NoDelta
  <2>4. SystemShape'
    BY <2>1, <2>2 DEF NoDelta
  <2>5. UnreadIsZero' /\ RowInFlight' /\ DeltasAddUp'
    BY <2>2, <2>3
  <2> QED
    BY <2>4, <2>5
<1>8. CASE SystemStart \/ SystemStop
  BY <1>8 DEF SystemStart, SystemStop
<1>9. CASE UNCHANGED systemVars
  BY <1>9 DEF systemVars
<1> QED
  BY <1>1, <1>2, <1>3, <1>4, <1>5, <1>6, <1>7, <1>8, <1>9 DEF SystemAct, SystemStep

-----------------------------------------------------------------------------
(* The process and the system input.                                       *)

\* A step of the process is one of the system input, or leaves it alone.
LEMMA ApplicationIsSystem == [ApplicationNext]_appVars => [SystemAct]_systemVars
<1> SUFFICES ASSUME [ApplicationNext]_appVars PROVE [SystemAct]_systemVars
  OBVIOUS
<1> USE DEF SystemAct
<1>1. CASE MainStep
  <2> USE <1>1 DEF MainStep
  <2>1. ASSUME NEW k \in todo, StartAgent(k) \/ StopAgent(k)
        PROVE  [SystemAct]_systemVars
    BY <2>1 DEF StartAgent, StopAgent
  <2> QED
    BY <2>1 DEF OpenStorage, OpenServer, OpenInput, ReadAgentsDir, InitAgent,
       BeginInsert, EndInsert, AllLoaded, Started, StopNotify, CloseServer, Shutdown,
       CloseStorage, CloseInput
<1>2. CASE StartFails \/ Signal \/ MapRace
  BY <1>2 DEF StartFails, Signal, MapRace
<1>3. ASSUME NEW c \in Clients,
             AskAgents(c) \/ AnswerAgents(c) \/ AskRows(c) \/ AnswerRows(c)
      PROVE  [SystemAct]_systemVars
  BY <1>3 DEF AskAgents, AnswerAgents, AskRows, AnswerRows, Handles
<1>4. ASSUME NEW k \in started, FileRow(k) \/ SystemRow(k)
      PROVE  [SystemAct]_systemVars
  BY <1>4 DEF FileRow, SystemRow
<1>5. CASE SystemRuns
  BY <1>5 DEF SystemRuns
<1>6. CASE UNCHANGED appVars
  BY <1>6 DEF appVars
<1> QED
  BY <1>1, <1>2, <1>3, <1>4, <1>5, <1>6 DEF ApplicationNext

\* For every bound of the counters: what a part reported, from its first reading
\* on, is what it kept last, through failed collections, unreadable counters,
\* restarts of a counter, stops and panics.
THEOREM DeltasSumUp == ApplicationSpec => []DeltasAddUp
<1>1. ApplicationInit => SystemInv
  BY SystemInitEstablishes DEF ApplicationInit
<1>2. SystemInv /\ [ApplicationNext]_appVars => SystemInv'
  BY ApplicationIsSystem, SystemPreserves
<1>3. SystemInv => DeltasAddUp
  BY DEF SystemInv
<1> QED
  BY <1>1, <1>2, <1>3, PTL DEF ApplicationSpec

-----------------------------------------------------------------------------
(* The names that clients are given.                                       *)

\* Every loaded agent has its table, and clients know loaded agents only.
NamesHaveTables ==
  /\ advertised \subseteq DOMAIN agents
  /\ db = "sqlite" => DOMAIN agents \subseteq DOMAIN table
  /\ db = "sqlite" /\ main \in {"insert", "inserting"} => dir[next].name \in DOMAIN table

NoRequest == \A c \in Clients : request[c] = Idle

\* The requests; none before the server listens, none after Shutdown has waited.
Requests ==
  /\ DOMAIN request = Clients
  /\ \A c \in Clients : request[c].at = "db" => request[c].name \in advertised
  /\ srv = "none" => NoRequest

\* The storage is there while there are requests.
StorageServes ==
  /\ db \in {"none", "sqlite", "dummy", "closed"}
  /\ db = "none" => /\ DOMAIN agents = {}
                    /\ srv = "none"
                    /\ main \in {"open_storage", "died"}
  /\ main = "open_storage" => db = "none"
  /\ main \in {"shutdown", "stop_agents", "close_input"} => srv = "closed"
  /\ main = "stop_agents" => timedOut \/ NoRequest
  /\ db = "closed" => /\ main \in {"close_input", "ended", "died"}
                      /\ srv = "closed"
                      /\ timedOut \/ NoRequest

\* Shutdown gives up once, at the end.
GivesUpOnce == timedOut => main \in {"stop_agents", "close_input", "ended", "died"}

QueryInv == NamesHaveTables /\ Requests /\ StorageServes /\ GivesUpOnce /\ QueriesServed

LEMMA QueryInitEstablishes == ApplicationInit => QueryInv
  BY DEF ApplicationInit, QueryInv, NamesHaveTables, Requests, StorageServes, GivesUpOnce,
     QueriesServed, NoRequest, Idle

\* A name that has been put in a function is in its domain, with the others.
LEMMA PutDomain == \A f, k, v : DOMAIN Put(f, k, v) = DOMAIN f \cup {k}
  BY DEF Put

\* A handler changes its own request.
LEMMA HandlerChanges ==
  ASSUME DOMAIN request = Clients, NEW c \in Clients, NEW r, Handles(c, r)
  PROVE  /\ DOMAIN request' = Clients
         /\ request'[c] = r
         /\ \A d \in Clients \ {c} : request'[d] = request[d]
  BY DEF Handles

LEMMA QueryPreserves == QueryInv /\ [ApplicationNext]_appVars => QueryInv'
<1> SUFFICES ASSUME QueryInv, [ApplicationNext]_appVars PROVE QueryInv'
  OBVIOUS
<1> USE DEF QueryInv, NamesHaveTables, Requests, StorageServes, GivesUpOnce,
            QueriesServed, NoRequest, Goes, loadVars, agentVars, storageVars, serverVars
<1>1. CASE StartFails \/ Signal \/ MapRace
  BY <1>1 DEF StartFails, Signal, MapRace
<1>2. CASE OpenStorage
  BY <1>2 DEF OpenStorage
<1>3. CASE OpenServer
  BY <1>3 DEF OpenServer
<1>4. CASE OpenInput \/ ReadAgentsDir
  BY <1>4 DEF OpenInput, ReadAgentsDir
<1>5. CASE InitAgent
  <2>1. /\ main' = "insert"
        /\ DOMAIN table \subseteq DOMAIN table'
        /\ db # "dummy" => dir'[next'].name \in DOMAIN table'
    <3> DEFINE t == [columns |-> Columns(AgentFields(next)),
                     indexes |-> {f.name : f \in {g \in AgentFields(next) : g.index}}]
    <3>1. /\ main' = "insert" /\ UNCHANGED <<dir, next>>
          /\ table' = IF db = "dummy" THEN table ELSE Put(table, dir[next].name, t)
      BY <1>5 DEF InitAgent
    <3> HIDE DEF t
    <3>2. DOMAIN Put(table, dir[next].name, t) = DOMAIN table \cup {dir[next].name}
      BY DEF Put
    <3>3. CASE db = "dummy"
      BY <3>1, <3>3
    <3>4. CASE db # "dummy"
      BY <3>1, <3>2, <3>4
    <3> QED
      BY <3>3, <3>4
  <2> QED
    BY <1>5, <2>1 DEF InitAgent
<1>6. CASE BeginInsert \/ AllLoaded \/ Started
  BY <1>6 DEF BeginInsert, AllLoaded, Started
<1>7. CASE EndInsert
  <2>1. DOMAIN agents' = DOMAIN agents \cup {dir[next].name}
    BY <1>7, PutDomain DEF EndInsert
  <2> QED
    BY <1>7, <2>1 DEF EndInsert
<1>8. ASSUME NEW k \in todo, StartAgent(k) \/ StopAgent(k) PROVE QueryInv'
  BY <1>8 DEF StartAgent, StopAgent
<1>9. CASE StopNotify \/ CloseServer \/ CloseInput
  BY <1>9 DEF StopNotify, CloseServer, CloseInput
<1>10. CASE Shutdown
  BY <1>10 DEF Shutdown, Handling
<1>11. CASE CloseStorage
  BY <1>11 DEF CloseStorage
<1>12. ASSUME NEW c \in Clients, AskAgents(c) PROVE QueryInv'
  <2>1. Handles(c, [at |-> "map", name |-> "none"])
    BY <1>12 DEF AskAgents
  <2>2. /\ DOMAIN request' = Clients
        /\ request'[c] = [at |-> "map", name |-> "none"]
        /\ \A d \in Clients \ {c} : request'[d] = request[d]
    BY <2>1, HandlerChanges
  <2>3. UNCHANGED <<dir, main, next, agents, table, db, srv, timedOut>>
    BY <2>1 DEF Handles
  <2>4. Requests'
    BY <1>12, <2>2, <2>3 DEF AskAgents, Idle
  <2>5. NamesHaveTables' /\ GivesUpOnce'
    BY <1>12, <2>3 DEF AskAgents
  <2>6. main # "stop_agents" /\ db \notin {"none", "closed"}
    <3>1. srv = "open"
      BY <1>12 DEF AskAgents
    <3> QED
      BY <3>1
  <2>7. StorageServes'
    <3> HIDE DEF NoRequest
    <3> QED
      BY <2>3, <2>6
  <2>8. QueriesServed'
    BY <1>12, <2>3 DEF AskAgents, Served, Idle
  <2> QED
    BY <2>4, <2>5, <2>7, <2>8
<1>13. ASSUME NEW c \in Clients, AnswerAgents(c) PROVE QueryInv'
  <2>1. Handles(c, Idle)
    BY <1>13 DEF AnswerAgents
  <2>2. /\ DOMAIN request' = Clients
        /\ request'[c] = Idle
        /\ \A d \in Clients \ {c} : request'[d] = request[d]
    BY <2>1, HandlerChanges
  <2> QED
    BY <1>13, <2>1, <2>2 DEF AnswerAgents, Handles, Idle
<1>14. ASSUME NEW c \in Clients, AskRows(c) PROVE QueryInv'
  <2>1. PICK n \in advertised : Handles(c, [at |-> "db", name |-> n])
    BY <1>14 DEF AskRows
  <2>2. /\ DOMAIN request' = Clients
        /\ request'[c] = [at |-> "db", name |-> n]
        /\ \A d \in Clients \ {c} : request'[d] = request[d]
    BY <2>1, HandlerChanges
  <2>3. UNCHANGED <<dir, main, next, agents, table, db, srv, timedOut>>
    BY <2>1 DEF Handles
  <2>4. Requests'
    BY <1>14, <2>2, <2>3 DEF AskRows, Idle
  <2>5. NamesHaveTables' /\ GivesUpOnce'
    BY <1>14, <2>3 DEF AskRows
  <2>6. main # "stop_agents" /\ db \notin {"none", "closed"}
    <3>1. srv = "open"
      BY <1>14 DEF AskRows
    <3> QED
      BY <3>1
  <2>7. StorageServes'
    <3> HIDE DEF NoRequest
    <3> QED
      BY <2>3, <2>6
  <2>8. QueriesServed'
    BY <1>14, <2>3 DEF AskRows, Served, Idle
  <2> QED
    BY <2>4, <2>5, <2>7, <2>8
<1>15. ASSUME NEW c \in Clients, AnswerRows(c) PROVE QueryInv'
  <2>1. Handles(c, Idle)
    BY <1>15 DEF AnswerRows
  <2>2. /\ DOMAIN request' = Clients
        /\ request'[c] = Idle
        /\ \A d \in Clients \ {c} : request'[d] = request[d]
    BY <2>1, HandlerChanges
  <2>3. UNCHANGED <<dir, main, next, agents, table, db, srv, timedOut>>
    BY <2>1 DEF Handles
  <2>4. Requests'
    BY <1>15, <2>2, <2>3 DEF AnswerRows, Idle
  <2>5. NamesHaveTables' /\ GivesUpOnce'
    BY <1>15, <2>3 DEF AnswerRows
  <2>6. StorageServes'
    BY <1>15, <2>2, <2>3 DEF AnswerRows, Idle
  <2>7. Served(request[c].name) \/ timedOut
    <3>1. request[c] # Idle /\ request[c].name \in advertised
      BY <1>15 DEF AnswerRows, Idle
    <3> QED
      BY <3>1 DEF Served
  <2>8. failed' = (failed \/ ~Served(request[c].name))
    BY <1>15 DEF AnswerRows
  <2>9. QueriesServed'
    BY <2>3, <2>7, <2>8, Zenon
  <2> QED
    BY <2>4, <2>5, <2>6, <2>9
<1>16. ASSUME NEW k \in started, FileRow(k) \/ SystemRow(k) PROVE QueryInv'
  BY <1>16 DEF FileRow, SystemRow, RowWritten, DiesOfPanic
<1>17. CASE SystemRuns
  BY <1>17 DEF SystemRuns, DiesOfPanic
<1>18. CASE UNCHANGED appVars
  BY <1>18 DEF appVars
<1> QED
  BY <1>1, <1>2, <1>5, <1>6, <1>7, <1>8, <1>9, <1>10, <1>11, <1>12, <1>13, <1>14, <1>15,
     <1>16, <1>17, <1>18, <1>3, <1>4 DEF ApplicationNext, MainStep

\* For every directory and every number of requests: a name that a client was
\* given can be queried, until Shutdown has given up waiting.
THEOREM NamesCanBeQueried == ApplicationSpec => []QueriesServed
<1>1. QueryInv => QueriesServed
  BY DEF QueryInv
<1> QED
  BY QueryInitEstablishes, QueryPreserves, <1>1, PTL DEF ApplicationSpec

-----------------------------------------------------------------------------
(* The rows and the tables.                                                *)

AgentColumns(k) == Columns(AgentFields(k))

\* A row is written only by a system input with both parts.
PartsRead == /\ sysConf \subseteq Parts
             /\ sw.pc \in {"net", "write"} => "disk" \in sysConf
             /\ sw.pc = "write" => "net" \in sysConf

Loading == main \in {"open_storage", "open_server", "open_input", "read_dir", "load",
                     "insert", "inserting"}

\* The agents are under the names of their files; those that start, or have been
\* started, are the ones of the map.
AgentsNamed ==
  /\ main = "open_storage" => DOMAIN agents = {}
  /\ \A n \in DOMAIN agents : dir[agents[n]].name = n
  /\ \A k \in started : /\ dir[k].name \in DOMAIN agents
                        /\ agents[dir[k].name] = k
  /\ main = "start_agents" => \A k \in todo : /\ dir[k].name \in DOMAIN agents
                                              /\ agents[dir[k].name] = k

\* No agent runs while the tables change.
NoneRunsWhileLoading == Loading => started = {}

HasTable(n, k) == n \in DOMAIN table /\ table[n].columns = AgentColumns(k)

\* The table of a loaded agent has its columns, except that of the name being
\* loaded, which has the columns of the file that is about to replace it.
TablesFit ==
  db = "sqlite" /\ main # "died" =>
    /\ \A n \in DOMAIN agents :
         ~(main \in {"insert", "inserting"} /\ n = dir[next].name)
           => HasTable(n, agents[n])
    /\ main \in {"insert", "inserting"} => HasTable(dir[next].name, next)

FitInv == PartsRead /\ AgentsNamed /\ NoneRunsWhileLoading /\ TablesFit /\ WritesFitTable

LEMMA FitInitEstablishes == ApplicationInit => FitInv
  BY DEF ApplicationInit, SystemInit, FitInv, PartsRead, AgentsNamed,
     NoneRunsWhileLoading, TablesFit, WritesFitTable, Parts

LEMMA PartsReadPreserved ==
  SystemShape /\ PartsRead /\ [SystemAct]_systemVars => PartsRead' /\ UNCHANGED sysConf
<1> SUFFICES ASSUME SystemShape, PartsRead, [SystemAct]_systemVars
             PROVE  PartsRead' /\ UNCHANGED sysConf
  OBVIOUS
<1> USE DEF PartsRead
<1>1. ASSUME NEW p \in Parts, Count(p) \/ ResetCounter(p)
      PROVE  PartsRead' /\ UNCHANGED sysConf
  BY <1>1 DEF Count, ResetCounter
<1>2. CASE Tick \/ TakeTick \/ TakeStop \/ CollectBase \/ PartMissing
  BY <1>2 DEF Tick, TakeTick, TakeStop, CollectBase, PartMissing, At, SystemShape, SwFields
<1>3. CASE CollectFails
  BY <1>3, CollectedEmpties DEF CollectFails, SystemShape
<1>4. CASE CollectDisk \/ CollectNet
  BY <1>4 DEF CollectDisk, CollectNet, Reading, At, SystemShape, SwFields
<1>5. CASE WriteRow
  BY <1>5, CollectedEmpties DEF WriteRow, At, SystemShape
<1>6. CASE SystemStart \/ SystemStop
  BY <1>6 DEF SystemStart, SystemStop, SystemShape, SwFields
<1>7. CASE UNCHANGED systemVars
  BY <1>7 DEF systemVars
<1> QED
  BY <1>1, <1>2, <1>3, <1>4, <1>5, <1>6, <1>7 DEF SystemAct, SystemStep

\* The rows of a started agent have the columns of its table, or the agent is one
\* whose configuration overrules the fields of the system input.
LEMMA RowFits ==
  ASSUME FitInv, Up, NEW k \in started
  PROVE  /\ Fits(k, AgentColumns(k))
         /\ dir[k].system /\ sw.pc = "write" /\ dir[k].fields = {} => Fits(k, RowFields)
<1> USE DEF FitInv
<1>1. Fits(k, AgentColumns(k))
  <2>1. ~Loading /\ main # "died" /\ agents[dir[k].name] = k /\ dir[k].name \in DOMAIN agents
    BY DEF NoneRunsWhileLoading, AgentsNamed, Up, Over
  <2>2. db = "sqlite" => table[dir[k].name].columns = AgentColumns(k)
    BY <2>1 DEF TablesFit, HasTable, Loading
  <2> QED
    BY <2>2 DEF Fits
<1>2. ASSUME dir[k].system, sw.pc = "write", dir[k].fields = {}
      PROVE  RowFields \subseteq AgentColumns(k)
  <2>1. RowFields \subseteq SystemFields
    BY <1>2 DEF RowFields, SystemFields, PartsRead, Parts
  <2>2. AgentColumns(k) = SystemFields
    <3>1. AgentFields(k) = {[name |-> n, index |-> FALSE] : n \in SystemFields}
      BY <1>2 DEF AgentFields
    <3>2. ASSUME NEW n \in SystemFields PROVE \E f \in AgentFields(k) : f.name = n
      <4>1. [name |-> n, index |-> FALSE] \in AgentFields(k)
        BY <3>1
      <4> QED
        BY <4>1
    <3>3. \A f \in AgentFields(k) : f.name \in SystemFields
      BY <3>1
    <3> QED
      BY <3>2, <3>3 DEF AgentColumns, Columns
  <2> QED
    BY <2>1, <2>2
<1> QED
  BY <1>1, <1>2 DEF Fits

\* The fields of the files do not change.
LEMMA ColumnsStay == ASSUME UNCHANGED <<dir, sysConf>>
                     PROVE  \A k : AgentColumns(k)' = AgentColumns(k)
  BY DEF AgentColumns, AgentFields, SystemFields

\* The main goroutine stays, ends, or goes on outside the loop of loadAgents.
QuietMove ==
  \/ main' \in {main, "died"}
  \/ main = "insert" /\ main' = "inserting"
  \/ /\ main \notin {"insert", "inserting", "died"}
     /\ main' \notin {"open_storage", "insert", "inserting", "start_agents"}
     /\ Loading' => Loading

\* Such a step that changes no map and no table keeps the rows and the tables as
\* they are.
LEMMA QuietStepsFit ==
  ASSUME FitInv, PartsRead', QuietMove,
         UNCHANGED <<dir, sysConf, next, agents, table, started, rows>>,
         db' # "sqlite" \/ db' = db, todo' \subseteq todo \/ main' # "start_agents"
  PROVE  FitInv'
<1> USE DEF FitInv
<1>1. AgentsNamed'
  BY DEF AgentsNamed, QuietMove
<1>2. NoneRunsWhileLoading'
  BY DEF NoneRunsWhileLoading, QuietMove, Loading
<1>3. TablesFit'
  <2>1. \A n, k : HasTable(n, k)' = HasTable(n, k)
    BY ColumnsStay DEF HasTable
  <2>2. \A n \in DOMAIN agents : HasTable(n, agents[n])' = HasTable(n, agents[n])
    BY <2>1
  <2> HIDE DEF FitInv
  <2>3. TablesFit
    BY DEF FitInv
  <2> QED
    BY <2>1, <2>2, <2>3 DEF TablesFit, QuietMove
<1>4. WritesFitTable'
  BY DEF WritesFitTable
<1> QED
  BY <1>1, <1>2, <1>3, <1>4

\* A row that fits, or one that a configuration allows, keeps WritesFitTable.
LEMMA RowKeepsFit ==
  ASSUME WritesFitTable, UNCHANGED dir, NEW k, NEW fits,
         rows' = rows \cup {<<k, fits>>}, fits \/ (dir[k].system /\ dir[k].fields # {})
  PROVE  WritesFitTable'
<1> DEFINE row == <<k, fits>>
<1>1. row[1] = k /\ (row[2] <=> fits)
  BY Zenon
<1>2. row[2] \/ (dir[row[1]].system /\ dir[row[1]].fields # {})
  BY <1>1, Zenon
<1> HIDE DEF row
<1> QED
  BY <1>2, Zenon DEF WritesFitTable, row

LEMMA FitPreserves == SystemInv /\ FitInv /\ [ApplicationNext]_appVars => FitInv'
<1> SUFFICES ASSUME SystemInv, FitInv, [ApplicationNext]_appVars PROVE FitInv'
  OBVIOUS
<1>1. PartsRead' /\ UNCHANGED sysConf
  BY ApplicationIsSystem, PartsReadPreserved DEF SystemInv, FitInv
<1> USE DEF Goes, loadVars, agentVars, storageVars, serverVars
<1>2. CASE StartFails \/ Signal \/ MapRace
  <2>1. QuietMove
    BY <1>2 DEF StartFails, Signal, MapRace, QuietMove, Loading, Up, Over
  <2> QED
    BY <1>1, <1>2, <2>1, QuietStepsFit DEF StartFails, Signal, MapRace
<1>3. CASE OpenStorage
  BY <1>1, <1>3 DEF OpenStorage, FitInv, AgentsNamed, NoneRunsWhileLoading, Loading,
     TablesFit, WritesFitTable
<1>4. CASE OpenServer \/ OpenInput \/ ReadAgentsDir
  <2>1. QuietMove
    BY <1>4 DEF OpenServer, OpenInput, ReadAgentsDir, QuietMove, Loading
  <2> QED
    BY <1>1, <1>4, <2>1, QuietStepsFit DEF OpenServer, OpenInput, ReadAgentsDir
<1>5. CASE InitAgent
  <2> DEFINE new == dir[next].name
             t == [columns |-> AgentColumns(next),
                   indexes |-> {f.name : f \in {g \in AgentFields(next) : g.index}}]
  <2>1. /\ main = "load" /\ main' = "insert"
        /\ UNCHANGED <<dir, next, agents, todo, started, rows, db>>
        /\ table' = IF db = "dummy" THEN table ELSE Put(table, new, t)
    BY <1>5 DEF InitAgent, AgentColumns
  <2>2. t.columns = AgentColumns(next)
    OBVIOUS
  <2>3. \A k : AgentColumns(k)' = AgentColumns(k)
    BY <1>1, <2>1, ColumnsStay
  <2> HIDE DEF t
  <2>4. TablesFit'
    <3> SUFFICES ASSUME db = "sqlite" PROVE TablesFit'
      BY <2>1 DEF TablesFit
    <3>1. table' = Put(table, new, t)
      BY <2>1
    <3>2. HasTable(new, next)'
      BY <2>1, <2>2, <2>3, <3>1 DEF HasTable, Put
    <3>3. ASSUME NEW n \in DOMAIN agents, n # new PROVE HasTable(n, agents[n])'
      <4>1. HasTable(n, agents[n])
        BY <2>1, <3>3 DEF FitInv, TablesFit
      <4> QED
        BY <2>1, <2>3, <3>1, <3>3, <4>1 DEF HasTable, Put
    <3> QED
      BY <2>1, <3>2, <3>3 DEF TablesFit
  <2> QED
    BY <1>1, <2>1, <2>4 DEF FitInv, AgentsNamed, NoneRunsWhileLoading, Loading,
       WritesFitTable
<1>6. CASE BeginInsert
  <2>1. QuietMove
    BY <1>6 DEF BeginInsert, QuietMove
  <2> QED
    BY <1>1, <1>6, <2>1, QuietStepsFit DEF BeginInsert
<1>7. CASE EndInsert
  <2> DEFINE new == dir[next].name
  <2>1. /\ main = "inserting" /\ main' = "load"
        /\ UNCHANGED <<dir, table, started, rows, db>>
        /\ agents' = Put(agents, new, next)
    BY <1>7 DEF EndInsert
  <2>2. started = {}
    BY <2>1 DEF FitInv, NoneRunsWhileLoading, Loading
  <2>3. /\ DOMAIN agents' = DOMAIN agents \cup {new}
        /\ agents'[new] = next
        /\ \A n \in DOMAIN agents \ {new} : agents'[n] = agents[n]
    BY <2>1 DEF Put
  <2>4. AgentsNamed'
    BY <2>1, <2>2, <2>3 DEF FitInv, AgentsNamed
  <2>5. TablesFit'
    <3>1. \A n, k : HasTable(n, k) => n \in DOMAIN table' /\ table'[n].columns = AgentColumns(k)
      BY <2>1 DEF HasTable
    <3>2. \A k : AgentColumns(k)' = AgentColumns(k)
      BY <1>1, <2>1, ColumnsStay
    <3>3. ASSUME db = "sqlite", NEW n \in DOMAIN agents' PROVE HasTable(n, agents'[n])
      BY <2>1, <2>3, <3>3 DEF FitInv, TablesFit
    <3>4. ASSUME db = "sqlite", NEW n \in DOMAIN agents' PROVE HasTable(n, agents[n])'
      BY <3>1, <3>2, <3>3, <3>4 DEF HasTable
    <3> QED
      BY <2>1, <3>4 DEF TablesFit
  <2> QED
    BY <1>1, <2>1, <2>2, <2>4, <2>5 DEF FitInv, NoneRunsWhileLoading, WritesFitTable
<1>8. CASE AllLoaded
  <2>1. /\ main = "load" /\ main' = "start_agents"
        /\ todo' = {agents[n] : n \in DOMAIN agents}
        /\ UNCHANGED <<dir, next, agents, table, started, rows, db>>
    BY <1>8 DEF AllLoaded, Range
  <2>2. AgentsNamed'
    BY <2>1 DEF FitInv, AgentsNamed
  <2>3. TablesFit'
    <3>1. \A n, k : HasTable(n, k)' = HasTable(n, k)
      BY <1>1, <2>1, ColumnsStay DEF HasTable
    <3> QED
      BY <2>1, <3>1 DEF FitInv, TablesFit
  <2> QED
    BY <1>1, <2>1, <2>2, <2>3 DEF FitInv, NoneRunsWhileLoading, Loading, WritesFitTable
<1>9. ASSUME NEW k \in todo, StartAgent(k) PROVE FitInv'
  <2>1. /\ main = "start_agents" /\ main' = "start_agents"
        /\ todo' = todo \ {k} /\ started' = started \cup {k}
        /\ UNCHANGED <<dir, next, agents, table, rows, db>>
    BY <1>9 DEF StartAgent
  <2>2. AgentsNamed'
    BY <2>1 DEF FitInv, AgentsNamed
  <2>3. TablesFit'
    <3>1. \A n, j : HasTable(n, j)' = HasTable(n, j)
      BY <1>1, <2>1, ColumnsStay DEF HasTable
    <3> QED
      BY <2>1, <3>1 DEF FitInv, TablesFit
  <2> QED
    BY <1>1, <2>1, <2>2, <2>3 DEF FitInv, NoneRunsWhileLoading, Loading, WritesFitTable
<1>10. CASE Started \/ StopNotify \/ CloseServer \/ Shutdown \/ CloseStorage \/ CloseInput
  <2>1. QuietMove
    BY <1>10 DEF Started, StopNotify, CloseServer, Shutdown, CloseStorage, CloseInput,
       QuietMove, Loading
  <2>2. main' # "start_agents" /\ (db' = db \/ db' # "sqlite")
    BY <1>10 DEF Started, StopNotify, CloseServer, Shutdown, CloseStorage, CloseInput
  <2> QED
    BY <1>1, <1>10, <2>1, <2>2, QuietStepsFit DEF Started, StopNotify, CloseServer,
       Shutdown, CloseStorage, CloseInput
<1>11. ASSUME NEW k \in todo, StopAgent(k) PROVE FitInv'
  <2>1. QuietMove
    BY <1>11 DEF StopAgent, QuietMove
  <2> QED
    BY <1>1, <1>11, <2>1, QuietStepsFit DEF StopAgent
<1>12. ASSUME NEW c \in Clients,
              AskAgents(c) \/ AnswerAgents(c) \/ AskRows(c) \/ AnswerRows(c)
       PROVE  FitInv'
  <2>1. UNCHANGED <<dir, main, next, agents, table, todo, started, rows, db>>
    BY <1>12 DEF AskAgents, AnswerAgents, AskRows, AnswerRows, Handles
  <2> QED
    BY <1>1, <2>1, QuietStepsFit DEF QuietMove
<1>13. ASSUME NEW k \in started, FileRow(k) \/ SystemRow(k) PROVE FitInv'
  <2>1. /\ Up
        /\ UNCHANGED <<dir, next, agents, table, todo, started, db>>
        /\ main' \in {main, "died"}
    BY <1>13 DEF FileRow, SystemRow, RowWritten, DiesOfPanic
  <2>2. PICK fits : /\ rows' = rows \cup {<<k, fits>>}
                    /\ fits \/ (dir[k].system /\ dir[k].fields # {})
    <3>1. CASE FileRow(k)
      <4>1. rows' = rows \cup {<<k, Fits(k, AgentColumns(k))>>}
        BY <3>1 DEF FileRow, RowWritten, AgentColumns
      <4>2. Fits(k, AgentColumns(k))
        BY <2>1, RowFits
      <4> QED
        BY <4>1, <4>2, Zenon
    <3>2. CASE SystemRow(k)
      <4>1. /\ rows' = rows \cup {<<k, Fits(k, RowFields)>>}
            /\ dir[k].system /\ sw.pc = "write"
        BY <3>2 DEF SystemRow, RowWritten, WriteRow, At
      <4>2. Fits(k, RowFields) \/ dir[k].fields # {}
        BY <2>1, <4>1, RowFits
      <4> QED
        BY <4>1, <4>2, Zenon
    <3> QED
      BY <1>13, <3>1, <3>2
  <2>3. WritesFitTable'
    BY <2>1, <2>2, RowKeepsFit DEF FitInv
  <2>4. TablesFit'
    <3>1. \A n, j : HasTable(n, j)' = HasTable(n, j)
      BY <1>1, <2>1, ColumnsStay DEF HasTable
    <3> QED
      BY <2>1, <3>1 DEF FitInv, TablesFit
  <2> QED
    BY <1>1, <2>1, <2>3, <2>4 DEF FitInv, AgentsNamed, NoneRunsWhileLoading, Loading
<1>14. CASE SystemRuns
  <2>1. QuietMove
    BY <1>14 DEF SystemRuns, DiesOfPanic, QuietMove
  <2> QED
    BY <1>1, <1>14, <2>1, QuietStepsFit DEF SystemRuns
<1>15. CASE UNCHANGED appVars
  BY <1>1, <1>15, QuietStepsFit DEF appVars, QuietMove
<1> QED
  BY <1>2, <1>3, <1>4, <1>5, <1>6, <1>7, <1>8, <1>9, <1>10, <1>11, <1>12, <1>13, <1>14,
     <1>15 DEF ApplicationNext, MainStep

\* For every agents directory, also with several files of one name: an agent's rows
\* fit its table, unless its configuration overrules the system input's fields.
THEOREM RowsFitTables == ApplicationSpec => []WritesFitTable
<1>1. ApplicationInit => SystemInv /\ FitInv
  BY SystemInitEstablishes, FitInitEstablishes DEF ApplicationInit
<1>2. SystemInv /\ FitInv /\ [ApplicationNext]_appVars => (SystemInv /\ FitInv)'
  BY ApplicationIsSystem, SystemPreserves, FitPreserves
<1>3. FitInv => WritesFitTable
  BY DEF FitInv
<1> QED
  BY <1>1, <1>2, <1>3, PTL DEF ApplicationSpec
=============================================================================
