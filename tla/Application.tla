----------------------------- MODULE Application -----------------------------
(***************************************************************************)
(* The life of the process: start opens the storage, the server and the    *)
(* file input, loads the agents while the server already answers, and      *)
(* starts them; after a signal, stop closes the server, stops the agents   *)
(* and closes the rest, in that order.  Requests run beside all of it.     *)
(*                                                                         *)
(* The agents are files of the agents directory, in its order; two files   *)
(* may have one name (a.yaml, a.yml).  An agent is reduced to its columns  *)
(* and to the rows it writes (Watcher, Tail and SystemWatcher have the     *)
(* rest), a table to its columns and indexes.                              *)
(***************************************************************************)
EXTENDS SystemWatcher, Sequences, FiniteSets, Functions

CONSTANTS
  Dirs,         \* agents directories: sequences of [name, fields, system], the
                \* fields a set of [name, index]
  Clients,      \* requests at once
  MaxSignals    \* bound on the signals

ASSUME ApplicationAssumption == MaxSignals \in Nat

VARIABLES
  dir,         \* the agents directory
  main,        \* place of the main goroutine
  next,        \* the file being loaded
  todo,        \* agents still to be started, or stopped
  agents,      \* appInstance.agents: the file of each name
  started,     \* files whose agents have been started
  db,          \* the storage: "none", "sqlite", "dummy", "closed"
  table,       \* the tables: their columns and indexes
  srv,         \* the listener: "none", "open", "closed"
  request,     \* the requests being handled
  signals,     \* signals so far
  advertised,  \* history: the names answered to a client
  rows,        \* history: agents that wrote, and whether the row fits its table
  failed,      \* history: a query for an advertised name has failed
  timedOut     \* history: Shutdown has timed out

loadVars == <<next, agents, table>>
agentVars == <<todo, started, rows>>
storageVars == <<db>>
serverVars == <<srv, request, advertised, failed>>
appVars == <<dir, main, loadVars, agentVars, storageVars, serverVars, signals,
             timedOut, systemVars>>

Names == {dir[k].name : k \in DOMAIN dir}

Idle == [at |-> "idle", name |-> "none"]

ApplicationInit ==
  /\ SystemInit
  /\ dir \in Dirs
  /\ main = "open_storage"
  /\ next = 1
  /\ todo = {}
  /\ agents = <<>>
  /\ started = {}
  /\ db = "none"
  /\ table = <<>>
  /\ srv = "none"
  /\ request = [c \in Clients |-> Idle]
  /\ signals = 0
  /\ advertised = {}
  /\ rows = {}
  /\ failed = FALSE
  /\ timedOut = FALSE

Over == {"ended", "died"}
Up == main \notin Over

Goes(from, to) == main = from /\ main' = to /\ UNCHANGED <<dir, signals>>

\* f with k set to v.
Put(f, k, v) == [x \in DOMAIN f \cup {k} |-> IF x = k THEN v ELSE f[x]]

-----------------------------------------------------------------------------
(* appInstance.start.                                                      *)

\* An error of a step of start: log.Fatalln, without stop.
StartFails == /\ main \in {"open_storage", "open_server", "open_input", "read_dir", "load"}
              /\ main' = "died"
              /\ UNCHANGED <<dir, signals, loadVars, agentVars, storageVars, serverVars,
                             timedOut, systemVars>>

\* StorageConfig.Open: SQLite, or the driver that does nothing.
OpenStorage == /\ Goes("open_storage", "open_server")
               /\ db' \in {"sqlite", "dummy"}
               /\ UNCHANGED <<loadVars, agentVars, serverVars, timedOut, systemVars>>

OpenServer == /\ Goes("open_server", "open_input")
              /\ srv' = "open"
              /\ UNCHANGED <<loadVars, agentVars, storageVars, request, advertised,
                             failed, timedOut, systemVars>>

OpenInput == /\ Goes("open_input", "read_dir")
             /\ UNCHANGED <<loadVars, agentVars, storageVars, serverVars, timedOut,
                            systemVars>>

ReadAgentsDir == /\ Goes("read_dir", "load")
                 /\ UNCHANGED <<loadVars, agentVars, storageVars, serverVars, timedOut,
                                systemVars>>

\* Field.Clone leaves the index out.
Clone(f) == [name |-> f.name, index |-> FALSE]

\* The fields of an agent after Init.
AgentFields(k) ==
  IF dir[k].fields # {} THEN {Clone(f) : f \in dir[k].fields}
  ELSE {[name |-> n, index |-> FALSE] : n \in IF dir[k].system THEN SystemFields ELSE {}}

Columns(fields) == {f.name : f \in fields}

\* Agent.Init of the next file, and Migrate (statement by statement in Migrate).
InitAgent ==
  LET fields == AgentFields(next)
  IN /\ next <= Len(dir)
     /\ "time" \in Columns(fields)
     /\ Goes("load", "insert")
     /\ table' = IF db = "dummy" THEN table
                 ELSE Put(table, dir[next].name,
                          [columns |-> Columns(fields),
                           indexes |-> {f.name : f \in {g \in fields : g.index}}])
     /\ UNCHANGED <<next, agents, agentVars, storageVars, serverVars, timedOut,
                    systemVars>>

\* The assignment to the map, which is not guarded: it has a begin and an end.
BeginInsert == /\ Goes("insert", "inserting")
               /\ UNCHANGED <<loadVars, agentVars, storageVars, serverVars, timedOut,
                              systemVars>>

\* Mutant: the agent is started as soon as it is loaded.
EndInsert_Starts == /\ Goes("inserting", "load")
                    /\ agents' = Put(agents, dir[next].name, next)
                    /\ started' = started \cup {next}
                    /\ next' = next + 1
                    /\ UNCHANGED <<table, todo, rows, storageVars, serverVars, timedOut,
                                   systemVars>>

EndInsert == /\ Goes("inserting", "load")
             /\ agents' = Put(agents, dir[next].name, next)
             /\ next' = next + 1
             /\ UNCHANGED <<table, agentVars, storageVars, serverVars, timedOut,
                            systemVars>>

AllLoaded == /\ next > Len(dir)
             /\ Goes("load", "start_agents")
             /\ todo' = Range(agents)
             /\ UNCHANGED <<loadVars, started, rows, storageVars, serverVars, timedOut,
                            systemVars>>

\* Agent.Start, in the order of the map's iteration.
StartAgent(k) == /\ Goes("start_agents", "start_agents")
                 /\ k \in todo
                 /\ todo' = todo \ {k}
                 /\ started' = started \cup {k}
                 /\ IF dir[k].system THEN SystemStart ELSE UNCHANGED systemVars
                 /\ UNCHANGED <<loadVars, rows, storageVars, serverVars, timedOut>>

Started == /\ todo = {}
           /\ Goes("start_agents", "run")
           /\ UNCHANGED <<loadVars, agentVars, storageVars, serverVars, timedOut,
                          systemVars>>

-----------------------------------------------------------------------------
(* Signals and appInstance.stop.                                           *)

\* A signal is caught between NotifyContext and the deferred call that undoes
\* it, which comes before stop; at any other time it ends the process.
Signal == /\ Up
          /\ signals < MaxSignals
          /\ signals' = signals + 1
          /\ main' = IF main \in {"run", "signalled"} THEN "signalled" ELSE "died"
          /\ UNCHANGED <<dir, loadVars, agentVars, storageVars, serverVars, timedOut,
                         systemVars>>

StopNotify == /\ Goes("signalled", "close_server")
              /\ UNCHANGED <<loadVars, agentVars, storageVars, serverVars, timedOut,
                             systemVars>>

CloseServer == /\ Goes("close_server", "shutdown")
               /\ srv' = "closed"
               /\ UNCHANGED <<loadVars, agentVars, storageVars, request, advertised,
                              failed, timedOut, systemVars>>

Handling == {c \in Clients : request[c] # Idle}

\* Mutant: Close does not wait for the requests.
Shutdown_AtOnce == /\ Goes("shutdown", "stop_agents")
                   /\ todo' = Range(agents)
                   /\ UNCHANGED <<loadVars, started, rows, storageVars, serverVars,
                                  timedOut, systemVars>>

\* Mutant: Close waits for them without a limit.
Shutdown_Waits == /\ Handling = {}
                  /\ Goes("shutdown", "stop_agents")
                  /\ todo' = Range(agents)
                  /\ UNCHANGED <<loadVars, started, rows, storageVars, serverVars,
                                 timedOut, systemVars>>

\* Shutdown returns when no request is being handled, or after a second.
Shutdown == /\ Goes("shutdown", "stop_agents")
            /\ timedOut' = (Handling # {})
            /\ todo' = Range(agents)
            /\ UNCHANGED <<loadVars, started, rows, storageVars, serverVars,
                           systemVars>>

\* Agent.Stop: it waits for no goroutine.
StopAgent(k) == /\ Goes("stop_agents", "stop_agents")
                /\ k \in todo
                /\ todo' = todo \ {k}
                /\ IF dir[k].system THEN SystemStop ELSE UNCHANGED systemVars
                /\ UNCHANGED <<loadVars, started, rows, storageVars, serverVars, timedOut>>

CloseStorage == /\ todo = {}
                /\ Goes("stop_agents", "close_input")
                /\ db' = IF db = "dummy" THEN db ELSE "closed"
                /\ UNCHANGED <<loadVars, agentVars, serverVars, timedOut, systemVars>>

\* FileConfig.Close (OffsetStore), and the end of main.
CloseInput == /\ Goes("close_input", "ended")
              /\ UNCHANGED <<loadVars, agentVars, storageVars, serverVars, timedOut,
                             systemVars>>

-----------------------------------------------------------------------------
(* Requests.  A handler may take any time.                                 *)

Handles(c, r) == /\ Up
                 /\ request' = [request EXCEPT ![c] = r]
                 /\ UNCHANGED <<dir, main, loadVars, agentVars, storageVars, srv, signals,
                                timedOut, systemVars>>

\* handleAgents; handleSchema reads the same map.
AskAgents(c) == /\ srv = "open"
                /\ request[c] = Idle
                /\ Handles(c, [at |-> "map", name |-> "none"])
                /\ UNCHANGED <<advertised, failed>>

AnswerAgents(c) == /\ request[c].at = "map"
                   /\ advertised' = advertised \cup DOMAIN agents
                   /\ Handles(c, Idle)
                   /\ UNCHANGED failed

\* A map that is read while it is written may end the program.
MapRace == /\ main = "inserting"
           /\ \E c \in Clients : request[c].at = "map"
           /\ main' = "died"
           /\ UNCHANGED <<dir, signals, loadVars, agentVars, storageVars, serverVars,
                          timedOut, systemVars>>

AskRows(c) == /\ srv = "open"
              /\ request[c] = Idle
              /\ \E n \in advertised : Handles(c, [at |-> "db", name |-> n])
              /\ UNCHANGED <<advertised, failed>>

\* SQLiteStorage.Query, which needs the table, or DummyStorage.Query.
Served(n) == db = "dummy" \/ (db = "sqlite" /\ n \in DOMAIN table)

AnswerRows(c) == /\ request[c].at = "db"
                 /\ failed' = (failed \/ ~Served(request[c].name))
                 /\ Handles(c, Idle)
                 /\ UNCHANGED advertised

-----------------------------------------------------------------------------
(* The rows of started agents.                                             *)

\* Whether a row of file k with these columns fits the table of its name.
Fits(k, columns) == db = "sqlite" => columns \subseteq table[dir[k].name].columns

RowWritten(k, columns) ==
  /\ Up
  /\ rows' = rows \cup {<<k, Fits(k, columns)>>}
  /\ UNCHANGED <<dir, loadVars, todo, started, storageVars, serverVars, signals,
                 timedOut>>

\* A panic of the system input's goroutine ends the process.
DiesOfPanic == main' = IF sw'.pc = "panic" THEN "died" ELSE main

\* Agent.Serialize gives a value to every field, and Agent.Write hands it over.
FileRow(k) == /\ k \in started
              /\ ~dir[k].system
              /\ RowWritten(k, Columns(AgentFields(k)))
              /\ UNCHANGED <<main, systemVars>>

SystemRow(k) == /\ k \in started
                /\ dir[k].system
                /\ WriteRow
                /\ DiesOfPanic
                /\ RowWritten(k, RowFields)

SystemRuns == /\ Up
              /\ SystemStep
              /\ DiesOfPanic
              /\ UNCHANGED <<dir, loadVars, agentVars, storageVars, serverVars, signals,
                             timedOut>>

-----------------------------------------------------------------------------
MainStep == \/ OpenStorage \/ OpenServer \/ OpenInput
            \/ ReadAgentsDir \/ InitAgent \/ BeginInsert \/ EndInsert \/ AllLoaded
            \/ \E k \in todo : StartAgent(k) \/ StopAgent(k)
            \/ Started \/ StopNotify \/ CloseServer \/ Shutdown
            \/ CloseStorage \/ CloseInput

ApplicationNext ==
  \/ MainStep \/ StartFails \/ Signal \/ MapRace
  \/ \E c \in Clients : AskAgents(c) \/ AnswerAgents(c) \/ AskRows(c) \/ AnswerRows(c)
  \/ \E k \in started : FileRow(k) \/ SystemRow(k)
  \/ SystemRuns

ApplicationSpec == ApplicationInit /\ [][ApplicationNext]_appVars

\* The main goroutine is scheduled; Shutdown's timeout is part of it.  Nothing is
\* assumed of the requests, the agents and the signals.
ApplicationFairSpec == ApplicationSpec /\ WF_appVars(MainStep)

-----------------------------------------------------------------------------
(* Correctness.                                                            *)

\* Every row that an agent hands to the storage fits the table, also when two
\* files have one name; except the rows of the system input of an agent whose
\* configuration gives other fields, which nothing refuses.
WritesFitTable == \A r \in rows : r[2] \/ (dir[r[1]].system /\ dir[r[1]].fields # {})

\* A name that the server has answered can be queried from then on, while the
\* other agents are loaded, and also while the process stops, unless Shutdown
\* has given up waiting for the requests.
QueriesServed == failed => timedOut

\* The process ends after a signal, however long its requests take.
SignalEndsProcess == (main = "signalled") ~> (main \in Over)

\* An agent that has been loaded has the indexes that its configuration asks for.
ConfiguredIndexExists ==
  db = "sqlite" =>
    \A n \in DOMAIN agents : \A f \in dir[agents[n]].fields :
      f.index /\ f.name \in table[n].columns => f.name \in table[n].indexes
=============================================================================
