------------------------------- MODULE Startup -------------------------------
(***************************************************************************)
(* main.c and what it calls: becoming a daemon behind a pid file           *)
(* (daemonize.c), loading libraries and initialising their modules         *)
(* (modules.c, module.c), and creating or upgrading the tables             *)
(* (exampledb.c).  The program is started several times, before or after   *)
(* other starts have ended or died; they share the pid file and the tables.*)
(***************************************************************************)
EXTENDS Naturals, Sequences, SequencesExt, FiniteSets

CONSTANTS MaxStart,   \* bound: how often the program is started
          Config,     \* what the program finds: its build, configuration, pid file
          Library,    \* what can be loaded
          Provides,   \* Provides[l]: the interfaces of the module of a library
          Executing,  \* the libraries whose initialize function calls execute
          MaxCalled,  \* bound: the calls of a loop that execute makes endless
          NULL

Start == 1..MaxStart

\* The value of optdaemon, which main.c sets to 0 for good; the libraries in
\* order; whether the datasource opens ("none" when there is none, "unknown" when
\* no driver knows it); what the pid file is at first; how often it is started.
\* The program itself is none of the libraries it loads.
ASSUME StartupAssumption ==
    /\ \A c \in Config :
          /\ c.optdaemon \in BOOLEAN /\ c.starts \in Start
          /\ c.libraries \in Seq(Library)
          /\ c.datasource \in {"none", "opens", "fails", "unknown"}
          /\ c.pidfile \in {"absent", "empty", "directory", "stale", "unended", "alive", "text"}
    /\ Provides \in [Library -> SUBSET {"initialize", "execute"}]
    /\ {NULL, "suitcase"} \intersect Library = {}

VARIABLES
    launcher,   \* the process that was started
    program,    \* the process that goes on: the same one, or its child
    config,     \* which of them it is
    writers,    \* who has the write end of the pipe open
    pidfile,    \* what the file holds
    knew,       \* history: who had written the file when a start checked it
    wrote,      \* history: the launchers that wrote the pid file
    loaded,     \* the libraries a start has loaded, in order
    instances,  \* instances: the registered modules in order
    cursor,     \* modules_lookup: the interface searched for, the next instance
    called,     \* the modules whose initialize function main called, in order
    db,         \* what is in the database
    at,         \* syncdata: the statement, and whether it is prepared
    found,      \* history: the starts that found all the tables, and nobody creating any
    spoiled     \* history: a start died or gave up while at the tables

daemonvars == <<launcher, writers, pidfile, knew, wrote>>
modulevars == <<loaded, instances, cursor, called>>
schemavars == <<db, at, found, spoiled>>
vars == <<launcher, program, config, writers, pidfile, knew, wrote, modulevars, schemavars>>

Going == {"child", "load", "initialize", "libraries", "open", "probe", "create", "upgrade",
          "test"}

TypeOK ==
    /\ launcher \in [Start -> {"none", "check", "fork", "close", "write", "read", "program",
                               "failed"}]
    /\ program \in [Start -> Going \union {"none", "ended", "died"}]
    /\ \A s \in Start : /\ writers[s] \subseteq {"parent", "child"}
                        /\ Range(instances[s]) \subseteq Range(loaded[s]) \union {"suitcase"}
                        /\ cursor[s].at \in Range(instances[s]) \union {NULL}

Init ==
    /\ launcher = [s \in Start |-> "none"] /\ program = [s \in Start |-> "none"]
    /\ config \in Config
    /\ writers = [s \in Start |-> {}]
    /\ pidfile = config.pidfile /\ knew = [s \in Start |-> {}] /\ wrote = {}
    /\ loaded = [s \in Start |-> <<>>] /\ instances = [s \in Start |-> <<>>]
    /\ cursor = [s \in Start |-> [search |-> "", at |-> NULL]]
    /\ called = [s \in Start |-> <<>>]
    /\ db = {} /\ at = [s \in Start |-> [n |-> 0, ready |-> FALSE]]
    /\ found = {} /\ spoiled = FALSE

Goes(s, where) == program' = [program EXCEPT ![s] = where]
Launcher(s, where) == launcher' = [launcher EXCEPT ![s] = where]

-----------------------------------------------------------------------------
(* main up to the modules, and daemonize.c.                                *)

\* Unknown options end the program; else the configuration is read.
Begin(s) ==
    /\ launcher[s] = "none"
    /\ s <= config.starts /\ \A r \in 1..s - 1 : launcher[r] # "none"
    /\ \/ Launcher(s, "failed") /\ UNCHANGED program
       \/ config.optdaemon /\ Launcher(s, "check") /\ UNCHANGED program
       \/ ~config.optdaemon /\ Launcher(s, "program") /\ Goes(s, "load")
    /\ UNCHANGED <<config, writers, pidfile, knew, wrote, modulevars, schemavars>>

\* checkpidfile gives 0 when nobody runs; after a pid without newline it looks
\* at what was on the stack.
NobodyRuns == {"absent", "empty", "directory", "stale"}
Somebody == {"alive", "text"}
CheckPidFile(s) ==
    /\ launcher[s] = "check"
    /\ \E zero \in IF pidfile \in NobodyRuns THEN {TRUE}
                   ELSE IF pidfile \in Somebody THEN {FALSE} ELSE BOOLEAN :
          Launcher(s, IF zero THEN "fork" ELSE "failed")
    /\ knew' = [knew EXCEPT ![s] = wrote]
    /\ UNCHANGED <<program, config, writers, pidfile, wrote, modulevars, schemavars>>

\* The pipe and the fork of daemonize.
Fork(s) ==
    /\ launcher[s] = "fork"
    /\ \/ /\ Launcher(s, "close") /\ Goes(s, "child")
          /\ writers' = [writers EXCEPT ![s] = {"parent", "child"}]
       \/ Launcher(s, "failed") /\ UNCHANGED <<program, writers>>
    /\ UNCHANGED <<config, pidfile, knew, wrote, modulevars, schemavars>>

KeepEnd(s) == UNCHANGED writers
CloseEnd(s) == writers' = [writers EXCEPT ![s] = @ \ {"parent"}]
ClosePipe(s) ==
    /\ launcher[s] = "close"
    /\ CloseEnd(s)
    /\ Launcher(s, "write")
    /\ UNCHANGED <<program, config, pidfile, knew, wrote, modulevars, schemavars>>

\* writepidfile writes over the beginning of a file that is there, and what it
\* writes is the beginning of the name of the file.
NotWritten == pidfile
Written == IF pidfile \in {"absent", "directory"} THEN pidfile ELSE "text"
WritePidFile(s) ==
    /\ launcher[s] = "write"
    /\ pidfile' = Written
    /\ wrote' = IF pidfile \in {"absent", "directory"} THEN wrote ELSE wrote \union {s}
    /\ Launcher(s, "read")
    /\ UNCHANGED <<program, config, writers, knew, modulevars, schemavars>>

\* The child has closed its end unwritten: the read ends when no one can write
\* any more, and ch is still the -1 of getopt_long.
ReadPipe(s) ==
    /\ launcher[s] = "read"
    /\ writers[s] = {}
    /\ Launcher(s, "failed")
    /\ UNCHANGED <<program, config, writers, pidfile, knew, wrote, modulevars, schemavars>>

\* daemonize in the child closes every descriptor, its end of the pipe too;
\* what main then writes into it goes nowhere.
Detach(s) ==
    /\ program[s] = "child"
    /\ writers' = [writers EXCEPT ![s] = @ \ {"child"}]
    /\ Goes(s, "load")
    /\ UNCHANGED <<launcher, config, pidfile, knew, wrote, modulevars, schemavars>>

-----------------------------------------------------------------------------
(* Modules.                                                                *)

\* modules: a module that is registered is taken out, another is appended.
Prepended(list, m) == <<m>> \o list
Appended(list, m) == Append(list, m)
Toggled(list, m) == IF m \in Range(list) THEN Remove(list, m) ELSE Appended(list, m)

RunsConstructor(s, l, opens) == opens /\ l \notin Range(loaded[s])

\* dlopen of the next library, which may fail; its constructor registers its
\* module when it was not open yet.
Load(s) ==
    LET list == config.libraries
        l == list[Len(loaded[s]) + 1]
    IN  /\ program[s] = "load"
        /\ IF Len(loaded[s]) = Len(list)
           THEN Goes(s, "initialize") /\ UNCHANGED <<loaded, instances>>
           ELSE \E opens \in BOOLEAN :
                   /\ loaded' = [loaded EXCEPT ![s] = Append(@, IF opens THEN l ELSE NULL)]
                   /\ instances' = [instances EXCEPT ![s] =
                         IF RunsConstructor(s, l, opens) THEN Toggled(@, l) ELSE @]
                   /\ UNCHANGED program
        /\ UNCHANGED <<daemonvars, config, cursor, called, schemavars>>

\* modules_lookup from a place on: the first instance there with the interface,
\* and the cursor after it.
IndexIn(list, m) == IF m = NULL THEN Len(list) + 1 ELSE CHOOSE i \in DOMAIN list : list[i] = m
Place(list, i) == IF i \in DOMAIN list THEN list[i] ELSE NULL
Lookup(list, search, from) ==
    LET having == {i \in DOMAIN list : i >= from /\ search \in Provides[list[i]]}
        i == CHOOSE i \in having : \A j \in having : i <= j
    IN  IF having = {} THEN [module |-> NULL, cursor |-> [search |-> search, at |-> NULL]]
        ELSE [module |-> list[i], cursor |-> [search |-> search, at |-> Place(list, i + 1)]]

\* Where a call of execute that finds its module leaves the cursor: any module
\* with the interface may be the one that its settings name.
Execute(s, list) == {Lookup(list, "execute", i).cursor : i \in
                        {i \in DOMAIN list : "execute" \in Provides[list[i]]}}

\* One turn of the loop over the modules with an initialize function.
Initialize(s) ==
    LET list == instances[s]
        first == cursor[s].search = ""
        hit == Lookup(list, IF first THEN "initialize" ELSE cursor[s].search,
                            IF first THEN 1 ELSE IndexIn(list, cursor[s].at))
    IN  /\ program[s] = "initialize"
        /\ Len(called[s]) < MaxCalled
        /\ IF hit.module = NULL
           THEN /\ cursor' = [cursor EXCEPT ![s] = hit.cursor]
                /\ Goes(s, "libraries") /\ UNCHANGED called
           ELSE /\ called' = [called EXCEPT ![s] = Append(@, hit.module)]
                \* No execute, or one without "using": it looks nothing up.
                /\ \/ cursor' = [cursor EXCEPT ![s] = hit.cursor] /\ UNCHANGED program
                   \/ /\ hit.module \in Executing
                      /\ \E after \in Execute(s, list) :
                            cursor' = [cursor EXCEPT ![s] = after] /\ UNCHANGED program
                   \* No module of that name: a NULL function is called.
                   \/ /\ hit.module \in Executing
                      /\ cursor' = [cursor EXCEPT ![s] = hit.cursor] /\ Goes(s, "died")
        /\ UNCHANGED <<daemonvars, config, loaded, instances, schemavars>>

\* modules_addlibraries: the library of the program itself.
AddLibraries(s) ==
    /\ program[s] = "libraries"
    /\ instances' = [instances EXCEPT ![s] = Toggled(@, "suitcase")]
    /\ Goes(s, IF config.datasource = "none" THEN "ended" ELSE "open")
    /\ UNCHANGED <<daemonvars, config, loaded, cursor, called, schemavars>>

-----------------------------------------------------------------------------
(* example_dbsetup.                                                        *)

Statements == <<"version", "tables", "dependency", "index">>
Tables == {"version", "tables", "dependency", "index"}

\* Without a driver there is no connection, and a plan is made for it all the
\* same.  If the database does not open it returns and example_dbtest goes on.
Open(s) ==
    /\ program[s] = "open"
    /\ Goes(s, CASE config.datasource = "opens" -> "probe"
                 [] config.datasource = "fails" -> "test"
                 [] OTHER -> "died")
    /\ UNCHANGED <<daemonvars, config, modulevars, schemavars>>

\* Another start may hold the lock; a statement that cannot be prepared because
\* of that is given up, one that is prepared is tried until it is done.
Locked(s) == \E r \in Start \ {s} : program[r] \in {"create", "upgrade", "test"}

\* A version is never entered: what is there counts as version 0.
Probe(s) ==
    /\ program[s] = "probe"
    /\ \E gaveup \in IF Locked(s) THEN BOOLEAN ELSE {FALSE} :
          /\ Goes(s, IF "version" \in db /\ ~gaveup THEN "upgrade" ELSE "create")
          /\ found' = IF Tables \subseteq db /\ ~gaveup /\ \A r \in Start : program[r] # "create"
                      THEN found \union {s} ELSE found
    /\ at' = [at EXCEPT ![s] = [n |-> 1, ready |-> FALSE]]
    /\ UNCHANGED <<daemonvars, config, modulevars, db, spoiled>>

Create(x) == CASE x = "dependency" -> {"dependency", "zoneId"} [] OTHER -> {x}
CanCreate(x) == /\ x \notin db
                /\ x = "index" => "zoneId" \in db
UpgradeReversed == <<"zoneId", "index", "version">>
Upgrade == <<"index", "zoneId", "version">>
CanDrop(x) == x \in db
Drop(x) == IF x = "version" \/ (x = "zoneId" /\ "index" \in db) THEN {} ELSE {x}

Plan(s) == IF program[s] = "create" THEN Statements ELSE Upgrade
Can(s, x) == IF program[s] = "create" THEN CanCreate(x) ELSE CanDrop(x)
AllButOne(s) == Len(Plan(s)) - 1
All(s) == Len(Plan(s))

CanGoOn(s) == at[s].n <= All(s) /\ Can(s, Plan(s)[at[s].n])

\* syncdata: a statement that cannot be prepared ends it, and the caller does
\* not mind; what carrying it out gives is not looked at.
Prepare(s) ==
    /\ program[s] \in {"create", "upgrade"} /\ ~at[s].ready
    /\ \/ /\ CanGoOn(s)
          /\ at' = [at EXCEPT ![s].ready = TRUE]
          /\ UNCHANGED <<program, spoiled>>
       \/ /\ ~CanGoOn(s)
          /\ Goes(s, "test")
          /\ UNCHANGED <<at, spoiled>>
       \/ /\ at[s].n <= All(s) /\ Locked(s)
          /\ Goes(s, "test") /\ spoiled' = TRUE
          /\ UNCHANGED at
    /\ UNCHANGED <<daemonvars, config, modulevars, db, found>>

CarryOut(s) ==
    /\ at[s].ready
    /\ LET x == Plan(s)[at[s].n] IN
          db' = IF ~Can(s, x) THEN db
                ELSE IF program[s] = "create" THEN db \union Create(x) ELSE db \ Drop(x)
    /\ at' = [at EXCEPT ![s] = [n |-> @.n + 1, ready |-> FALSE]]
    /\ UNCHANGED <<daemonvars, program, config, modulevars, found, spoiled>>

\* example_dbtest expects two zones, and dies when there are fewer.
Test(s) ==
    /\ program[s] = "test"
    /\ Goes(s, "ended") \/ Goes(s, "died")
    /\ UNCHANGED <<daemonvars, config, modulevars, schemavars>>

\* The program, or the child, is killed; its descriptors are closed.
Kill(s) ==
    /\ program[s] \in Going
    /\ Goes(s, "died")
    /\ writers' = [writers EXCEPT ![s] = @ \ {"child"}]
    /\ at' = [at EXCEPT ![s].ready = FALSE]
    /\ spoiled' = (spoiled \/ program[s] \in {"create", "upgrade"})
    /\ UNCHANGED <<launcher, config, pidfile, knew, wrote, modulevars, db, found>>

LauncherStep(s) == Begin(s) \/ CheckPidFile(s) \/ Fork(s) \/ ClosePipe(s) \/ WritePidFile(s)
                   \/ ReadPipe(s)
ProgramStep(s) == Detach(s) \/ Load(s) \/ Initialize(s) \/ AddLibraries(s) \/ Open(s)
                  \/ Probe(s) \/ Prepare(s) \/ CarryOut(s) \/ Test(s)
Next == \E s \in Start : LauncherStep(s) \/ ProgramStep(s) \/ Kill(s)

\* A process that can go on does.
Fairness == \A s \in Start : WF_vars(LauncherStep(s)) /\ WF_vars(ProgramStep(s))
Spec == Init /\ [][Next]_vars /\ Fairness

-----------------------------------------------------------------------------
(* Properties.                                                             *)

\* When the pid file is there, two starts become daemons only when each looked
\* at the file before the other had written it: once one has written, nobody
\* who looks afterwards goes on (checkpidfile, writepidfile in main).
TwoDaemonsOnlyInTheWindow ==
    \A r, s \in Start : r \in knew[s] => launcher[s] \notin {"fork", "close", "write", "read"}
                                      /\ (program[s] = "none" \/ launcher[s] = "program")

\* Who started a daemon gets the terminal back: the read of the pipe ends,
\* whatever the daemon does and even if it dies at once.
LauncherReturns == \A s \in Start : launcher[s] = "check" ~> launcher[s] = "failed"

\* x is in the list, and y comes after its first place or not at all.
ComesBefore(list, x, y) == \E m \in DOMAIN list : list[m] = x /\ \A n \in 1..m : list[n] # y

\* main initialises every module that can be, once, in the order in which the
\* libraries were loaded, unless one of them calls execute from there: the
\* cursor of modules_lookup is static.
InitialisedInOrder ==
    \A s \in Start :
        program[s] = "libraries" /\ Range(called[s]) \intersect Executing = {} =>
            /\ Range(called[s]) = {l \in Range(loaded[s]) \ {NULL} : "initialize" \in Provides[l]}
            /\ \A i, j \in DOMAIN called[s] :
                  i < j => ComesBefore(loaded[s], called[s][i], called[s][j])

\* The state of a start, and of the registry it has built so far.
RegistryInv == TypeOK /\ InitialisedInOrder

\* A start goes on to use the tables when they are all there, or another is
\* still creating them; unless somebody died, or gave up because of a lock,
\* on the way (a failed statement of dbsimple_sync is otherwise passed over).
TablesAreComplete ==
    \A s \in Start : program[s] = "test" /\ config.datasource = "opens" =>
        \/ Tables \ {"index"} \subseteq db /\ ("index" \in db \/ "zoneId" \notin db)
        \/ spoiled
        \/ \E r \in Start \ {s} : program[r] \in {"create", "upgrade"}

\* A start that found all the tables, with nobody still creating them, leaves
\* them upgraded, or somebody died or gave up between the statements of an
\* upgrade, which are no transaction: after that the index is gone and the
\* column stays for ever.  (Somebody still creating may bring the index back
\* between the two.)
FoundIsUpgraded ==
    \A s \in found : program[s] = "test" =>
        "zoneId" \notin db \/ spoiled
        \/ \E r \in Start \ {s} : program[r] \in {"create", "upgrade"}
=============================================================================
