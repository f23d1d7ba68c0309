---------------------------- MODULE StartupProofs ----------------------------
(***************************************************************************)
(* What several starts of the program do to each other, for any number of  *)
(* them and any configuration: the pid file keeps a second daemon out once *)
(* the first has written it, the registry holds the modules that were      *)
(* loaded, initialised once and in order, and the tables are complete when *)
(* they are used.  The invariants say what the pid file, the registry and  *)
(* the tables owe to the starts that are still on their way.               *)
(***************************************************************************)
EXTENDS Startup, WellFoundedInduction, TLAPS

Where == Going \union {"none", "ended", "died"}
LauncherAt == {"none", "check", "fork", "close", "write", "read", "program", "failed"}

-----------------------------------------------------------------------------
(* The processes.                                                          *)

\* A start has no child before it forked, and a statement is carried out by one
\* that is at the tables.
MovesInv ==
    /\ launcher \in [Start -> LauncherAt]
    /\ program \in [Start -> Where]
    /\ at \in [Start -> [n : Nat, ready : BOOLEAN]]
    /\ \A s \in Start : launcher[s] \in {"none", "check", "fork"} => program[s] = "none"
    /\ \A s \in Start : at[s].ready => program[s] \in {"create", "upgrade"} /\ at[s].n <= All(s)

\* The two plans.
LEMMA PlanFacts ==
  ASSUME NEW s
  PROVE  /\ program[s] = "create" => /\ All(s) = 4
                                    /\ Plan(s)[1] = "version" /\ Plan(s)[2] = "tables"
                                    /\ Plan(s)[3] = "dependency" /\ Plan(s)[4] = "index"
         /\ program[s] # "create" => /\ All(s) = 3
                                    /\ Plan(s)[1] = "index" /\ Plan(s)[2] = "zoneId"
                                    /\ Plan(s)[3] = "version"
  BY DEF All, Plan, Statements, Upgrade

\* A step of a program moves that program only, and none that has not begun.
LEMMA ProgramMoves ==
  ASSUME MovesInv, NEW s \in Start, ProgramStep(s) \/ Kill(s)
  PROVE  /\ UNCHANGED <<launcher, config, pidfile, knew, wrote>>
         /\ program[s] # "none" /\ program' \in [Start -> Where]
         /\ \A r \in Start \ {s} : program'[r] = program[r]
         /\ at' \in [Start -> [n : Nat, ready : BOOLEAN]]
         /\ \A r \in Start \ {s} : at'[r] = at[r]
         /\ at'[s].ready => program'[s] \in {"create", "upgrade"} /\ at'[s].n <= All(s)'
<1> USE DEF MovesInv, Goes, Where, Going, daemonvars, schemavars, modulevars
<1>1. CASE Detach(s) BY <1>1 DEF Detach
<1>2. CASE Load(s) BY <1>2 DEF Load
<1>3. CASE Initialize(s) BY <1>3 DEF Initialize
<1>4. CASE AddLibraries(s) BY <1>4 DEF AddLibraries
<1>5. CASE Open(s) BY <1>5, StartupAssumption DEF Open
<1>6. CASE Probe(s) BY <1>6 DEF Probe
<1>7. CASE Prepare(s)
  <2>1. CASE UNCHANGED program /\ CanGoOn(s) /\ at' = [at EXCEPT ![s].ready = TRUE]
    <3>1. All(s)' = All(s) BY <2>1 DEF All, Plan
    <3>2. at'[s] = [at[s] EXCEPT !.ready = TRUE] /\ at[s].n <= All(s) BY <2>1 DEF CanGoOn
    <3>3. at[s] \in [n : Nat, ready : BOOLEAN] OBVIOUS
    <3>4. at'[s] = [n |-> at[s].n, ready |-> TRUE] BY <3>2, <3>3
    <3> QED BY <1>7, <2>1, <3>1, <3>2, <3>3, <3>4 DEF Prepare
  <2>2. CASE Goes(s, "test") /\ UNCHANGED at BY <1>7, <2>2 DEF Prepare
  <2> QED BY <1>7, <2>1, <2>2 DEF Prepare
<1>8. CASE CarryOut(s) BY <1>8 DEF CarryOut
<1>9. CASE Test(s) BY <1>9 DEF Test
<1>10. CASE Kill(s) BY <1>10 DEF Kill
<1> QED BY <1>1, <1>2, <1>3, <1>4, <1>5, <1>6, <1>7, <1>8, <1>9, <1>10 DEF ProgramStep

\* The launcher brings at most its own program to life, and not to the tables.
LEMMA LauncherMoves ==
  ASSUME MovesInv, NEW s \in Start, LauncherStep(s)
  PROVE  /\ launcher' \in [Start -> LauncherAt] /\ UNCHANGED <<modulevars, schemavars, config>>
         /\ \/ UNCHANGED program
            \/ program[s] = "none" /\ \E where \in {"load", "child"} : Goes(s, where)
         /\ launcher'[s] \in {"none", "check", "fork"} => UNCHANGED program /\ program[s] = "none"
         /\ \A r \in Start \ {s} : launcher'[r] = launcher[r]
<1> USE DEF MovesInv, Launcher, LauncherAt, Goes
<1>1. CASE Begin(s) BY <1>1 DEF Begin
<1>2. CASE CheckPidFile(s) BY <1>2 DEF CheckPidFile
<1>3. CASE Fork(s) BY <1>3 DEF Fork
<1>4. CASE ClosePipe(s) BY <1>4 DEF ClosePipe
<1>5. CASE WritePidFile(s) BY <1>5 DEF WritePidFile
<1>6. CASE ReadPipe(s) BY <1>6 DEF ReadPipe
<1> QED BY <1>1, <1>2, <1>3, <1>4, <1>5, <1>6 DEF LauncherStep

\* The processes are where the model says they can be.
LEMMA Moves == Spec => []MovesInv
<1>1. Init => MovesInv
  <2> SUFFICES ASSUME Init PROVE MovesInv OBVIOUS
  <2>1. at \in [Start -> [n : Nat, ready : BOOLEAN]] /\ \A s \in Start : ~at[s].ready
    BY DEF Init
  <2> QED BY <2>1 DEF Init, MovesInv, LauncherAt, Where
<1>2. MovesInv /\ [Next]_vars => MovesInv'
  <2>1. ASSUME MovesInv, UNCHANGED vars PROVE MovesInv'
    BY <2>1 DEF MovesInv, vars, schemavars, All, Plan
  <2>2. ASSUME MovesInv, NEW s \in Start, LauncherStep(s) PROVE MovesInv'
    <3>1. /\ launcher' \in [Start -> LauncherAt] /\ at' = at
          /\ program' \in [Start -> Where]
          /\ program[s] # "none" => UNCHANGED program
          /\ launcher'[s] \in {"none", "check", "fork"} => UNCHANGED program
          /\ \A r \in Start \ {s} : launcher'[r] = launcher[r] /\ program'[r] = program[r]
      BY <2>2, LauncherMoves DEF MovesInv, Goes, schemavars, Where, Going
    <3>2. \A r \in Start : launcher'[r] \in {"none", "check", "fork"} => program'[r] = "none"
      BY <2>2, <3>1, LauncherMoves DEF MovesInv
    <3>3. \A r \in Start : at[r].ready => program'[r] = program[r] /\ All(r)' = All(r)
      BY <2>2, <3>1 DEF MovesInv, All, Plan
    <3> QED BY <2>2, <3>1, <3>2, <3>3 DEF MovesInv
  <2>3. ASSUME MovesInv, NEW s \in Start, ProgramStep(s) \/ Kill(s) PROVE MovesInv'
    BY <2>3, ProgramMoves DEF MovesInv, All, Plan
  <2> QED BY <2>1, <2>2, <2>3 DEF Next
<1> QED BY <1>1, <1>2, PTL DEF Spec

-----------------------------------------------------------------------------
(* The pid file.                                                           *)

\* Whoever wrote the file left something there that no start takes for the pid
\* of a process that has ended, and a start that looked at it afterwards failed.
PidInv ==
    /\ knew \in [Start -> SUBSET Start]
    /\ wrote # {} => pidfile = "text"
    /\ wrote \subseteq Start
    /\ \A s \in Start : knew[s] # {} => launcher[s] = "failed" /\ program[s] = "none"

\* No step of the program touches the pid file, and none brings a program to
\* life.
LEMMA ProgramLeavesPid ==
  ASSUME MovesInv, PidInv, NEW s \in Start, ProgramStep(s) \/ Kill(s)
  PROVE  PidInv'
  BY ProgramMoves DEF PidInv, MovesInv

\* A launcher that goes on looked at the file before anybody who wrote it did.
LEMMA LauncherKeepsPid ==
  ASSUME MovesInv, PidInv, NEW s \in Start, LauncherStep(s)
  PROVE  PidInv'
<1> USE DEF MovesInv, PidInv, Launcher
<1>1. CASE Begin(s) BY <1>1 DEF Begin, Goes
<1>2. CASE CheckPidFile(s) BY <1>2 DEF CheckPidFile, NobodyRuns, Somebody
<1>3. CASE Fork(s) BY <1>3 DEF Fork, Goes
<1>4. CASE ClosePipe(s) BY <1>4 DEF ClosePipe
<1>5. CASE WritePidFile(s) BY <1>5 DEF WritePidFile, Written
<1>6. CASE ReadPipe(s) BY <1>6 DEF ReadPipe
<1> QED BY <1>1, <1>2, <1>3, <1>4, <1>5, <1>6 DEF LauncherStep

\* Two starts become daemons only when each looked at the pid file before the
\* other had written it (checkpidfile, writepidfile in main).
THEOREM OneDaemon == Spec => []TwoDaemonsOnlyInTheWindow
<1>1. Init => PidInv BY DEF Init, PidInv
<1>2. MovesInv /\ PidInv /\ [Next]_vars => PidInv'
  <2>1. PidInv /\ UNCHANGED vars => PidInv' BY DEF PidInv, vars
  <2> QED BY <2>1, ProgramLeavesPid, LauncherKeepsPid DEF Next
<1>3. PidInv => TwoDaemonsOnlyInTheWindow BY DEF PidInv, TwoDaemonsOnlyInTheWindow
<1> QED BY <1>1, <1>2, <1>3, Moves, PTL DEF Spec

-----------------------------------------------------------------------------
(* The registry of modules.                                                *)

\* Until main adds the library of the program itself, all modules come from the
\* libraries that were loaded, so no constructor takes a module out again.
RegistryTypes ==
    /\ config \in Config
    /\ writers \in [Start -> SUBSET {"parent", "child"}]
    /\ loaded \in [Start -> Seq(Library \union {NULL})]
    /\ instances \in [Start -> Seq(Library \union {"suitcase"})]
    /\ DOMAIN cursor = Start /\ DOMAIN called = Start
    /\ \A s \in Start :
          /\ Len(loaded[s]) <= Len(config.libraries)
          /\ Range(instances[s]) \subseteq Range(loaded[s]) \union {"suitcase"}
          /\ program[s] \in {"none", "child", "load", "initialize", "libraries"}
             => "suitcase" \notin Range(instances[s])
          /\ cursor[s].at \in Range(instances[s]) \union {NULL}

\* What appending does to the members of a list.
LEMMA AppendRange ==
  ASSUME NEW S, NEW list \in Seq(S), NEW x
  PROVE  /\ Append(list, x) \in Seq(S \union {x})
         /\ Range(Append(list, x)) = Range(list) \union {x}
<1>1. /\ DOMAIN list = 1..Len(list) /\ Len(list) \in Nat
      /\ DOMAIN Append(list, x) = 1..(Len(list) + 1)
      /\ Append(list, x)[Len(list) + 1] = x
      /\ \A i \in 1..Len(list) : Append(list, x)[i] = list[i]
  OBVIOUS
<1>2. Append(list, x) \in Seq(S \union {x}) OBVIOUS
<1>3. \A i \in 1..(Len(list) + 1) : i \in 1..Len(list) \/ i = Len(list) + 1 BY <1>1
<1>4. 1..Len(list) \subseteq 1..(Len(list) + 1) /\ Len(list) + 1 \in 1..(Len(list) + 1) BY <1>1
<1>5. Range(Append(list, x)) = Range(list) \union {x}
  <2>1. ASSUME NEW y \in Range(Append(list, x)) PROVE y \in Range(list) \union {x}
    BY <1>1, <1>3, <2>1 DEF Range
  <2>2. ASSUME NEW y \in Range(list) PROVE y \in Range(Append(list, x))
    BY <1>1, <1>4, <2>2 DEF Range
  <2>3. x \in Range(Append(list, x)) BY <1>1, <1>4 DEF Range
  <2> QED BY <2>1, <2>2, <2>3
<1> QED BY <1>2, <1>5

\* modules_lookup leaves the static cursor at a registered module, or past the
\* last.
LEMMA LookupCursor ==
  ASSUME NEW list, NEW search, NEW from
  PROVE  Lookup(list, search, from).cursor.at \in Range(list) \union {NULL}
<1>1. \A i : Place(list, i) \in Range(list) \union {NULL} BY DEF Place, Range
<1> QED BY <1>1 DEF Lookup

\* A library that is loaded is a module more, or none.
LEMMA LoadKeeps ==
  ASSUME RegistryTypes, MovesInv, NEW s \in Start, Load(s) PROVE RegistryTypes'
<1> DEFINE l == config.libraries[Len(loaded[s]) + 1]
<1>0. config.libraries \in Seq(Library) BY StartupAssumption DEF RegistryTypes
<1>1. /\ program[s] = "load" /\ UNCHANGED <<config, writers, cursor, called>>
      /\ \A r \in Start \ {s} : program'[r] = program[r]
  BY ProgramMoves DEF Load, ProgramStep, daemonvars
<1>2. CASE UNCHANGED <<loaded, instances>> BY <1>1, <1>2 DEF RegistryTypes
<1>3. ASSUME NEW opens \in BOOLEAN, Len(loaded[s]) # Len(config.libraries),
             loaded' = [loaded EXCEPT ![s] = Append(@, IF opens THEN l ELSE NULL)],
             instances' = [instances EXCEPT ![s] = IF RunsConstructor(s, l, opens)
                                                   THEN Toggled(@, l) ELSE @],
             UNCHANGED program
      PROVE  RegistryTypes'
  <2> DEFINE x == IF opens THEN l ELSE NULL
  <2>1. /\ loaded[s] \in Seq(Library \union {NULL})
        /\ instances[s] \in Seq(Library \union {"suitcase"})
        /\ Len(loaded[s]) <= Len(config.libraries)
        /\ Range(instances[s]) \subseteq Range(loaded[s]) \union {"suitcase"}
        /\ "suitcase" \notin Range(instances[s])
    BY <1>1 DEF RegistryTypes
  <2>2. l \in Library
    <3>1. Len(loaded[s]) + 1 \in 1..Len(config.libraries) BY <1>0, <1>3, <2>1
    <3> QED BY <1>0, <3>1
  <2>3. l # "suitcase" BY <2>2, StartupAssumption
  <2> HIDE DEF l
  <2>4. /\ loaded'[s] = Append(loaded[s], x)
        /\ \A r \in Start \ {s} : loaded'[r] = loaded[r] /\ instances'[r] = instances[r]
    BY <1>3 DEF RegistryTypes
  <2>5. /\ loaded' \in [Start -> Seq(Library \union {NULL})]
        /\ Range(loaded'[s]) = Range(loaded[s]) \union {x}
        /\ Len(loaded'[s]) <= Len(config.libraries)
    <3>1. x \in Library \union {NULL} BY <2>2
    <3> HIDE DEF x
    <3>2. Append(loaded[s], x) \in Seq(Library \union {NULL}) BY <2>1, <3>1
    <3>3. Len(Append(loaded[s], x)) = Len(loaded[s]) + 1 /\ Len(loaded[s]) \in Nat BY <2>1
    <3>4. Len(config.libraries) \in Nat BY <1>0
    <3>5. loaded' \in [Start -> Seq(Library \union {NULL})]
      BY <1>3, <2>4, <3>2 DEF RegistryTypes
    <3>6. Range(Append(loaded[s], x)) = Range(loaded[s]) \union {x} BY <2>1, AppendRange
    <3> QED BY <1>3, <2>1, <2>4, <3>3, <3>4, <3>5, <3>6
  <2>6. CASE opens /\ l \notin Range(loaded[s])
    <3>1. l \notin Range(instances[s]) BY <2>1, <2>3, <2>6
    <3>2. instances'[s] = Append(instances[s], l)
      BY <1>3, <2>6, <3>1 DEF RegistryTypes, RunsConstructor, Toggled, Appended
    <3>3. /\ Append(instances[s], l) \in Seq(Library \union {"suitcase"})
          /\ Range(instances'[s]) = Range(instances[s]) \union {l}
      BY <2>1, <2>2, <3>2, AppendRange
    <3>4. instances' \in [Start -> Seq(Library \union {"suitcase"})]
      BY <1>3, <3>2, <3>3 DEF RegistryTypes
    <3>5. x = l BY <2>6
    <3> QED BY <1>1, <1>3, <2>1, <2>3, <2>4, <2>5, <3>3, <3>4, <3>5 DEF RegistryTypes
  <2>7. CASE ~(opens /\ l \notin Range(loaded[s]))
    <3>1. instances' = instances BY <1>3, <2>7 DEF RegistryTypes, RunsConstructor
    <3> QED BY <1>1, <1>3, <2>1, <2>4, <2>5, <3>1 DEF RegistryTypes
  <2> QED BY <2>6, <2>7
<1> QED BY <1>2, <1>3 DEF Load

\* Every turn of the loop leaves the cursor where modules_lookup put it.
LEMMA InitializeKeeps ==
  ASSUME RegistryTypes, MovesInv, NEW s \in Start, Initialize(s) PROVE RegistryTypes'
<1>1. /\ program[s] = "initialize" /\ UNCHANGED <<config, writers, loaded, instances>>
      /\ \A r \in Start \ {s} : program'[r] = program[r]
  BY ProgramMoves DEF Initialize, ProgramStep, daemonvars
<1>2. \E search, from : \/ cursor' = [cursor EXCEPT ![s] = Lookup(instances[s], search, from).cursor]
                        \/ \E after \in Execute(s, instances[s]) :
                              cursor' = [cursor EXCEPT ![s] = after]
  BY DEF Initialize
<1>3. \A after \in Execute(s, instances[s]) : after.at \in Range(instances[s]) \union {NULL}
  BY LookupCursor DEF Execute
<1>4. /\ DOMAIN cursor' = Start /\ \A r \in Start \ {s} : cursor'[r] = cursor[r]
      /\ cursor'[s].at \in Range(instances[s]) \union {NULL}
  BY <1>2, <1>3, LookupCursor DEF RegistryTypes
<1>5. DOMAIN called' = Start
  <2>1. UNCHANGED called \/ \E q : called' = [called EXCEPT ![s] = q] BY DEF Initialize
  <2> QED BY <2>1 DEF RegistryTypes
<1> QED BY <1>1, <1>4, <1>5 DEF RegistryTypes

\* The library of the program itself comes last, and once.
LEMMA AddKeeps ==
  ASSUME RegistryTypes, MovesInv, NEW s \in Start, AddLibraries(s) PROVE RegistryTypes'
<1>1. /\ program[s] = "libraries" /\ UNCHANGED <<config, writers, loaded, cursor, called>>
      /\ program'[s] \in {"ended", "open"}
      /\ \A r \in Start \ {s} : program'[r] = program[r]
  BY ProgramMoves DEF AddLibraries, ProgramStep, daemonvars, MovesInv, Goes
<1>2. instances'[s] = Append(instances[s], "suitcase")
  BY <1>1 DEF AddLibraries, Toggled, Appended, RegistryTypes
<1>3. instances[s] \in Seq(Library \union {"suitcase"}) BY DEF RegistryTypes
<1>4. /\ instances'[s] \in Seq(Library \union {"suitcase"})
      /\ Range(instances'[s]) = Range(instances[s]) \union {"suitcase"}
  BY <1>2, <1>3, AppendRange
<1>5. /\ instances' \in [Start -> Seq(Library \union {"suitcase"})]
      /\ \A r \in Start \ {s} : instances'[r] = instances[r]
  BY <1>4 DEF AddLibraries, RegistryTypes
<1> QED BY <1>1, <1>4, <1>5 DEF RegistryTypes

\* The other steps register nothing, and move a program past what registers.
Early == {"none", "child", "load", "initialize", "libraries"}

\* They leave the registry alone, and start nothing over.
LEMMA ElsewhereMoves ==
  ASSUME MovesInv, NEW s \in Start,
         \/ LauncherStep(s) \/ Detach(s) \/ Open(s) \/ Probe(s)
         \/ Prepare(s) \/ CarryOut(s) \/ Test(s) \/ Kill(s)
  PROVE  /\ UNCHANGED <<config, modulevars>>
         /\ \A r \in Start : \/ program'[r] = program[r]
                             \/ program'[r] \notin Early
                             \/ program[r] \in {"none", "child"} /\ program'[r] \in {"child", "load"}
<1>1. UNCHANGED <<config, modulevars>>
  BY LauncherMoves DEF Detach, Open, Probe, Prepare, CarryOut, Test, Kill
<1> SUFFICES ASSUME NEW r \in Start
             PROVE  \/ program'[r] = program[r]
                    \/ program'[r] \notin Early
                    \/ program[r] \in {"none", "child"} /\ program'[r] \in {"child", "load"}
  BY <1>1
<1> USE DEF MovesInv, Goes, Early
<1>2. CASE LauncherStep(s) BY <1>2, LauncherMoves
<1>3. CASE Detach(s) BY <1>3 DEF Detach
<1>4. CASE Kill(s) BY <1>4 DEF Kill
<1>5. CASE Open(s)
  <2>1. \E where \in {"probe", "test", "died"} : Goes(s, where) BY <1>5 DEF Open
  <2> QED BY <2>1
<1>6. CASE Probe(s) \/ Prepare(s)
  <2>1. \/ UNCHANGED program
        \/ \E where \in {"create", "upgrade", "test"} : Goes(s, where)
    BY <1>6 DEF Probe, Prepare
  <2> QED BY <2>1
<1>7. CASE CarryOut(s) \/ Test(s) BY <1>7 DEF CarryOut, Test
<1> QED BY <1>2, <1>3, <1>4, <1>5, <1>6, <1>7

\* So they keep what the state of the registry is.
LEMMA ElsewhereKeeps ==
  ASSUME RegistryTypes, MovesInv, NEW s \in Start,
         \/ LauncherStep(s) \/ Detach(s) \/ Open(s) \/ Probe(s)
         \/ Prepare(s) \/ CarryOut(s) \/ Test(s) \/ Kill(s)
  PROVE  RegistryTypes'
<1>1. \A r \in Start : program'[r] \in Early => program[r] \in Early
  BY ElsewhereMoves DEF Early
<1>2. CASE LauncherStep(s)
  <2>1. writers' \in [Start -> SUBSET {"parent", "child"}]
    BY <1>2 DEF RegistryTypes, LauncherStep, Begin, CheckPidFile, Fork, ClosePipe, CloseEnd,
       WritePidFile, ReadPipe
  <2> QED BY <1>1, <2>1, ElsewhereMoves DEF RegistryTypes, modulevars, Early
<1>3. CASE ~LauncherStep(s)
  <2>1. writers' \in [Start -> SUBSET {"parent", "child"}]
    BY <1>3 DEF RegistryTypes, Detach, Open, Probe, Prepare, CarryOut, Test, Kill, daemonvars
  <2> QED BY <1>1, <2>1, ElsewhereMoves DEF RegistryTypes, modulevars, Early
<1> QED BY <1>2, <1>3

\* The modules are those of the libraries that were loaded, each in its place,
\* and those that main has initialised are the ones before the cursor; once
\* they are all initialised, the order remains.
Having(list) == {i \in DOMAIN list : "initialize" \in Provides[list[i]]}
Before(list, i) == {list[k] : k \in {k \in Having(list) : k < i}}
Reached(list, cur) == IF cur.search = "" THEN 1 ELSE IndexIn(list, cur.at)
InOrder(all, list) == \A i, j \in DOMAIN list : i < j => ComesBefore(all, list[i], list[j])
OrderOf(s) ==
    /\ called[s] \in Seq(Library)
    /\ program[s] \in {"none", "child", "load", "initialize"} =>
          /\ instances[s] \in Seq(Library)
          /\ Range(instances[s]) = Range(loaded[s]) \ {NULL}
          /\ InOrder(loaded[s], instances[s])
    /\ program[s] \in {"none", "child", "load"} => called[s] = <<>> /\ cursor[s].search = ""
    /\ program[s] = "initialize" /\ Range(called[s]) \intersect Executing = {} =>
          /\ cursor[s].search \in {"", "initialize"}
          /\ Range(called[s]) = Before(instances[s], Reached(instances[s], cursor[s]))
          /\ InOrder(loaded[s], called[s])
    /\ program[s] = "libraries" /\ Range(called[s]) \intersect Executing = {} =>
          /\ Range(called[s]) = {l \in Range(loaded[s]) \ {NULL} : "initialize" \in Provides[l]}
          /\ InOrder(loaded[s], called[s])
RegistryOrder == \A s \in Start : OrderOf(s)

\* A start that stays as it is, or goes where nothing is registered.
LEMMA OrderStays ==
  ASSUME NEW r \in Start, OrderOf(r),
         loaded'[r] = loaded[r], called'[r] = called[r], cursor'[r] = cursor[r],
         instances'[r] = instances[r] \/ program'[r] \notin Early,
         \/ program'[r] = program[r]
         \/ program'[r] \notin Early
         \/ program[r] \in {"none", "child"} /\ program'[r] \in {"child", "load"}
  PROVE  OrderOf(r)'
<1>1. CASE program'[r] \notin Early BY <1>1 DEF OrderOf, Early
<1>2. CASE program'[r] \in Early
  <2>1. instances'[r] = instances[r] BY <1>2
  <2>2. CASE program'[r] = program[r] BY <2>1, <2>2 DEF OrderOf
  <2>3. CASE program[r] \in {"none", "child"} /\ program'[r] \in {"child", "load"}
    BY <2>1, <2>3 DEF OrderOf
  <2> QED BY <1>2, <2>2, <2>3
<1> QED BY <1>1, <1>2

\* Who comes before another still does when the list grows.
LEMMA BeforeGrows ==
  ASSUME NEW S, NEW list \in Seq(S), NEW z, NEW x, NEW y
  PROVE  /\ ComesBefore(list, x, y) => ComesBefore(Append(list, z), x, y)
         /\ x \in Range(list) /\ z \notin Range(list) => ComesBefore(Append(list, z), x, z)
<1>1. /\ DOMAIN list = 1..Len(list) /\ Len(list) \in Nat
      /\ DOMAIN Append(list, z) = 1..(Len(list) + 1)
      /\ Append(list, z)[Len(list) + 1] = z
      /\ \A i \in 1..Len(list) : Append(list, z)[i] = list[i]
  OBVIOUS
<1>2. ASSUME ComesBefore(list, x, y) PROVE ComesBefore(Append(list, z), x, y)
  <2>1. PICK m \in DOMAIN list : list[m] = x /\ \A n \in 1..m : list[n] # y
    BY <1>2 DEF ComesBefore
  <2>2. m \in DOMAIN Append(list, z) /\ \A n \in 1..m : n \in 1..Len(list) BY <1>1
  <2> QED BY <1>1, <2>1, <2>2 DEF ComesBefore
<1>3. ASSUME x \in Range(list), z \notin Range(list) PROVE ComesBefore(Append(list, z), x, z)
  <2>1. PICK m \in DOMAIN list : list[m] = x BY <1>3 DEF Range
  <2>2. m \in DOMAIN Append(list, z) /\ \A n \in 1..m : n \in 1..Len(list) BY <1>1
  <2>3. \A n \in 1..m : Append(list, z)[n] # z BY <1>1, <1>3, <2>2 DEF Range
  <2> QED BY <1>1, <2>1, <2>2, <2>3 DEF ComesBefore
<1> QED BY <1>2, <1>3

\* In order, a module is in one place only.
LEMMA OnePlace ==
  ASSUME NEW S, NEW all \in Seq(S), NEW list, InOrder(all, list),
         DOMAIN list \subseteq Nat, NEW i \in DOMAIN list, NEW j \in DOMAIN list, list[i] = list[j]
  PROVE  i = j
<1>1. \A x : ~ComesBefore(all, x, x)
  <2> SUFFICES ASSUME NEW m \in DOMAIN all, \A n \in 1..m : all[n] # all[m]
               PROVE  FALSE
    BY DEF ComesBefore
  <2>1. m \in 1..m OBVIOUS
  <2> QED BY <2>1
<1>2. ~(i < j) /\ ~(j < i) BY <1>1 DEF InOrder
<1> QED BY <1>2

\* The least of a set of numbers.
LEMMA Least ==
  ASSUME NEW T \in SUBSET Nat, T # {} PROVE \E n \in T : \A m \in T : n <= m
<1>1. \E x \in T : \A y \in T : ~(<<y, x>> \in OpToRel(<, Nat)) BY NatLessThanWellFounded, WFMin
<1>2. PICK x \in T : \A y \in T : ~(<<y, x>> \in OpToRel(<, Nat)) BY <1>1
<1>3. \A y \in T : ~(y < x)
  <2> TAKE y \in T
  <2>1. <<y, x>> \in Nat \X Nat OBVIOUS
  <2> QED BY <1>2, <2>1 DEF OpToRel
<1> QED BY <1>3

\* What modules_lookup may still find, from a place on.
Left(list, search, from) == {i \in DOMAIN list : i >= from /\ search \in Provides[list[i]]}

\* modules_lookup finds the first that has the interface, if there is one.
LEMMA LookupFirst ==
  ASSUME NEW list \in Seq(Library), NEW search, NEW from
  PROVE  /\ Left(list, search, from) = {} => Lookup(list, search, from) =
                              [module |-> NULL, cursor |-> [search |-> search, at |-> NULL]]
         /\ Left(list, search, from) # {} => \E i \in Left(list, search, from) :
               /\ \A j \in Left(list, search, from) : i <= j
               /\ Lookup(list, search, from).module = list[i]
               /\ Lookup(list, search, from).cursor = [search |-> search, at |-> Place(list, i + 1)]
<1> DEFINE having == Left(list, search, from)
<1>1. ASSUME having # {}
      PROVE  \E i \in having : /\ \A j \in having : i <= j
                               /\ i = CHOOSE k \in having : \A j \in having : k <= j
  <2>1. having \in SUBSET Nat BY DEF Left
  <2> QED BY <1>1, <2>1, Least
<1> QED BY <1>1 DEF Lookup, Left

\* A library whose constructor runs puts its module in the last place, after all
\* that were loaded before it.
LEMMA OrderLoad ==
  ASSUME RegistryTypes, MovesInv, RegistryOrder, NEW s \in Start, Load(s) PROVE RegistryOrder'
<1> DEFINE l == config.libraries[Len(loaded[s]) + 1]
<1>0. config.libraries \in Seq(Library) BY StartupAssumption DEF RegistryTypes
<1>1. /\ program[s] = "load" /\ UNCHANGED <<config, called, cursor>>
      /\ \A r \in Start \ {s} : program'[r] = program[r]
      /\ \A r \in Start \ {s} : loaded'[r] = loaded[r] /\ instances'[r] = instances[r]
  BY ProgramMoves DEF Load, ProgramStep, daemonvars, RegistryTypes
<1>2. /\ called[s] = <<>> /\ cursor[s].search = ""
      /\ instances[s] \in Seq(Library) /\ Range(instances[s]) = Range(loaded[s]) \ {NULL}
      /\ InOrder(loaded[s], instances[s])
  BY <1>1 DEF RegistryOrder, OrderOf
<1> SUFFICES OrderOf(s)' BY <1>1, OrderStays DEF RegistryOrder
<1>3. CASE program'[s] = "initialize" /\ UNCHANGED <<loaded, instances>>
  <2>1. Range(<<>>) = {} BY DEF Range
  <2>2. Before(instances[s], Reached(instances[s], cursor[s])) = {}
    <3>1. Reached(instances[s], cursor[s]) = 1 BY <1>2 DEF Reached
    <3>2. \A i \in DOMAIN instances[s] : i \in Nat /\ ~(i < 1)
      <4>1. instances[s] \in Seq(Library) BY <1>2
      <4>2. DOMAIN instances[s] = 1..Len(instances[s]) /\ Len(instances[s]) \in Nat BY <4>1
      <4> QED BY <4>2
    <3> QED BY <3>1, <3>2 DEF Having, Before
  <2>3. InOrder(loaded[s], <<>>) BY DEF InOrder
  <2>4. <<>> \in Seq(Library) OBVIOUS
  <2> QED BY <1>1, <1>2, <1>3, <2>1, <2>2, <2>3, <2>4 DEF OrderOf
<1>4. ASSUME NEW opens \in BOOLEAN, Len(loaded[s]) # Len(config.libraries),
             loaded' = [loaded EXCEPT ![s] = Append(@, IF opens THEN l ELSE NULL)],
             instances' = [instances EXCEPT ![s] = IF RunsConstructor(s, l, opens)
                                                   THEN Toggled(@, l) ELSE @],
             UNCHANGED program
      PROVE  OrderOf(s)'
  <2> DEFINE x == IF opens THEN l ELSE NULL
  <2>1. loaded[s] \in Seq(Library \union {NULL}) /\ Len(loaded[s]) <= Len(config.libraries)
    BY DEF RegistryTypes
  <2>2. l \in Library
    <3>1. Len(loaded[s]) + 1 \in 1..Len(config.libraries) BY <1>0, <1>4, <2>1
    <3> QED BY <1>0, <3>1
  <2>3. l # NULL BY <2>2, StartupAssumption
  <2> HIDE DEF l
  <2>4. loaded'[s] = Append(loaded[s], x) BY <1>4 DEF RegistryTypes
  <2>5. Range(loaded'[s]) = Range(loaded[s]) \union {x} BY <2>1, <2>4, AppendRange
  <2>6. \A list : InOrder(loaded[s], list) => InOrder(loaded'[s], list)
    <3>1. \A a, b : ComesBefore(loaded[s], a, b) => ComesBefore(loaded'[s], a, b)
      BY <2>1, <2>4, BeforeGrows
    <3> QED BY <3>1 DEF InOrder
  <2>7. called'[s] = <<>> /\ cursor'[s].search = "" BY <1>1, <1>2
  <2>8. <<>> \in Seq(Library) OBVIOUS
  <2>9. CASE opens /\ l \notin Range(loaded[s])
    <3>1. instances'[s] = Append(instances[s], l)
      BY <1>2, <1>4, <2>9 DEF RegistryTypes, RunsConstructor, Toggled, Appended
    <3>2. instances[s] \in Seq(Library) BY <1>2
    <3>3. /\ Append(instances[s], l) \in Seq(Library \union {l})
          /\ Range(Append(instances[s], l)) = Range(instances[s]) \union {l}
      BY <3>2, AppendRange
    <3>4. /\ instances'[s] \in Seq(Library \union {l})
          /\ Range(instances'[s]) = Range(instances[s]) \union {l}
      BY <3>1, <3>3
    <3>5. Library \union {l} = Library BY <2>2
    <3>6. Range(instances'[s]) = Range(loaded'[s]) \ {NULL}
      BY <1>2, <2>3, <2>5, <2>9, <3>4
    <3>7. InOrder(loaded'[s], instances'[s])
      <4> SUFFICES ASSUME NEW i \in DOMAIN instances'[s], NEW j \in DOMAIN instances'[s], i < j
                   PROVE  ComesBefore(loaded'[s], instances'[s][i], instances'[s][j])
        BY DEF InOrder
      <4>1. /\ i \in DOMAIN instances[s] /\ instances'[s][i] = instances[s][i]
            /\ \/ j \in DOMAIN instances[s] /\ instances'[s][j] = instances[s][j]
               \/ instances'[s][j] = l
        <5> DEFINE list == instances[s]
        <5>1. /\ DOMAIN list = 1..Len(list) /\ Len(list) \in Nat
              /\ DOMAIN Append(list, l) = 1..(Len(list) + 1)
              /\ Append(list, l)[Len(list) + 1] = l
              /\ \A k \in 1..Len(list) : Append(list, l)[k] = list[k]
          BY <3>2
        <5> HIDE DEF list
        <5>2. i \in 1..(Len(list) + 1) /\ j \in 1..(Len(list) + 1) BY <3>1, <5>1 DEF list
        <5>3. i \in 1..Len(list) /\ (j \in 1..Len(list) \/ j = Len(list) + 1) BY <5>1, <5>2
        <5> QED BY <3>1, <5>1, <5>3 DEF list
      <4>2. CASE j \in DOMAIN instances[s] /\ instances'[s][j] = instances[s][j]
        <5>1. ComesBefore(loaded[s], instances[s][i], instances[s][j])
          BY <1>2, <4>1, <4>2 DEF InOrder
        <5> QED BY <2>1, <2>4, <4>1, <4>2, <5>1, BeforeGrows
      <4>3. CASE instances'[s][j] = l
        <5>1. instances[s][i] \in Range(loaded[s]) BY <1>2, <4>1 DEF Range
        <5>2. x = l BY <2>9
        <5> QED BY <2>1, <2>4, <2>9, <4>1, <4>3, <5>1, <5>2, BeforeGrows
      <4> QED BY <4>1, <4>2, <4>3
    <3> QED BY <1>1, <1>4, <2>7, <2>8, <3>4, <3>6, <3>7, <3>5 DEF OrderOf
  <2>10. CASE ~(opens /\ l \notin Range(loaded[s]))
    <3>1. instances'[s] = instances[s] BY <1>4, <2>10 DEF RegistryTypes, RunsConstructor
    <3>2. Range(loaded'[s]) \ {NULL} = Range(loaded[s]) \ {NULL} BY <2>5, <2>10
    <3>3. InOrder(loaded'[s], instances'[s]) BY <1>2, <2>6, <3>1
    <3> QED BY <1>1, <1>2, <1>4, <2>7, <2>8, <3>1, <3>2, <3>3 DEF OrderOf
  <2> QED BY <2>9, <2>10
<1> QED BY <1>1, <1>3, <1>4 DEF Load, Goes, MovesInv

\* The next module to initialise is the first one left, and then one less is left.
LEMMA NextInOrder ==
  ASSUME NEW S, NEW all \in Seq(S), NEW list \in Seq(Library), InOrder(all, list),
         NEW got \in Seq(Library), InOrder(all, got), NEW from \in Nat,
         Range(got) = Before(list, from),
         NEW hit, hit = Lookup(list, "initialize", from)
  PROVE  /\ hit.module = NULL => Range(got) = {l \in Range(list) : "initialize" \in Provides[l]}
         /\ hit.module # NULL =>
               /\ hit.module \in Library
               /\ hit.cursor.search = "initialize"
               /\ Range(Append(got, hit.module)) =
                     Before(list, Reached(list, hit.cursor))
               /\ InOrder(all, Append(got, hit.module))
<1>1. DOMAIN list = 1..Len(list) /\ Len(list) \in Nat OBVIOUS
<1>2. \A i \in DOMAIN list : list[i] \in Library /\ list[i] # NULL
  <2>1. \A i \in DOMAIN list : list[i] \in Library OBVIOUS
  <2> QED BY <2>1, StartupAssumption
<1> DEFINE having == Left(list, "initialize", from)
<1>3. /\ having = {} => hit = [module |-> NULL, cursor |-> [search |-> "initialize", at |-> NULL]]
      /\ having # {} => \E i \in having :
            /\ \A j \in having : i <= j
            /\ hit.module = list[i]
            /\ hit.cursor = [search |-> "initialize", at |-> Place(list, i + 1)]
  BY LookupFirst
<1>4. ASSUME hit.module = NULL
      PROVE  Range(got) = {l \in Range(list) : "initialize" \in Provides[l]}
  <2>1. having = {}
    <3>1. \A i \in having : i \in DOMAIN list BY DEF Left
    <3> HIDE DEF having
    <3> QED BY <1>2, <1>3, <1>4, <3>1
  <2>2. \A i \in Having(list) : i < from BY <1>1, <2>1 DEF Having, Left
  <2>3. Range(got) = {list[i] : i \in Having(list)} BY <2>2 DEF Before
  <2> QED BY <2>3 DEF Having, Range
<1>5. ASSUME hit.module # NULL
      PROVE  /\ hit.module \in Library
             /\ hit.cursor.search = "initialize"
             /\ Range(Append(got, hit.module)) =
                   Before(list, Reached(list, hit.cursor))
             /\ InOrder(all, Append(got, hit.module))
  <2>1. having # {} BY <1>3, <1>5
  <2>2. PICK i \in having :
            /\ \A j \in having : i <= j
            /\ hit.module = list[i]
            /\ hit.cursor = [search |-> "initialize", at |-> Place(list, i + 1)]
    BY <1>3, <2>1
  <2>3. /\ i \in DOMAIN list /\ i \in 1..Len(list) /\ i \in Nat /\ i >= from
        /\ i \in Having(list) /\ list[i] \in Library
    BY <1>1, <1>2 DEF Having, Left
  <2>4. Reached(list, hit.cursor) = i + 1
    <3>1. Reached(list, hit.cursor) = IndexIn(list, Place(list, i + 1)) 
      <4>1. hit.cursor.search = "initialize" /\ hit.cursor.at = Place(list, i + 1) BY <2>2
      <4> QED BY <4>1 DEF Reached
    <3>2. CASE i + 1 \in DOMAIN list
      <4>1. \A k \in DOMAIN list : list[k] = list[i + 1] => k = i + 1
        <5>1. DOMAIN list \subseteq Nat BY <1>1
        <5> QED BY <3>2, <5>1, OnePlace
      <4>2. Place(list, i + 1) = list[i + 1] /\ list[i + 1] # NULL BY <1>2, <3>2 DEF Place
      <4>3. (CHOOSE k \in DOMAIN list : list[k] = list[i + 1]) = i + 1 BY <3>2, <4>1
      <4> QED BY <3>1, <4>2, <4>3 DEF IndexIn
    <3>3. CASE i + 1 \notin DOMAIN list
      <4>1. i = Len(list) BY <1>1, <2>3, <3>3
      <4>2. Place(list, i + 1) = NULL BY <3>3 DEF Place
      <4> QED BY <3>1, <4>1, <4>2 DEF IndexIn
    <3> QED BY <3>2, <3>3
  <2>5. {k \in Having(list) : k < i + 1} = {k \in Having(list) : k < from} \union {i}
    <3>1. \A k \in Having(list) : k \in DOMAIN list /\ k \in Nat /\ (k >= from => k \in having)
      BY <1>1 DEF Having, Left
    <3>2. \A k \in Having(list) : k < i + 1 <=> k < from \/ k = i
      <4> SUFFICES ASSUME NEW k \in Having(list) PROVE k < i + 1 <=> k < from \/ k = i
        OBVIOUS
      <4>1. k \in Nat /\ (k >= from => i <= k) BY <2>2, <3>1
      <4> QED BY <2>3, <4>1
    <3> HIDE DEF having
    <3> QED BY <2>3, <3>2
  <2>6. Range(Append(got, list[i])) = Range(got) \union {list[i]} BY AppendRange
  <2>7. Before(list, i + 1) = Range(got) \union {list[i]}
    <3> HIDE DEF having
    <3> QED BY <2>5 DEF Before
  <2>8. InOrder(all, Append(got, list[i]))
    <3>1. /\ DOMAIN got = 1..Len(got) /\ Len(got) \in Nat
          /\ DOMAIN Append(got, list[i]) = 1..(Len(got) + 1)
          /\ Append(got, list[i])[Len(got) + 1] = list[i]
          /\ \A k \in 1..Len(got) : Append(got, list[i])[k] = got[k]
      OBVIOUS
    <3> SUFFICES ASSUME NEW a \in DOMAIN Append(got, list[i]),
                        NEW b \in DOMAIN Append(got, list[i]), a < b
                 PROVE  ComesBefore(all, Append(got, list[i])[a], Append(got, list[i])[b])
      BY DEF InOrder
    <3>2. a \in 1..Len(got) /\ (b \in 1..Len(got) \/ b = Len(got) + 1) BY <3>1
    <3>3. CASE b \in 1..Len(got)
      <4>1. ComesBefore(all, got[a], got[b]) BY <3>1, <3>2, <3>3 DEF InOrder
      <4> QED BY <3>1, <3>2, <3>3, <4>1
    <3>4. CASE b = Len(got) + 1
      <4>1. got[a] \in Range(got) BY <3>1, <3>2 DEF Range
      <4>2. PICK k \in Having(list) : k < from /\ got[a] = list[k] BY <4>1 DEF Before
      <4>3. k \in DOMAIN list /\ k \in Nat /\ k < i BY <1>1, <2>3, <4>2 DEF Having
      <4>4. ComesBefore(all, list[k], list[i]) BY <2>3, <4>3 DEF InOrder
      <4> QED BY <3>1, <3>2, <3>4, <4>2, <4>4
    <3> QED BY <3>2, <3>3, <3>4
  <2>9. hit.module = list[i] /\ hit.cursor.search = "initialize" BY <2>2
  <2>10. Before(list, Reached(list, hit.cursor)) = Range(got) \union {list[i]}
    <3> HIDE DEF having
    <3> QED BY <2>4, <2>7
  <2> QED BY <2>3, <2>6, <2>8, <2>9, <2>10
<1> QED BY <1>4, <1>5

\* A module that is initialised is the next in order.
LEMMA OrderInitialize ==
  ASSUME RegistryTypes, MovesInv, RegistryOrder, NEW s \in Start, Initialize(s)
  PROVE  RegistryOrder'
<1> DEFINE list == instances[s]
           first == cursor[s].search = ""
           search == IF first THEN "initialize" ELSE cursor[s].search
           from == IF first THEN 1 ELSE IndexIn(list, cursor[s].at)
           hit == Lookup(list, search, from)
<1>1. \/ /\ hit.module = NULL /\ cursor' = [cursor EXCEPT ![s] = hit.cursor]
         /\ Goes(s, "libraries") /\ UNCHANGED called
      \/ /\ hit.module # NULL /\ called' = [called EXCEPT ![s] = Append(@, hit.module)]
         /\ UNCHANGED program \/ Goes(s, "died")
         /\ \/ hit.module \notin Executing /\ cursor' = [cursor EXCEPT ![s] = hit.cursor]
            \/ /\ hit.module \in Executing
               /\ \E after : cursor' = [cursor EXCEPT ![s] = after]
  <2>1. CASE hit.module = NULL BY <2>1 DEF Initialize
  <2>2. CASE hit.module # NULL /\ hit.module \notin Executing BY <2>2 DEF Initialize
  <2>3. CASE hit.module # NULL /\ hit.module \in Executing BY <2>3 DEF Initialize
  <2> QED BY <2>1, <2>2, <2>3
<1>2. program[s] = "initialize" /\ UNCHANGED <<loaded, instances>> BY DEF Initialize
<1> HIDE DEF hit
<1>3. OrderOf(s) BY DEF RegistryOrder
<1>4. /\ list \in Seq(Library) /\ Range(list) = Range(loaded[s]) \ {NULL}
      /\ InOrder(loaded[s], list) /\ called[s] \in Seq(Library)
  BY <1>2, <1>3 DEF OrderOf
<1>5. loaded[s] \in Seq(Library \union {NULL}) /\ DOMAIN cursor = Start BY DEF RegistryTypes
<1>6. DOMAIN called = Start /\ DOMAIN program = Start BY DEF RegistryTypes, MovesInv
<1> SUFFICES OrderOf(s)'
  <2> SUFFICES ASSUME NEW r \in Start, r # s PROVE OrderOf(r)' BY DEF RegistryOrder
  <2>1. program'[r] = program[r] BY ProgramMoves DEF ProgramStep
  <2>2. called'[r] = called[r] BY <1>1, <1>6
  <2>3. cursor'[r] = cursor[r] BY <1>1, <1>5
  <2>4. loaded'[r] = loaded[r] /\ instances'[r] = instances[r] BY <1>2
  <2>5. OrderOf(r) BY DEF RegistryOrder
  <2> QED BY <2>1, <2>2, <2>3, <2>4, <2>5, OrderStays
<1>7. ASSUME Range(called[s]) \intersect Executing = {}
      PROVE  /\ hit.module = NULL => Range(called[s]) = {l \in Range(list) : "initialize" \in Provides[l]}
             /\ hit.module # NULL =>
                   /\ hit.cursor.search = "initialize"
                   /\ Range(Append(called[s], hit.module)) =
                         Before(list, Reached(list, hit.cursor))
                   /\ InOrder(loaded[s], Append(called[s], hit.module))
             /\ InOrder(loaded[s], called[s])
  <2>1. /\ cursor[s].search \in {"", "initialize"}
        /\ Range(called[s]) = Before(list, Reached(list, cursor[s]))
        /\ InOrder(loaded[s], called[s])
    BY <1>2, <1>3, <1>7 DEF OrderOf
  <2>2. search = "initialize" /\ from = Reached(list, cursor[s]) BY <2>1 DEF Reached
  <2>3. hit = Lookup(list, "initialize", from) BY <2>2 DEF hit
  <2>4. from \in Nat
    <3>1. DOMAIN list = 1..Len(list) /\ Len(list) \in Nat
      <4>1. list \in Seq(Library) BY <1>4
      <4> QED BY <4>1
    <3>2. cursor[s].at \in Range(list) \union {NULL} BY DEF RegistryTypes
    <3> HIDE DEF list
    <3>3. IndexIn(list, cursor[s].at) \in Nat BY <3>1, <3>2 DEF IndexIn, Range
    <3> QED BY <3>3
  <2>5. Range(called[s]) = Before(list, from) BY <2>1, <2>2
  <2>6. /\ list \in Seq(Library) /\ called[s] \in Seq(Library)
        /\ InOrder(loaded[s], list) /\ InOrder(loaded[s], called[s])
    BY <1>4, <2>1
  <2> HIDE DEF list, from, search, first
  <2>7. hit.module = NULL => Range(called[s]) = {l \in Range(list) : "initialize" \in Provides[l]}
    BY <1>5, <2>3, <2>4, <2>5, <2>6, NextInOrder
  <2>8. ASSUME hit.module # NULL
        PROVE  /\ hit.cursor.search = "initialize"
               /\ Range(Append(called[s], hit.module)) =
                     Before(list, Reached(list, hit.cursor))
               /\ InOrder(loaded[s], Append(called[s], hit.module))
    <3>1. hit.cursor.search = "initialize"
      BY <1>5, <2>3, <2>4, <2>5, <2>6, <2>8, NextInOrder
    <3>2. Range(Append(called[s], hit.module)) =
             Before(list, Reached(list, hit.cursor))
      BY <1>5, <2>3, <2>4, <2>5, <2>6, <2>8, NextInOrder
    <3>3. InOrder(loaded[s], Append(called[s], hit.module))
      BY <1>5, <2>3, <2>4, <2>5, <2>6, <2>8, NextInOrder
    <3> QED BY <3>1, <3>2, <3>3
  <2> QED BY <2>6, <2>7, <2>8
<1>8. hit.module # NULL => hit.module \in Library
  <2>1. \A i \in DOMAIN list : list[i] \in Library
    <3>1. list \in Seq(Library) BY <1>4
    <3> QED BY <3>1
  <2>2. hit.module # NULL => \E i \in DOMAIN list : hit.module = list[i]
    <3>1. list \in Seq(Library) BY <1>4
    <3>2. \A i : i \in Left(list, search, from) => i \in DOMAIN list BY DEF Left
    <3>3. Left(list, search, from) # {} => \E i \in Left(list, search, from) : hit.module = list[i]
      <4> HIDE DEF list, search, from
      <4> QED BY <3>1, LookupFirst DEF hit
    <3>4. Left(list, search, from) = {} => hit.module = NULL
      <4> HIDE DEF list, search, from
      <4> QED BY <3>1, LookupFirst DEF hit
    <3> HIDE DEF list, search, from
    <3> QED BY <3>2, <3>3, <3>4
  <2> QED BY <2>1, <2>2
<1>9. CASE hit.module = NULL
  <2>1. program'[s] = "libraries" /\ called' = called BY <1>1, <1>6, <1>9 DEF Goes
  <2>2. ASSUME Range(called[s]) \intersect Executing = {}
        PROVE  /\ Range(called[s]) = {l \in Range(loaded[s]) \ {NULL} : "initialize" \in Provides[l]}
               /\ InOrder(loaded[s], called[s])
    BY <1>4, <1>7, <1>9, <2>2
  <2> QED BY <1>2, <1>4, <2>1, <2>2 DEF OrderOf
<1>10. CASE hit.module # NULL
  <2>1. /\ called'[s] = Append(called[s], hit.module)
        /\ program'[s] \in {"initialize", "died"}
        /\ hit.module \notin Executing => cursor'[s] = hit.cursor
    BY <1>1, <1>2, <1>5, <1>6, <1>10 DEF Goes
  <2>2. /\ called'[s] \in Seq(Library) /\ Range(called'[s]) = Range(called[s]) \union {hit.module}
    <3>1. called[s] \in Seq(Library) /\ hit.module \in Library BY <1>4, <1>8, <1>10
    <3>2. Library \union {hit.module} = Library BY <3>1
    <3> QED BY <2>1, <3>1, <3>2, AppendRange
  <2>3. CASE Range(called'[s]) \intersect Executing # {}
    BY <1>2, <1>4, <2>1, <2>2, <2>3 DEF OrderOf
  <2>4. CASE Range(called'[s]) \intersect Executing = {}
    <3>1. Range(called[s]) \intersect Executing = {} /\ hit.module \notin Executing
      BY <2>2, <2>4
    <3>2. /\ cursor'[s].search = "initialize"
          /\ Range(called'[s]) =
                Before(list, Reached(list, cursor'[s]))
          /\ InOrder(loaded[s], called'[s])
      BY <1>7, <1>10, <2>1, <3>1
    <3> QED BY <1>2, <1>4, <2>1, <2>2, <3>2 DEF OrderOf
  <2> QED BY <2>3, <2>4
<1> QED BY <1>9, <1>10

\* The other steps do not change the order.
LEMMA OrderElsewhere ==
  ASSUME RegistryTypes, MovesInv, RegistryOrder, NEW s \in Start,
         \/ LauncherStep(s) \/ Detach(s) \/ Open(s) \/ Probe(s)
         \/ Prepare(s) \/ CarryOut(s) \/ Test(s) \/ Kill(s) \/ AddLibraries(s)
  PROVE  RegistryOrder'
<1>1. CASE AddLibraries(s)
  <2>1. /\ UNCHANGED <<loaded, cursor, called>>
        /\ program'[s] \notin Early
        /\ \A r \in Start \ {s} : program'[r] = program[r] /\ instances'[r] = instances[r]
    BY <1>1, ProgramMoves
       DEF AddLibraries, ProgramStep, daemonvars, MovesInv, Goes, Early, RegistryTypes
  <2> QED BY <2>1, OrderStays DEF RegistryOrder
<1>2. CASE ~AddLibraries(s)
  BY <1>2, ElsewhereMoves, OrderStays DEF RegistryOrder, modulevars
<1> QED BY <1>1, <1>2

\* The registry holds the modules of the libraries that were loaded, the cursor
\* of modules_lookup never points anywhere else, and every module that can be
\* initialised is, once and in order (modules, modules_lookup, main).
THEOREM Registry == Spec => []RegistryInv
<1>1. Init => RegistryTypes /\ RegistryOrder
  <2> SUFFICES ASSUME Init PROVE RegistryTypes /\ RegistryOrder OBVIOUS
  <2>1. /\ \A s \in Start : /\ loaded[s] = <<>> /\ instances[s] = <<>> /\ called[s] = <<>>
                            /\ cursor[s].at = NULL /\ cursor[s].search = "" /\ program[s] = "none"
        /\ config \in Config /\ DOMAIN cursor = Start /\ DOMAIN called = Start
    BY DEF Init
  <2>2. \A S : <<>> \in Seq(S) /\ Len(<<>>) = 0 OBVIOUS
  <2>3. Range(<<>>) = {} BY DEF Range
  <2>4. Len(config.libraries) \in Nat
    <3>1. config.libraries \in Seq(Library) BY <2>1, StartupAssumption
    <3> QED BY <3>1
  <2>5. /\ loaded \in [Start -> Seq(Library \union {NULL})]
        /\ instances \in [Start -> Seq(Library \union {"suitcase"})]
        /\ writers \in [Start -> SUBSET {"parent", "child"}]
    BY <2>2 DEF Init
  <2>6. RegistryTypes
    <3>1. \A s \in Start : /\ Len(loaded[s]) <= Len(config.libraries)
                           /\ Range(instances[s]) = {}
                           /\ cursor[s].at = NULL
      <4>1. Len(<<>>) = 0 OBVIOUS
      <4>2. Len(<<>>) <= Len(config.libraries) BY <2>4, <4>1
      <4> QED BY <2>1, <2>3, <4>2
    <3> QED BY <2>1, <2>5, <3>1 DEF RegistryTypes
  <2>7. RegistryOrder
    <3>1. \A all : InOrder(all, <<>>) BY DEF InOrder
    <3> QED BY <2>1, <2>2, <2>3, <3>1 DEF RegistryOrder, OrderOf
  <2> QED BY <2>6, <2>7
<1>2. RegistryTypes /\ MovesInv /\ [Next]_vars => RegistryTypes'
  <2>1. ASSUME RegistryTypes, UNCHANGED vars PROVE RegistryTypes'
    BY <2>1 DEF vars, modulevars, RegistryTypes
  <2> QED BY <2>1, LoadKeeps, InitializeKeeps, AddKeeps, ElsewhereKeeps DEF Next, ProgramStep
<1>3. RegistryTypes /\ MovesInv /\ RegistryOrder /\ [Next]_vars => RegistryOrder'
  <2>1. ASSUME RegistryOrder, UNCHANGED vars PROVE RegistryOrder'
    BY <2>1, OrderStays DEF vars, modulevars, RegistryOrder
  <2> QED BY <2>1, OrderLoad, OrderInitialize, OrderElsewhere DEF Next, ProgramStep
<1>4. RegistryTypes /\ MovesInv => TypeOK
  BY DEF RegistryTypes, MovesInv, TypeOK, LauncherAt, Where
<1>5. RegistryOrder => InitialisedInOrder
  BY DEF RegistryOrder, OrderOf, InOrder, InitialisedInOrder
<1> QED BY <1>1, <1>2, <1>3, <1>4, <1>5, Moves, PTL DEF Spec, RegistryInv

-----------------------------------------------------------------------------
(* The tables.                                                             *)

\* A start comes to a statement only when the tables before it are there.
WayInv ==
    /\ \A s \in Start : program[s] = "create" =>
          /\ at[s].n \in 1..5
          /\ at[s].n >= 2 => "version" \in db
          /\ at[s].n >= 3 => "tables" \in db
          /\ at[s].n >= 4 => "dependency" \in db
    /\ \A s \in Start : program[s] = "upgrade" => at[s].n \in 1..4

\* What is not complete is owed by a start that is about to complete it: the one
\* that created the table before, or dropped the index.
Owing(plan, n) == \E r \in Start : program[r] = plan /\ at[r].n = n
OwedInv ==
    /\ \A s \in Start : program[s] \in {"upgrade", "test"} /\ config.datasource = "opens"
                        => "version" \in db
    /\ "version" \in db /\ "tables" \notin db => Owing("create", 2)
    /\ "tables" \in db /\ "dependency" \notin db => Owing("create", 3)
    /\ "zoneId" \in db /\ "index" \notin db => Owing("create", 4) \/ Owing("upgrade", 2)

\* Once a start has found all the tables, nobody creates any, so the index
\* stays away once it is dropped.
FoundInv ==
    /\ found \subseteq Start
    /\ found # {} => /\ "version" \in db
                     /\ \A s \in Start : program[s] = "create" => at[s].n = 1 /\ ~at[s].ready
    /\ \A s \in found :
          /\ program[s] \in {"upgrade", "test", "ended", "died"}
          /\ program[s] = "test" \/ (program[s] = "upgrade" /\ at[s].n >= 2)
             => spoiled \/ "index" \notin db

SchemaInv == /\ spoiled \in BOOLEAN /\ (spoiled \/ OwedInv)
             /\ WayInv /\ FoundInv

\* A step away from the tables: programs come and go, none to create or upgrade.
Quiet == /\ UNCHANGED <<schemavars, config>>
         /\ \A r \in Start :
              \/ program'[r] = program[r]
              \/ /\ program[r] \notin {"create", "upgrade"}
                 /\ program'[r] \in {"ended", "died"}
              \/ /\ program[r] \in (Going \union {"none"}) \ {"create", "upgrade", "test"}
                 /\ program'[r] \in Going \ {"create", "upgrade"}
                 /\ program'[r] = "test" => config.datasource # "opens"

\* What comes before the tables does not change them.
LEMMA QuietSteps ==
  ASSUME MovesInv, NEW s \in Start,
         \/ LauncherStep(s)
         \/ Detach(s) \/ Load(s) \/ Initialize(s) \/ AddLibraries(s) \/ Open(s) \/ Test(s)
  PROVE  Quiet
<1> USE DEF MovesInv, Goes, Quiet, schemavars, Where, Going
<1>1. CASE LauncherStep(s) BY <1>1, LauncherMoves
<1>2. CASE Detach(s) BY <1>2 DEF Detach
<1>3. CASE Load(s) BY <1>3 DEF Load
<1>4. CASE Initialize(s) BY <1>4 DEF Initialize
<1>5. CASE AddLibraries(s) BY <1>5 DEF AddLibraries
<1>6. CASE Open(s)
  <2>1. CASE config.datasource = "opens" BY <1>6, <2>1 DEF Open
  <2>2. CASE config.datasource = "fails" BY <1>6, <2>2 DEF Open
  <2>3. CASE config.datasource \notin {"opens", "fails"} BY <1>6, <2>3 DEF Open
  <2> QED BY <2>1, <2>2, <2>3
<1>7. CASE Test(s) BY <1>7 DEF Test
<1> QED BY <1>1, <1>2, <1>3, <1>4, <1>5, <1>6, <1>7

\* So it keeps what is owed.
LEMMA QuietKeeps ==
  ASSUME MovesInv, SchemaInv, Quiet PROVE SchemaInv'
<1> USE DEF Quiet, schemavars, Going
<1>1. WayInv' BY DEF WayInv, SchemaInv
<1>2. ASSUME OwedInv PROVE OwedInv'
  <2>1. \A r \in Start : program[r] \in {"create", "upgrade"} => program'[r] = program[r]
    OBVIOUS
  <2>2. \A plan \in {"create", "upgrade"}, n \in 1..4 : Owing(plan, n) => Owing(plan, n)'
    BY <2>1 DEF Owing
  <2>3. \A r \in Start : program'[r] \in {"upgrade", "test"} /\ config'.datasource = "opens"
                          => program[r] \in {"upgrade", "test"} /\ config.datasource = "opens"
    OBVIOUS
  <2>4. db' = db OBVIOUS
  <2> HIDE DEF Quiet
  <2> QED BY <1>2, <2>2, <2>3, <2>4 DEF OwedInv
<1>3. FoundInv' BY DEF FoundInv, SchemaInv
<1> QED BY <1>1, <1>2, <1>3 DEF SchemaInv

\* A start takes what is there for an old version, and nobody creates anything
\* after all the tables were found.
LEMMA ProbeKeeps ==
  ASSUME MovesInv, SchemaInv, NEW s \in Start, Probe(s) PROVE SchemaInv'
<1>1. /\ program[s] = "probe" /\ UNCHANGED <<db, spoiled, config>>
      /\ program'[s] \in {"create", "upgrade"} /\ at'[s] = [n |-> 1, ready |-> FALSE]
      /\ \A r \in Start \ {s} : program'[r] = program[r] /\ at'[r] = at[r]
      /\ program'[s] = "upgrade" => "version" \in db
      /\ found' # found => /\ found' = found \union {s} /\ Tables \subseteq db
                           /\ program'[s] = "upgrade"
                           /\ \A r \in Start : program[r] # "create"
  BY DEF Probe, Goes, MovesInv, Tables
<1>2. WayInv' BY <1>1 DEF SchemaInv, WayInv
<1>3. ASSUME OwedInv PROVE OwedInv'
  <2>1. \A plan \in {"create", "upgrade"}, n \in 1..4 : Owing(plan, n) => Owing(plan, n)'
    BY <1>1 DEF Owing
  <2> QED BY <1>1, <1>3, <2>1 DEF OwedInv
<1>4. FoundInv'
  <2>1. CASE found' = found BY <1>1, <2>1 DEF SchemaInv, FoundInv
  <2>2. CASE found' # found BY <1>1, <2>2 DEF SchemaInv, FoundInv, Tables
  <2> QED BY <2>1, <2>2
<1> QED BY <1>1, <1>2, <1>3, <1>4 DEF SchemaInv

\* Whoever cannot go on found the next table there, or the column gone.
LEMMA PrepareKeeps ==
  ASSUME MovesInv, SchemaInv, NEW s \in Start, Prepare(s) PROVE SchemaInv'
<1>1. /\ program[s] \in {"create", "upgrade"} /\ ~at[s].ready /\ UNCHANGED <<db, found, config>>
      /\ \A r \in Start \ {s} : program'[r] = program[r] /\ at'[r] = at[r]
      /\ at'[s].n = at[s].n
  BY DEF Prepare, Goes, MovesInv
<1>2. CASE CanGoOn(s) /\ UNCHANGED <<program, spoiled>>
  <2>1. WayInv' BY <1>1, <1>2 DEF SchemaInv, WayInv
  <2>2. OwedInv => OwedInv' BY <1>1, <1>2 DEF OwedInv, Owing
  <2>3. ASSUME found # {} PROVE program[s] # "create"
    <3>1. program[s] = "create" => at[s].n = 1 /\ "version" \in db BY <2>3 DEF SchemaInv, FoundInv
    <3> QED BY <1>2, <3>1, PlanFacts DEF CanGoOn, Can, CanCreate
  <2>4. FoundInv' BY <1>1, <1>2, <2>3 DEF SchemaInv, FoundInv
  <2> QED BY <1>2, <2>1, <2>2, <2>4 DEF SchemaInv
<1>3. CASE program' = [program EXCEPT ![s] = "test"] /\ UNCHANGED at /\ spoiled' = TRUE
  <2>1. program'[s] = "test" BY <1>3 DEF MovesInv
  <2>2. WayInv' BY <1>1, <1>3, <2>1 DEF SchemaInv, WayInv
  <2>3. FoundInv' BY <1>1, <1>3, <2>1 DEF SchemaInv, FoundInv
  <2> QED BY <1>3, <2>2, <2>3 DEF SchemaInv
<1>4. CASE program' = [program EXCEPT ![s] = "test"] /\ UNCHANGED <<at, spoiled>> /\ ~CanGoOn(s)
  <2>1. program'[s] = "test" BY <1>4 DEF MovesInv
  <2>2. WayInv' BY <1>1, <1>4, <2>1 DEF SchemaInv, WayInv
  <2>3. program[s] = "create" => /\ at[s].n = 1 => "version" \in db
                                 /\ at[s].n = 2 => "tables" \in db
                                 /\ at[s].n = 3 => "dependency" \in db
                                 /\ at[s].n = 4 => "index" \in db \/ "zoneId" \notin db
    BY <1>4, PlanFacts DEF CanGoOn, Can, CanCreate
  <2>4. program[s] = "upgrade" => /\ at[s].n = 1 => "index" \notin db
                                  /\ at[s].n = 2 => "zoneId" \notin db
    BY <1>4, PlanFacts DEF CanGoOn, Can, CanDrop
  <2>5. ASSUME OwedInv PROVE OwedInv'
    <3>1. \A plan \in {"create", "upgrade"}, n \in 1..4 :
             Owing(plan, n) => Owing(plan, n)' \/ (program[s] = plan /\ at[s].n = n)
      BY <1>1, <1>4 DEF Owing
    <3>2. config.datasource = "opens" => "version" \in db
      BY <1>1, <2>3, <2>5 DEF SchemaInv, WayInv, OwedInv
    <3> QED BY <1>1, <1>4, <2>1, <2>3, <2>4, <2>5, <3>1, <3>2 DEF OwedInv
  <2>6. FoundInv' BY <1>1, <1>4, <2>1, <2>4 DEF SchemaInv, FoundInv, WayInv
  <2> QED BY <1>4, <2>2, <2>5, <2>6 DEF SchemaInv
<1> QED BY <1>2, <1>3, <1>4 DEF Prepare, Goes

\* A statement that is carried out settles what was owed, or was not needed.
LEMMA CarryOutKeeps ==
  ASSUME MovesInv, SchemaInv, NEW s \in Start, CarryOut(s) PROVE SchemaInv'
<1> DEFINE n == at[s].n
<1>1. /\ program[s] \in {"create", "upgrade"} /\ at[s].ready /\ n <= All(s)
      /\ UNCHANGED <<program, found, spoiled, config>>
      /\ at'[s] = [n |-> n + 1, ready |-> FALSE]
      /\ \A r \in Start \ {s} : at'[r] = at[r]
  BY DEF CarryOut, MovesInv
<1>2. n \in Nat /\ n >= 1 BY <1>1 DEF MovesInv, SchemaInv, WayInv
<1>3. CASE program[s] = "create"
  <2>1. n \in 1..4 BY <1>1, <1>2, <1>3, PlanFacts
  <2>2. db' = IF CanCreate(Plan(s)[n]) THEN db \union Create(Plan(s)[n]) ELSE db
    BY <1>3 DEF CarryOut, Can
  <2>3. n = 1 => db' = db \union {"version"} BY <1>3, <2>2, PlanFacts DEF CanCreate, Create
  <2>4. n = 2 => db' = db \union {"tables"} BY <1>3, <2>2, PlanFacts DEF CanCreate, Create
  <2>5. n = 3 => db' = IF "dependency" \in db THEN db ELSE db \union {"dependency", "zoneId"}
    <3>1. Create("dependency") = {"dependency", "zoneId"} BY DEF Create
    <3>2. CanCreate("dependency") <=> "dependency" \notin db BY DEF CanCreate
    <3>3. n = 3 => Plan(s)[n] = "dependency" BY <1>3, PlanFacts
    <3>4. CASE CanCreate("dependency") BY <2>2, <3>1, <3>2, <3>3, <3>4
    <3>5. CASE ~CanCreate("dependency") BY <2>2, <3>2, <3>3, <3>5
    <3> QED BY <3>4, <3>5
  <2>6. n = 4 => db' = db \union (IF "zoneId" \in db THEN {"index"} ELSE {})
    <3>1. Create("index") = {"index"} BY DEF Create
    <3>2. CanCreate("index") <=> "index" \notin db /\ "zoneId" \in db BY DEF CanCreate
    <3>3. n = 4 => Plan(s)[n] = "index" BY <1>3, PlanFacts
    <3> QED BY <2>2, <3>1, <3>2, <3>3
  <2>7. WayInv' BY <1>1, <1>2, <1>3, <2>1, <2>3, <2>4, <2>5, <2>6 DEF SchemaInv, WayInv
  <2>8. ASSUME OwedInv PROVE OwedInv'
    <3>1. \A plan \in {"create", "upgrade"}, m \in 1..4 :
             Owing(plan, m) => Owing(plan, m)' \/ (plan = "create" /\ m = n)
      BY <1>1, <1>3 DEF Owing
    <3>2. /\ n = 1 => Owing("create", 2)'
          /\ n = 2 => Owing("create", 3)'
          /\ n = 3 => Owing("create", 4)'
      BY <1>1, <1>3 DEF Owing
    <3>3. "version" \in db' BY <1>1, <1>2, <1>3, <2>1, <2>3, <2>4, <2>5, <2>6 DEF SchemaInv, WayInv
    <3>4. CASE n = 1
      BY <1>1, <1>3, <2>3, <2>8, <3>1, <3>2, <3>3, <3>4 DEF OwedInv
    <3>5. CASE n = 2
      BY <1>1, <1>3, <2>4, <2>8, <3>1, <3>2, <3>3, <3>5 DEF OwedInv
    <3>6. CASE n = 3
      BY <1>1, <1>3, <2>5, <2>8, <3>1, <3>2, <3>3, <3>6 DEF OwedInv
    <3>7. CASE n = 4
      BY <1>1, <1>3, <2>6, <2>8, <3>1, <3>3, <3>7 DEF OwedInv
    <3> QED BY <2>1, <3>4, <3>5, <3>6, <3>7
  <2>9. found = {} BY <1>1, <1>3 DEF SchemaInv, FoundInv
  <2>10. FoundInv' BY <1>1, <2>9 DEF FoundInv
  <2> QED BY <1>1, <2>7, <2>8, <2>10 DEF SchemaInv
<1>4. CASE program[s] = "upgrade"
  <2>1. n \in 1..3 BY <1>1, <1>2, <1>4, PlanFacts
  <2>2. db' = IF CanDrop(Plan(s)[n]) THEN db \ Drop(Plan(s)[n]) ELSE db
    BY <1>4 DEF CarryOut, Can
  <2>3. n = 1 => db' = db \ {"index"} BY <1>4, <2>2, PlanFacts DEF CanDrop, Drop
  <2>4. n = 2 => db' = IF "index" \in db THEN db ELSE db \ {"zoneId"}
    BY <1>4, <2>2, PlanFacts DEF CanDrop, Drop
  <2>5. n = 3 => db' = db BY <1>4, <2>2, PlanFacts DEF CanDrop, Drop
  <2>6. db' \subseteq db /\ db \ db' \subseteq {"index", "zoneId"}
    BY <2>1, <2>3, <2>4, <2>5
  <2>7. WayInv' BY <1>1, <1>2, <1>4, <2>1, <2>6 DEF SchemaInv, WayInv
  <2>8. ASSUME OwedInv PROVE OwedInv'
    <3>1. \A plan \in {"create", "upgrade"}, m \in 1..4 :
             Owing(plan, m) => Owing(plan, m)' \/ (plan = "upgrade" /\ m = n)
      BY <1>1, <1>4 DEF Owing
    <3>2. n = 1 => Owing("upgrade", 2)' BY <1>1, <1>4 DEF Owing
    <3>3. "zoneId" \in db' /\ "index" \notin db' => Owing("create", 4)' \/ Owing("upgrade", 2)'
      BY <2>1, <2>3, <2>4, <2>5, <2>8, <3>1, <3>2 DEF OwedInv
    <3> QED BY <1>1, <1>4, <2>6, <2>8, <3>1, <3>3 DEF OwedInv
  <2>9. FoundInv'
    <3>1. "index" \notin db \/ n = 1 => "index" \notin db' BY <2>3, <2>6
    <3> QED BY <1>1, <1>2, <1>4, <2>1, <2>6, <3>1 DEF SchemaInv, FoundInv
  <2> QED BY <1>1, <2>7, <2>8, <2>9 DEF SchemaInv
<1> QED BY <1>1, <1>3, <1>4

\* A kill at the tables spoils them, elsewhere it does not matter to them.
LEMMA KillKeeps ==
  ASSUME MovesInv, SchemaInv, NEW s \in Start, Kill(s) PROVE SchemaInv'
<1>1. /\ program'[s] = "died" /\ UNCHANGED <<db, found, config>>
      /\ \A r \in Start \ {s} : program'[r] = program[r] /\ at'[r] = at[r]
      /\ spoiled' = (spoiled \/ program[s] \in {"create", "upgrade"})
      /\ program[s] \in Going
  BY DEF Kill, Goes, MovesInv
<1>2. WayInv' /\ FoundInv' BY <1>1 DEF SchemaInv, WayInv, FoundInv
<1>3. ASSUME OwedInv, ~spoiled' PROVE OwedInv'
  <2>1. \A plan \in {"create", "upgrade"}, n \in 1..4 : Owing(plan, n) => Owing(plan, n)'
    BY <1>1, <1>3 DEF Owing
  <2> QED BY <1>1, <1>3, <2>1 DEF OwedInv
<1> QED BY <1>1, <1>2, <1>3 DEF SchemaInv

\* At every moment what is missing of the tables is owed by somebody who goes on.
LEMMA Schema == Spec => []SchemaInv
<1>1. Init => SchemaInv BY DEF Init, SchemaInv, WayInv, OwedInv, FoundInv
<1>2. MovesInv /\ SchemaInv /\ [Next]_vars => SchemaInv'
  <2>1. ASSUME SchemaInv, UNCHANGED vars PROVE SchemaInv'
    BY <2>1 DEF vars, schemavars, SchemaInv, WayInv, OwedInv, Owing, FoundInv
  <2> QED BY <2>1, QuietSteps, QuietKeeps, ProbeKeeps, PrepareKeeps, CarryOutKeeps, KillKeeps
          DEF Next, ProgramStep
<1> QED BY <1>1, <1>2, Moves, PTL DEF Spec

\* A start goes on to use the tables when they are all there, or another still
\* creates or upgrades them, or somebody died or gave up at them
\* (example_dbsetup and syncdata, which pass over what fails).
THEOREM CompleteTables == Spec => []TablesAreComplete
<1>1. SchemaInv => TablesAreComplete
  BY DEF SchemaInv, OwedInv, Owing, TablesAreComplete, Tables
<1> QED BY <1>1, Schema, PTL

\* Whoever found all the tables leaves them upgraded, with the same exceptions.
THEOREM Upgraded == Spec => []FoundIsUpgraded
<1>1. SchemaInv => FoundIsUpgraded
  BY DEF SchemaInv, OwedInv, Owing, FoundInv, FoundIsUpgraded
<1> QED BY <1>1, Schema, PTL
=============================================================================
