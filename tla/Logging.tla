------------------------------- MODULE Logging -------------------------------
(***************************************************************************)
(* logging.c: classes of messages take their level and destination from   *)
(* the last chain that names them, anew whenever a chain has been added.   *)
(* Threads log while others add chains; adding and taking over are locked, *)
(* comparing the serials and using the chain are not.                      *)
(* On top, the contexts a thread pushes and pops.  Settings composes this  *)
(* with the program that adds the chains.                                  *)
(***************************************************************************)
EXTENDS Naturals, Sequences

CONSTANTS Thread, Class,
          Own,          \* the class of logging.c itself
          Ctx,          \* the memory of contexts
          NULL,
          Moves,        \* whether realloc moves the chains, among these
          MaxMessages   \* how many messages the threads log by themselves

\* logger_lvl_enum, from FATAL on.
ERROR == 1
WARN == 2               \* logger_NOTICE is the same
DIAG == 5
Level == 0..DIAG

ASSUME LoggingAssumption == /\ Own \in Class
                            /\ Moves \subseteq BOOLEAN /\ Moves # {}
                            /\ NULL \notin Thread \union Class \union Ctx

VARIABLES
    serial,     \* logger_setup.serial
    chains,     \* logger_setup.chains: [name, minlvl], name NULL for all classes
    block,      \* the memory the chains are in
    live,       \* the blocks that are allocated
    cls,        \* the logger_cls_struct of each class
    mutex,      \* who owns mutex
    calls,      \* for each thread the logger_message calls it is in
    top,        \* the context under the key currentctx of each thread
    prev,       \* prev of each context
    contexts,   \* the contexts that are allocated
    depth,      \* history: how many contexts a thread has pushed and not popped
    early,      \* history: the threads that logged before a chain was added
    logged      \* how many messages were logged, for the bound

setupvars == <<serial, chains, block, live>>
ctxvars == <<top, prev, contexts, depth>>
lvars == <<setupvars, cls, mutex, calls, ctxvars, early, logged>>

Chain == [name : Class \union {NULL}, minlvl : Level]
Default == [name |-> "", minlvl |-> ERROR]

\* A call at "check" reads the serial, then takes over if that is another,
\* at "level" it compares, at "use" it calls the procedure of the chain.
Call == [cls : Class, lvl : Level, checked : Nat,
         pc : {"check", "resetup", "default", "match", "level", "use"}]

\* After logger_initialize in main.
LoggingInit ==
    /\ serial = 1 /\ chains = <<Default>> /\ block = 1 /\ live = {1}
    /\ cls = [c \in Class |-> [serial |-> 0, minlvl |-> 0, chain |-> NULL]]
    /\ mutex = NULL
    /\ calls = [t \in Thread |-> <<>>]
    /\ top = [t \in Thread |-> NULL] /\ prev = [x \in Ctx |-> NULL] /\ contexts = {}
    /\ depth = [t \in Thread |-> 0]
    /\ early = {} /\ logged = 0

-----------------------------------------------------------------------------
(* logger_message.  The call a thread is in is the last of its calls; a    *)
(* class that takes over new settings logs that it does.                   *)

Idle(t) == calls[t] = <<>>
Now(t) == calls[t][Len(calls[t])]
In(t, where) == ~Idle(t) /\ Now(t).pc = where
Under(t) == SubSeq(calls[t], 1, Len(calls[t]) - 1)
Continue(t, call) == calls' = [calls EXCEPT ![t] = Append(Under(t), call)]
GoTo(t, where) == Continue(t, [Now(t) EXCEPT !.pc = where])
Return(t) == calls' = [calls EXCEPT ![t] = Under(t)]
Called(c, lvl) == [cls |-> c, lvl |-> lvl, pc |-> "check", checked |-> 0]
StaysOut == UNCHANGED <<ctxvars, early, logged>>

\* The first step of logger_message, called by a thread or by a function it is in.
Begin(t, c, lvl) ==
    /\ Idle(t)
    /\ calls' = [calls EXCEPT ![t] = <<Called(c, lvl)>>]
    /\ early' = IF Len(chains) = 1 /\ serial = 1 THEN early \union {t} ELSE early
Message(t, c, lvl) ==
    /\ logged < MaxMessages /\ logged' = logged + 1
    /\ Begin(t, c, lvl)
    /\ UNCHANGED <<setupvars, cls, mutex, ctxvars>>

Check(t) ==
    /\ In(t, "check")
    /\ Continue(t, [Now(t) EXCEPT
          !.pc = IF cls[Now(t).cls].serial = serial THEN "level" ELSE "resetup",
          !.checked = serial])
    /\ UNCHANGED <<setupvars, cls, mutex>> /\ StaysOut

\* The test in logger_resetup for a class that was never set up; 1 is the
\* serial of every class that logged before the first chain was added.
UnsetOrNew(c) == cls[c].serial <= 1
Unset(c) == cls[c].serial = 1

\* logger_initialize once more: new chains, the old ones are not freed; a new
\* key, under which no thread has a context.
Reinitialize == /\ serial' = serial + 1
                /\ chains' = <<Default>>
                /\ block' = block + 1
                /\ live' = live \union {block'}
                /\ top' = [t \in Thread |-> NULL]
                /\ UNCHANGED <<prev, contexts, depth>>

Resetup(t) ==
    /\ In(t, "resetup")
    /\ mutex = NULL /\ mutex' = t
    /\ IF Unset(Now(t).cls) THEN Reinitialize ELSE UNCHANGED <<setupvars, ctxvars>>
    /\ cls' = [cls EXCEPT ![Now(t).cls].serial = serial']
    /\ GoTo(t, "default")
    /\ UNCHANGED <<early, logged>>

TakeOver(c, i) == cls' = [cls EXCEPT ![c].minlvl = chains[i].minlvl,
                                     ![c].chain = [block |-> block, at |-> i]]

ResetupDefault(t) ==
    /\ In(t, "default")
    /\ TakeOver(Now(t).cls, 1)
    /\ GoTo(t, "match")
    /\ UNCHANGED <<setupvars, mutex>> /\ StaysOut

\* The loop over the other chains: the last that names the class.  The mutex is
\* free again before the change is logged.
Names(i, c) == chains[i].name \in {NULL, c}
Naming(c, nchains) == {1} \union {i \in 2..nchains : Names(i, c)}
LastOf(S) == CHOOSE i \in S : \A j \in S : j <= i
ResetupMatch(t) ==
    /\ In(t, "match")
    /\ TakeOver(Now(t).cls, LastOf(Naming(Now(t).cls, Len(chains))))
    /\ mutex' = NULL
    /\ calls' = [calls EXCEPT ![t] =
          Under(t) \o <<[Now(t) EXCEPT !.pc = "level"], Called(Own, WARN)>>]
    /\ UNCHANGED setupvars /\ StaysOut

Enabled(t) ==
    /\ In(t, "level")
    /\ IF Now(t).lvl <= cls[Now(t).cls].minlvl THEN GoTo(t, "use") ELSE Return(t)
    /\ UNCHANGED <<setupvars, cls, mutex>> /\ StaysOut

\* The procedure of the chain is called through what cls->chain points to.
Use(t) ==
    /\ In(t, "use")
    /\ Return(t)
    /\ UNCHANGED <<setupvars, cls, mutex>> /\ StaysOut

MessageStep(t) == \/ Check(t) \/ Resetup(t) \/ ResetupDefault(t) \/ ResetupMatch(t)
                  \/ Enabled(t) \/ Use(t)

\* logger_configurecls: the chains grow, and the memory they were in is freed,
\* before the serial is raised.  Who compares serials takes no lock and may come
\* in between.
AddChain(t, name, lvl) ==
    /\ mutex = NULL /\ mutex' = t
    /\ chains' = Append(chains, [name |-> name, minlvl |-> lvl])
    /\ block' \in {IF moved THEN block + 1 ELSE block : moved \in Moves}
    /\ live' = (live \ {block}) \union {block'}
    /\ UNCHANGED <<serial, cls, calls, ctxvars, early, logged>>

Unlock(t) == /\ mutex = t /\ mutex' = NULL
             /\ UNCHANGED <<chains, block, live, cls, calls, ctxvars, early, logged>>
RaiseForgotten(t) == Unlock(t) /\ UNCHANGED serial
RaiseSerial(t) == Unlock(t) /\ serial' = serial + 1

-----------------------------------------------------------------------------
(* Contexts.  The caller pushes a new context or NULL, which makes one,    *)
(* and pops as often as it pushed.                                         *)

PushForgets(t, x) == prev' = [prev EXCEPT ![x] = NULL]
Push(t, x) == prev' = [prev EXCEPT ![x] = top[t]]
NewContext == CHOOSE x \in Ctx \ contexts : TRUE
PushContext(t) ==
    /\ Idle(t)
    /\ contexts # Ctx
    /\ contexts' = contexts \union {NewContext}
    /\ Push(t, NewContext)
    /\ top' = [top EXCEPT ![t] = NewContext]
    /\ depth' = [depth EXCEPT ![t] = @ + 1]
    /\ UNCHANGED <<setupvars, cls, mutex, calls, early, logged>>

\* Without a context it dereferences NULL: no step, see PopFindsContext.
PopContext(t) ==
    /\ Idle(t)
    /\ depth[t] > 0
    /\ top[t] # NULL
    /\ contexts' = contexts \ {top[t]}
    /\ top' = [top EXCEPT ![t] = prev[top[t]]]
    /\ prev' = [prev EXCEPT ![top[t]] = NULL]
    /\ depth' = [depth EXCEPT ![t] = @ - 1]
    /\ UNCHANGED <<setupvars, cls, mutex, calls, early, logged>>

\* The contexts the loop of logger_clearcontext comes to from top on, along
\* prev: those in every set that has top and that prev does not lead out of.
Stack(t) ==
    {x \in Ctx :
        /\ top[t] # NULL
        /\ \A S \in SUBSET Ctx :
              top[t] \in S /\ (\A y \in S : prev[y] \in S \union {NULL}) => x \in S}

ClearContext(t) ==
    /\ Idle(t)
    /\ depth[t] > 0
    /\ contexts' = contexts \ Stack(t)
    /\ prev' = [x \in Ctx |-> IF x \in Stack(t) THEN NULL ELSE prev[x]]
    /\ top' = [top EXCEPT ![t] = NULL]
    /\ depth' = [depth EXCEPT ![t] = 0]
    /\ UNCHANGED <<setupvars, cls, mutex, calls, early, logged>>

-----------------------------------------------------------------------------
(* Properties.                                                             *)

Rewriting(c) == \E t \in Thread : (In(t, "default") \/ In(t, "match")) /\ Now(t).cls = c

\* A chain has been added and the serial is not raised yet: the mutex is with a
\* thread that is not in logger_resetup.
Adding == mutex # NULL /\ ~In(mutex, "default") /\ ~In(mutex, "match")
Announced == IF Adding THEN Len(chains) - 1 ELSE Len(chains)

\* A class that carries the current serial and is not being set up has the
\* level and the place of the last chain that names it, of the chains the serial
\* speaks of: no thread, no order of logging and configuring leaves a class
\* marked as current with other settings (setupserial is written before the
\* settings are, logger_resetup).  The place is in the memory the chains are in,
\* but for the moment in which a chain has been added and the serial not raised.
CurrentIsInForce ==
    \A c \in Class : cls[c].serial = serial /\ ~Rewriting(c) =>
        LET last == LastOf(Naming(c, Announced))
        IN  /\ cls[c].minlvl = chains[last].minlvl
            /\ cls[c].chain.at = last
            /\ cls[c].chain.block = block \/ Adding

\* A thread is about to use memory of chains that was freed only when a chain
\* was added since it compared serials, or is being added, the serial not yet
\* raised, so that the comparison tells it nothing, or while another thread has
\* just marked the class as current: once the serial is raised and no thread
\* sets the class up, who finds the serials equal finds the chain in memory
\* (logger_enabled and logger_message, without the mutex).
DanglingOnlyInWindow ==
    \A t \in Thread : In(t, "use") /\ cls[Now(t).cls].chain.block \notin live =>
        Now(t).checked # serial \/ Adding \/ Rewriting(Now(t).cls)

\* Chains are forgotten only when a message was logged before the first was
\* added: the test setupserial == 1 takes such a class for one that was never
\* set up (logger_resetup).
ForgottenOnlyAfterEarlyMessage == [][Len(chains') < Len(chains) => early # {}]_lvars

\* A thread that pushed contexts finds one to pop, unless the chains and with
\* them the key of the contexts were made anew, and no context is in two
\* stacks or twice in one.
PopFindsContext ==
    early = {} => /\ \A t \in Thread : depth[t] > 0 => top[t] # NULL
                  /\ \A s, t \in Thread : s # t => Stack(s) \intersect Stack(t) = {}
                  /\ \A x, y \in Ctx : prev[x] = prev[y] /\ prev[x] # NULL => x = y
=============================================================================
