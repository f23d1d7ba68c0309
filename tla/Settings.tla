------------------------------- MODULE Settings -------------------------------
(***************************************************************************)
(* settings.c: opening a configuration file and setting up logging from    *)
(* it (settings_access, settings_configure), with the warnings the getters *)
(* log on the way through Logging, while other threads log and push and    *)
(* pop contexts.  A document is what its parser made of the file; what the *)
(* file says is one of a few files, each with the settings that matter.    *)
(***************************************************************************)
EXTENDS Logging

CONSTANTS Main,       \* the thread that configures
          Self,       \* the class of settings.c
          File,       \* what the program may find when it opens the file, with
                      \* the verbosity of the command line
          MaxDocument, \* how often the program configures
          Absent, Bad \* a setting that is not there, or not in a form to read

Entry == [name : Class \union {Absent}, verbosity : Level \union {Absent, Bad},
          target : {"given", Absent, Bad}]

\* An empty document is also that of a file that cannot be parsed.
ASSUME SettingsAssumption ==
    /\ Main \in Thread /\ Self \in Class /\ NULL \notin Nat /\ File # {}
    /\ \A f \in File : /\ f.opens \in BOOLEAN /\ f.cmdline \in Nat
                       /\ f.verbosity \in Level \union {Absent, Bad}
                       /\ f.classes \in Seq(Entry)

VARIABLES
    conf,      \* settings_configure: where it is and its local variables
    own,       \* the handle of the program, NULL or the document it has
    default,   \* defaulthandle
    documents, \* the documents that are allocated, 0 being none
    opened,    \* how many documents there were
    lost       \* history: documents no handle can reach

svars == <<conf, own, default, documents, opened, lost>>
vars == <<lvars, svars>>

SettingsTypeOK ==
    /\ conf.pc \in {"idle", "verbosity", "name", "level", "target", "add", "raise",
                    "done", "crashed"}
    /\ conf.file \in File
    /\ conf.name \in Class \union {NULL} /\ conf.level \in Level
    /\ {own, default} \subseteq documents \union {NULL, 0}

Init ==
    /\ LoggingInit
    /\ conf = [pc |-> "idle", file |-> CHOOSE f \in File : TRUE, i |-> 0,
               name |-> NULL, level |-> ERROR]
    /\ own = NULL /\ default = NULL /\ documents = {} /\ opened = 0 /\ lost = {}

At(where) == conf.pc = where /\ Idle(Main)
StaysPut == UNCHANGED <<own, default, documents, opened, lost>>
Entries == conf.file.classes
Current == Entries[conf.i]

-----------------------------------------------------------------------------
(* settings_access, called with the program's own handle or without one:   *)
(* a handle with a new document, or with none when the file does not open. *)

\* The old document is given to the parser to delete: that of the default
\* handle only, and only when the file opens.
DeleteNothing(f, old) == documents
DeleteOld(f, old) == IF f.opens THEN documents \ {old} ELSE documents
Access(f, isdefault) ==
    LET new == IF f.opens THEN opened + 1 ELSE 0
        old == IF isdefault THEN default ELSE NULL
    IN  /\ opened' = opened + 1
        /\ documents' = DeleteOld(f, old) \union ({new} \ {0})
        /\ IF isdefault THEN default' = new /\ UNCHANGED own
                        ELSE own' = new /\ UNCHANGED default
        /\ lost' = lost \union ((IF isdefault THEN IF f.opens THEN {} ELSE {default}
                                              ELSE {own}) \ {0, NULL})

Configure ==
    /\ At("idle")
    /\ opened < MaxDocument
    /\ \E f \in File, isdefault \in BOOLEAN :
          /\ Access(f, isdefault)
          /\ conf' = [conf EXCEPT !.pc = IF f.opens THEN "verbosity" ELSE "done",
                                  !.file = f]
    /\ UNCHANGED lvars

-----------------------------------------------------------------------------
(* settings_configure.                                                     *)

\* A setting that parsescalar cannot deliver is logged, unless there is a
\* default and nothing to read.
Warns(value, hasdefault) == value = Bad \/ (value = Absent /\ ~hasdefault)
Warn(value, hasdefault) ==
    IF Warns(value, hasdefault) THEN /\ Begin(Main, Self, WARN)
                                     /\ UNCHANGED <<setupvars, cls, mutex, ctxvars, logged>>
                                ELSE UNCHANGED lvars

\* The verbosity of the command line, else of the file, else logger_ERROR.
FromCmdline == IF conf.file.cmdline < 4 THEN conf.file.cmdline + 1 ELSE DIAG
Generic == IF conf.file.cmdline > 0 THEN FromCmdline
           ELSE IF conf.file.verbosity \in Level THEN conf.file.verbosity ELSE ERROR
Verbosity ==
    /\ At("verbosity")
    /\ conf' = [conf EXCEPT !.pc = "add", !.name = NULL, !.level = Generic]
    /\ IF conf.file.cmdline <= 0 THEN Warn(conf.file.verbosity, FALSE) ELSE UNCHANGED lvars
    /\ StaysPut

\* Both calls of logger_configurecls.
Add ==
    /\ At("add")
    /\ AddChain(Main, conf.name, conf.level)
    /\ conf' = [conf EXCEPT !.pc = "raise"]
    /\ StaysPut

\* Then the next class, if there is one.
NextClassButLast == LET i == conf.i + 1 IN
    [conf EXCEPT !.i = IF i < Len(Entries) THEN i ELSE 0,
                 !.pc = IF i < Len(Entries) THEN "name" ELSE "done"]
NextClass == LET i == conf.i + 1 IN
    [conf EXCEPT !.i = IF i <= Len(Entries) THEN i ELSE 0,
                 !.pc = IF i <= Len(Entries) THEN "name" ELSE "done"]
Raise ==
    /\ At("raise")
    /\ RaiseSerial(Main)
    /\ conf' = NextClass
    /\ StaysPut

\* A class without a name becomes a chain for all classes.
Name ==
    /\ At("name")
    /\ conf' = [conf EXCEPT !.pc = "level",
                            !.name = IF Current.name = Absent THEN NULL ELSE Current.name]
    /\ Warn(Current.name, FALSE)
    /\ StaysPut

\* The default is copied with the size of a long from one int to another: what
\* is next to it on the stack is overwritten (in a build without optimisation
\* half of the handle, and the next getter crashes; with it nothing that is
\* used again).
ClassLevel ==
    /\ At("level")
    /\ IF Current.verbosity \in Level
       THEN conf' = [conf EXCEPT !.pc = "target", !.level = Current.verbosity]
       ELSE \E pc \in {"target", "crashed"} :
                conf' = [conf EXCEPT !.pc = pc, !.level = ERROR]
    /\ Warn(Current.verbosity, TRUE)
    /\ StaysPut

Target ==
    /\ At("target")
    /\ conf' = [conf EXCEPT !.pc = "add"]
    /\ Warn(Current.target, TRUE)
    /\ StaysPut

Done ==
    /\ At("done")
    /\ conf' = [conf EXCEPT !.pc = "idle"]
    /\ UNCHANGED lvars /\ StaysPut

\* settings_free of the program's handle.
Free ==
    /\ At("idle")
    /\ own # NULL
    /\ documents' = documents \ {own}
    /\ own' = NULL
    /\ UNCHANGED <<lvars, conf, default, opened, lost>>

MainStep == Configure \/ Verbosity \/ Add \/ Raise \/ Name \/ ClassLevel \/ Target
            \/ Done \/ Free

Others(t) == /\ conf.pc # "crashed"
             /\ \/ MessageStep(t)
                \/ t # Main /\ \E c \in Class \ {Own, Self} : Message(t, c, WARN)
                \/ t # Main /\ (PushContext(t) \/ PopContext(t) \/ ClearContext(t))
             /\ UNCHANGED svars

Next == MainStep \/ \E t \in Thread : Others(t)

Spec == Init /\ [][Next]_vars

-----------------------------------------------------------------------------
(* Properties.                                                             *)

TypeOK == /\ \A i \in 2..Len(chains) : chains[i] \in Chain
          /\ \A t \in Thread : \A n \in DOMAIN calls[t] : calls[t][n] \in Call
          /\ block \in live
          /\ mutex \in Thread \union {NULL}
          /\ top \in [Thread -> contexts \union {NULL}]
          /\ prev \in [Ctx -> contexts \union {NULL}]
          /\ SettingsTypeOK

\* What settings_configure promises: a class that has been set up since it
\* returned has the level the file gives it in its last entry, else the one of
\* the command line (one more for every -v, as far as there are levels) or of
\* the file for all, whatever the same program configured before and whoever
\* logged meanwhile; unless somebody had logged before (see
\* ForgottenOnlyAfterEarlyMessage), which settings_configure does itself when
\* the verbosity of the first file cannot be read.
MostOf(level) == IF level \in Level THEN level ELSE DIAG
WantedForAll == IF conf.file.cmdline > 0 THEN MostOf(ERROR + conf.file.cmdline)
                ELSE IF conf.file.verbosity \in Level THEN conf.file.verbosity ELSE ERROR
Wanted(c) ==
    LET naming == {i \in DOMAIN Entries : Entries[i].name \in {Absent, c}}
        level == Entries[LastOf(naming)].verbosity
    IN  IF naming = {} THEN WantedForAll ELSE IF level \in Level THEN level ELSE ERROR
AsConfigured ==
    conf.pc = "done" /\ conf.file.opens /\ early = {} =>
        \A c \in Class : cls[c].serial = serial /\ ~Rewriting(c) => cls[c].minlvl = Wanted(c)

\* A handle never has a document that was deleted, and every document is some
\* handle's, or was lost when a handle that had it was opened again.
DocumentsAreHeld ==
    documents = ({own, default} \union lost) \ {0, NULL}

\* What holds of the handles, the chains and the contexts between any two steps
\* of any two threads.
SettingsInv == TypeOK /\ DocumentsAreHeld
=============================================================================
