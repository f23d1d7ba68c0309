------------------------------ MODULE DbSimple ------------------------------
(***************************************************************************)
(* Object persistence: dbsimple.c, dbsimplebase.c and the SQLite back end  *)
(* dbsimple_sqlite3.c.  Sessions fetch all objects of a plan, change them  *)
(* in memory and commit the changes to tables they share.                  *)
(*                                                                         *)
(* An object of the program is a pointer: the row id it was loaded from,   *)
(* or a pointer of Fresh that the application allocated.  pointermap is a  *)
(* set of entries; two entries may have one pointer, which happens once a  *)
(* look-up in the tree has missed.  The address order is arbitrary, and so *)
(* is therefore the order in which a commit visits the entries.            *)
(*                                                                         *)
(* Rows are a primary key with a revision, a value (the session that wrote *)
(* it last), the column with a UNIQUE index where the table has one, and   *)
(* one reference.                                                          *)
(***************************************************************************)
EXTENDS Naturals, Sequences

CONSTANTS Session, Connection,
          Id,          \* the primary keys of all tables
          Fresh,       \* pointers of objects the application allocates
          Type,        \* the definitions, without the singleton
          TypeOf,      \* the definition of each row and each fresh object
          MinusOne,    \* for each definition the key -1
          RefType,     \* the definition its REFERENCE field points to, or NULL
          BackType,    \* the definition its BACKREFERENCE field points to, if it is
                       \* not the singleton, or NULL
          Unique,      \* the definitions whose table has a UNIQUE index
          Name,        \* the values of the columns with a UNIQUE index
          Setups,      \* the fetch order, connections, flags and names a program
                       \* may use, with bounds on fetches and changes
          Stored,      \* what the tables hold at first
          NULL,
          MaxRev       \* no object above this revision is changed

Zero == "0"            \* a reference to an object whose key is not known yet
Keyless == {MinusOne[t] : t \in Type}
Ptr == Id \union Fresh
Row == [rev : Nat \ {0}, val : Session \union {NULL}, name : Name \union {NULL},
        ref : Id \union {NULL, Zero}]

Entry == [ptr : Ptr \union {NULL}, key : Id \union {Zero}, rev : Nat,
          state : {"NEW", "CLEAN", "REMOVED", "MODIFIED"},
          reached : BOOLEAN,     \* next # NULL
          typed : BOOLEAN,       \* type # NULL
          filed : 0..2]          \* how often a traversal is still to visit it

\* A plan, which names no definition twice, and what a program does with it.
Setup == [order : {o \in Seq(Type) : \A i, j \in 1..Len(o) : o[i] = o[j] => i = j},
          conn : [Session -> Connection], explicit : SUBSET Type, auto : SUBSET Type,
          names : SUBSET Name, fetches : Nat, ops : Nat]

\* The definition the one foreign key of a table is for.  A REFERENCE and a
\* BACKREFERENCE of a definition are two fields for one column.
Column(t) == IF RefType[t] # NULL THEN RefType[t] ELSE BackType[t]

\* A reference is to an object of the definition the column is for.
RefTyped(i, row) ==
    row.ref \in {NULL, Zero} \/ TypeOf[row.ref] = Column(TypeOf[i])

\* Two rows that a UNIQUE index does not allow beside each other.
SameName(i, row, j, other) ==
    /\ i # j /\ TypeOf[i] = TypeOf[j] /\ TypeOf[i] \in Unique
    /\ row.name = other.name

ASSUME DbAssumption == /\ TypeOf \in [Ptr -> Type]
                       /\ MinusOne \in [Type -> Id]
                       /\ \A t \in Type : TypeOf[MinusOne[t]] = t
                       /\ RefType \in [Type -> Type \union {NULL}]
                       /\ BackType \in [Type -> Type \union {NULL}]
                       /\ \A t \in Type : /\ RefType[t] = NULL \/ BackType[t] \in {NULL, RefType[t]}
                                         /\ Column(t) # t
                       /\ Unique \subseteq Type
                       /\ \A u \in Setups : u \in Setup
                       /\ Stored \in [Id -> Row \union {NULL}]
                       /\ \A i \in Id : Stored[i] # NULL =>
                             /\ RefTyped(i, Stored[i])
                             /\ \A j \in Id : Stored[j] # NULL
                                              => ~SameName(i, Stored[i], j, Stored[j])
                       /\ Id \intersect Fresh = {} /\ Zero \notin Ptr
                       /\ NULL \notin {Zero} \union Ptr \union Type \union Session
                                      \union Connection \union Row \union Entry

VARIABLES
    setup,       \* [order, conn, explicit, auto, names, fetches, ops]: one of Setups
    rows,        \* the committed tables
    writer,      \* the connection that holds the write lock of the database
    work,        \* the tables as the writer sees them
    tx,          \* the connections inside BEGIN ... COMMIT
    changes,     \* sqlite3_changes of each connection
    pc,          \* where each session is
    at,          \* the index of the definition a fetch reads next
    entries,     \* pointermap
    unknown,     \* the keys of OBJUNKNOWN objects
    master,      \* what the arrays of the singleton point to
    data,        \* the fields of each object in memory
    disordered,  \* the data of an entry changed while it was in pointermap
    current,     \* the entry between its delete and its insert
    ops,         \* how many changes were made, for the bound
    fetches,     \* how many fetches were made, for the bound
    seen,        \* history: the rows as they were fetched
    stopped,     \* history: the commit ended at a failed removal
    asked,       \* history: the keys given to dbsimple_delete
    late         \* history: an object was referred to before its row was fetched

store == <<rows, writer, work, tx, changes>>
memory == <<entries, unknown, master, data, disordered>>
trace == <<seen, asked, late>>
bounds == <<ops, fetches>>
vars == <<setup, store, pc, at, memory, current, bounds, stopped, trace>>

Object == [val : Session \union {NULL}, name : Name \union {NULL},
           ref : Ptr \union {NULL, Zero}]

TypeOK ==
    /\ rows \in [Id -> Row \union {NULL}] /\ work \in [Id -> Row \union {NULL}]
    /\ writer \in Connection \union {NULL}
    /\ writer # NULL => writer \in tx
    /\ pc \in [Session -> {"closed", "idle", "fetch", "have", "persist", "insert",
                           "removed", "commit"}]
    /\ entries \in [Session -> SUBSET Entry]
    /\ unknown \in [Session -> SUBSET (Id \union {Zero})]
    /\ data \in [Session -> [Ptr -> Object]]
    /\ current \in [Session -> Entry \union {NULL}]

Nothing == [p \in Ptr |-> [val |-> NULL, name |-> NULL, ref |-> NULL]]

Init == /\ setup \in Setups
        /\ rows = Stored /\ work = Stored
        /\ writer = NULL /\ tx = {} /\ changes = [c \in Connection |-> 0]
        /\ pc = [s \in Session |-> "closed"]
        /\ at = [s \in Session |-> 1]
        /\ entries = [s \in Session |-> {}] /\ unknown = [s \in Session |-> {}]
        /\ master = [s \in Session |-> {}]
        /\ data = [s \in Session |-> Nothing]
        /\ disordered = [s \in Session |-> FALSE]
        /\ current = [s \in Session |-> NULL] /\ ops = 0 /\ fetches = 0
        /\ seen = [s \in Session |-> [i \in Id |-> NULL]]
        /\ stopped = [s \in Session |-> FALSE]
        /\ asked = [s \in Session |-> {}]
        /\ late = [s \in Session |-> FALSE]

Conn(s) == setup.conn[s]
View(s) == IF writer = Conn(s) THEN work ELSE rows

\* One SQLite statement that leaves the tables as t.  Without the write lock
\* it returns SQLITE_BUSY, and eatResult tries again.  Outside BEGIN ...
\* COMMIT it commits by itself.
WriteLock(s) == writer \in {NULL, Conn(s)}
Execute(s, t, count) ==
    /\ work' = t
    /\ changes' = [changes EXCEPT ![Conn(s)] = count]
    /\ IF Conn(s) \in tx THEN writer' = Conn(s) /\ UNCHANGED rows
                         ELSE rows' = t /\ UNCHANGED writer
    /\ UNCHANGED tx

\* What tree_lookup in pointermap finds for pointer p.  Once an entry got other
\* data while it was filed, the tree is out of order and the look-up may miss.
Lookup(s, p) ==
    LET found == {e \in entries[s] : e.ptr = p}
    IN found \union (IF found = {} \/ disordered[s] THEN {NULL} ELSE {})

Loaded(s) == {e.ptr : e \in entries[s]} \ {NULL}
Replace(s, e, f) == (entries[s] \ {e}) \union {f}
Forget(s) == /\ entries' = [entries EXCEPT ![s] = {}]
             /\ unknown' = [unknown EXCEPT ![s] = {}]
             /\ master' = [master EXCEPT ![s] = {}]
             /\ data' = [data EXCEPT ![s] = Nothing]
             /\ disordered' = [disordered EXCEPT ![s] = FALSE]
             /\ current' = [current EXCEPT ![s] = NULL]
             /\ stopped' = [stopped EXCEPT ![s] = FALSE]
             /\ seen' = [seen EXCEPT ![s] = [i \in Id |-> NULL]]
             /\ asked' = [asked EXCEPT ![s] = {}]
             /\ late' = [late EXCEPT ![s] = FALSE]
             /\ at' = [at EXCEPT ![s] = 1]

-----------------------------------------------------------------------------
(* Sessions and fetching.                                                  *)

OpenSession(s) == /\ pc[s] = "closed"
                  /\ pc' = [pc EXCEPT ![s] = "idle"]
                  /\ Forget(s) /\ UNCHANGED <<setup, store, bounds>>

CloseSession(s) == /\ pc[s] = "idle"
                   /\ pc' = [pc EXCEPT ![s] = "closed"]
                   /\ Forget(s) /\ UNCHANGED <<setup, store, bounds>>

\* fetchdata prepares the statements and dbsimple__fetch makes empty maps.  A
\* program that is done without a commit calls dbsimple_free first.
Fetch(s) == /\ pc[s] \in {"idle", "have"}
            /\ fetches < setup.fetches
            /\ fetches' = fetches + 1
            /\ pc' = [pc EXCEPT ![s] = "fetch"]
            /\ Forget(s) /\ UNCHANGED <<setup, store, ops>>

\* The rows one SELECT returns, and what they refer to.
Selected(s) == {i \in Id : TypeOf[i] = setup.order[at[s]] /\ View(s)[i] # NULL}
Targets(s) == {View(s)[i].ref : i \in Selected(s)} \ {NULL}

\* dbsimple__getobject for a row: an object that was referred to before its row
\* is read sits in pointermap under NULL; it gets data and is inserted again.
GetObject(s, i, times) == [ptr |-> i, key |-> i, rev |-> View(s)[i].rev, state |-> "CLEAN",
                           reached |-> FALSE, typed |-> TRUE, filed |-> times]

\* dbsimple__assignreference and dbsimple__assignbackreference: the keys that are
\* referred to and have no row yet.
Await(s) == (unknown[s] \ Selected(s)) \union (Targets(s) \ (Loaded(s) \union Selected(s)))

\* dbsimple__assignbackreference: every object is put into an array of the
\* singleton, which is there from the start.  The arrays of other objects
\* (OPENREFERENCES) hold objects that were fetched, and nothing follows them.
Arrays(s) == master[s] \union Selected(s)

\* The fields of an object that was fetched.  A BACKREFERENCE is no field of it.
Fields(s, i) == [val |-> View(s)[i].val, name |-> View(s)[i].name,
                 ref |-> IF RefType[TypeOf[i]] = NULL THEN NULL ELSE View(s)[i].ref]

\* fetchobject: one SELECT, outside any transaction.
FetchObject(s) ==
    /\ pc[s] = "fetch"
    /\ at[s] <= Len(setup.order)
    /\ LET early == Selected(s) \intersect unknown[s]
       IN /\ disordered' = [disordered EXCEPT ![s] = @ \/ early # {}]
          /\ late' = [late EXCEPT ![s] = @ \/ early # {}]
          /\ \E twice \in SUBSET early :
                entries' = [entries EXCEPT ![s] = @ \union
                    {GetObject(s, i, IF i \in twice THEN 2 ELSE 1) : i \in Selected(s)}]
    /\ unknown' = [unknown EXCEPT ![s] = Await(s)]
    /\ master' = [master EXCEPT ![s] = Arrays(s)]
    /\ data' = [data EXCEPT ![s] = [p \in Ptr |->
                    IF p \in Selected(s) THEN Fields(s, p) ELSE @[p]]]
    /\ seen' = [seen EXCEPT ![s] = [i \in Id |->
                    IF i \in Selected(s) THEN View(s)[i] ELSE @[i]]]
    /\ at' = [at EXCEPT ![s] = @ + 1]
    /\ UNCHANGED <<setup, store, pc, current, bounds, stopped, asked>>

\* resolvebackpatches: a reference to an object that never came stays NULL.
Patched(s) == [p \in Ptr |->
    [data[s][p] EXCEPT !.ref = IF @ \in Loaded(s) THEN @ ELSE NULL]]
Resolve(s) ==
    /\ pc[s] = "fetch"
    /\ at[s] > Len(setup.order)
    /\ data' = [data EXCEPT ![s] = Patched(s)]
    /\ pc' = [pc EXCEPT ![s] = "have"]
    /\ UNCHANGED <<setup, store, at, entries, unknown, master, disordered, current,
                   bounds, stopped, trace>>

-----------------------------------------------------------------------------
(* What the application does with the objects in memory.                   *)

Dirty(s, p) ==
    \E e \in Lookup(s, p) :
       entries' = [entries EXCEPT ![s] =
           IF e = NULL
           THEN @ \union {[ptr |-> p, key |-> MinusOne[TypeOf[p]], rev |-> 0,
                           state |-> "NEW", reached |-> FALSE, typed |-> FALSE,
                           filed |-> 1]}
           ELSE Replace(s, e, [e EXCEPT !.state = "MODIFIED"])]

\* The objects the application can get at.
Held(s) == {p \in Ptr : p \in Loaded(s) \/ p \in master[s] \/ data[s][p].val # NULL
                        \/ \E q \in Ptr : data[s][q].ref = p}

Application(s) == /\ pc[s] = "have"
                  /\ ops < setup.ops
                  /\ ops' = ops + 1
                  /\ UNCHANGED <<setup, store, pc, at, unknown, disordered, current,
                                 fetches, stopped, seen, late>>

\* The names the application may give an object of definition t.
Names(t) == IF t \in Unique THEN setup.names ELSE {}

\* A field is changed, the name perhaps, and the object marked with
\* dbsimple_dirty.
Change(s, p, n) ==
    /\ Application(s)
    /\ n \in {data[s][p].name} \union Names(TypeOf[p])
    /\ \A e \in entries[s] : e.ptr = p => e.rev <= MaxRev
    /\ data' = [data EXCEPT ![s][p] = [@ EXCEPT !.val = s, !.name = n]]
    /\ Dirty(s, p)
    /\ UNCHANGED <<master, asked>>

\* The reference is made to point to q.
Link(s, p, q) ==
    /\ Application(s)
    /\ TypeOf[q] = RefType[TypeOf[p]]
    /\ \A e \in entries[s] : e.ptr = p => e.rev <= MaxRev
    /\ data' = [data EXCEPT ![s][p] = [@ EXCEPT !.val = s, !.ref = q]]
    /\ Dirty(s, p)
    /\ UNCHANGED <<master, asked>>

\* dbsimple_delete
Delete(s, p) ==
    /\ Application(s)
    /\ \E e \in Lookup(s, p) :
          IF e = NULL THEN UNCHANGED <<entries, asked>>
          ELSE /\ entries' = [entries EXCEPT ![s] = Replace(s, e, [e EXCEPT !.state = "REMOVED"])]
               /\ asked' = [asked EXCEPT ![s] = @ \union {e.key}]
    /\ UNCHANGED <<master, data>>

\* A new object, put into an array of the singleton or not.
Create(s, p, n) ==
    /\ Application(s)
    /\ n \in IF TypeOf[p] \in Unique THEN Names(TypeOf[p]) ELSE {NULL}
    /\ data[s][p].val = NULL
    /\ data' = [data EXCEPT ![s][p] = [@ EXCEPT !.val = s, !.name = n]]
    /\ master' = [master EXCEPT ![s] = @ \union {p}] \/ UNCHANGED master
    /\ UNCHANGED <<entries, asked>>

\* An object is taken out of the array of the singleton.
Unlink(s, p) ==
    /\ Application(s)
    /\ p \in master[s]
    /\ master' = [master EXCEPT ![s] = @ \ {p}]
    /\ UNCHANGED <<entries, data, asked>>

-----------------------------------------------------------------------------
(* Commit.                                                                 *)

Unregistered(p, reached, filed) ==     \* dbsimple__referencebyptr
    [ptr |-> p, key |-> Zero, rev |-> 0, state |-> "NEW", reached |-> reached,
     typed |-> TRUE, filed |-> filed]

\* What dbsimple__committraverse reaches: it follows the arrays of the
\* singleton and REFERENCE fields, no others, until it comes to what it has
\* reached before.
ReachableArrays(s) == master[s]
Reachable(s) ==
    {p \in Ptr : \A S \in SUBSET Ptr :
        master[s] \subseteq S /\ (\A q \in S : data[s][q].ref \in S \union {NULL}) => p \in S}

\* BEGIN is an error when the connection is inside a transaction already, which
\* is ignored.
BeginForgotten(s) == UNCHANGED tx
Begin(s) == tx' = tx \union {Conn(s)}

\* commitdata: BEGIN and the traversal.
Commit(s) ==
    /\ pc[s] = "have"
    /\ Begin(s)
    /\ \E found \in SUBSET {e \in entries[s] : e.ptr \in Reachable(s)} :
          /\ \A p \in Reachable(s) :
                \/ \E e \in found : \A f \in found : f.ptr = p <=> f = e
                \/ NULL \in Lookup(s, p) /\ \A e \in found : e.ptr # p
          /\ entries' = [entries EXCEPT ![s] =
                (@ \ found)
                \union {[e EXCEPT !.reached = TRUE, !.typed = TRUE] : e \in found}
                \union {Unregistered(p, TRUE, 1) : p \in Reachable(s) \ {e.ptr : e \in found}}]
    /\ pc' = [pc EXCEPT ![s] = "persist"]
    /\ UNCHANGED <<setup, rows, writer, work, changes, at, unknown, master, data,
                   disordered, current, bounds, stopped, trace>>

\* commitobject: what becomes of an entry that was not reached.
Verdict(e) ==
    IF e.reached THEN e.state
    ELSE IF e.state = "MODIFIED" /\ TypeOf[e.ptr] \notin setup.explicit THEN "REMOVED"
    ELSE IF e.state = "CLEAN" /\ TypeOf[e.ptr] \in setup.auto THEN "REMOVED"
    ELSE e.state

\* An entry whose data is NULL is visited only for a second removal.
ToVisit(s) == {e \in entries[s] : /\ e.filed > 0
                                  /\ e.ptr = NULL \/ ~e.typed \/ Verdict(e) # "CLEAN"}
Visited(e) == [e EXCEPT !.filed = @ - 1]

\* INSERT OR REPLACE (sqlstmts_sqlite3.sql): a row that is there is overwritten,
\* and one that has the same value under a UNIQUE index is deleted.
Namesakes(s, key, row) ==
    {i \in Id : View(s)[i] # NULL /\ SameName(key, row, i, View(s)[i])}
InsertOnly(s, key, row) == IF View(s)[key] = NULL THEN [View(s) EXCEPT ![key] = row]
                                                  ELSE View(s)
InsertOrReplace(s, key, row) ==
    [i \in Id |-> IF i = key THEN row
                  ELSE IF i \in Namesakes(s, key, row) THEN NULL ELSE View(s)[i]]

\* A statement that breaks a constraint changes nothing; eatResult returns.
Refused(s) == Execute(s, View(s), changes[Conn(s)])

\* A foreign key that is bound with NULL, or not at all: its column is NOT NULL.
\* bindstatement binds nothing for a BACKREFERENCE.
LostReference(s, p) == Column(TypeOf[p]) # NULL /\ data[s][p].ref = NULL

\* bindstatement and the INSERT of the object of entry e, which from now on is
\* f.  The reference is bound with the key its object has at this moment.
Insert(s, e, f) ==
    LET target == data[s][e.ptr].ref
        Put(ref) == Execute(s, InsertOrReplace(s, f.key, [rev |-> f.rev,
                                   val |-> data[s][e.ptr].val,
                                   name |-> data[s][e.ptr].name, ref |-> ref]), 1)
    IN IF target = NULL
       THEN /\ IF LostReference(s, e.ptr) THEN Refused(s) ELSE Put(NULL)
            /\ entries' = [entries EXCEPT ![s] = Replace(s, e, f)]
       ELSE \E g \in Lookup(s, target) :
              IF g = NULL
              THEN /\ Put(Zero)
                   /\ \E visit \in {0, 1} :
                        entries' = [entries EXCEPT ![s] =
                            Replace(s, e, f) \union {Unregistered(target, FALSE, visit)}]
              ELSE /\ Put(IF g = e THEN f.key ELSE g.key)
                   /\ entries' = [entries EXCEPT ![s] = Replace(s, e, f)]

Persist(s) == /\ pc[s] = "persist"
              /\ WriteLock(s)
              /\ UNCHANGED <<setup, at, unknown, master, data, bounds, trace>>

\* A new object gets revision 1 and a random key.
PersistNew(s, e) ==
    /\ Persist(s)
    /\ e.typed /\ Verdict(e) = "NEW"
    /\ \E k \in Id \ Keyless :
          /\ TypeOf[k] = TypeOf[e.ptr]
          /\ Insert(s, e, [Visited(e) EXCEPT !.key = k, !.rev = 1])
    /\ UNCHANGED <<pc, disordered, current, stopped>>

\* DELETE ... WHERE id = key AND rev = revision
MatchesKey(s, e) == e.key \in Id /\ View(s)[e.key] # NULL
Matches(s, e) == e.key \in Id /\ View(s)[e.key] # NULL /\ View(s)[e.key].rev = e.rev
DeleteRow(s, e) ==
    IF Matches(s, e) THEN Execute(s, [View(s) EXCEPT ![e.key] = NULL], 1)
                     ELSE Execute(s, View(s), 0)

SameRevision(e) == e.rev
NextRevision(e) == e.rev + 1

\* A modified object is deleted and then inserted with the next revision.
PersistModified(s, e) ==
    /\ Persist(s)
    /\ e.typed /\ e.ptr # NULL /\ Verdict(e) = "MODIFIED"
    /\ DeleteRow(s, e)
    /\ current' = [current EXCEPT ![s] = e]
    /\ pc' = [pc EXCEPT ![s] = "insert"]
    /\ UNCHANGED <<entries, disordered, stopped>>

InsertModified(s) ==
    /\ pc[s] = "insert"
    /\ WriteLock(s)
    /\ LET e == current[s] IN Insert(s, e, [Visited(e) EXCEPT !.rev = NextRevision(e)])
    /\ current' = [current EXCEPT ![s] = NULL]
    /\ pc' = [pc EXCEPT ![s] = "persist"]
    /\ UNCHANGED <<setup, at, unknown, master, data, disordered, bounds,
                   stopped, trace>>

\* A removed object is deleted, its data forgotten while it is in the tree.
PersistRemoved(s, e) ==
    /\ Persist(s)
    /\ e.typed /\ (e.ptr = NULL \/ Verdict(e) = "REMOVED")
    /\ DeleteRow(s, e)
    /\ entries' = [entries EXCEPT ![s] =
                      Replace(s, e, [Visited(e) EXCEPT !.ptr = NULL, !.state = "REMOVED"])]
    /\ disordered' = [disordered EXCEPT ![s] = TRUE]
    /\ pc' = [pc EXCEPT ![s] = "removed"]
    /\ UNCHANGED <<current, stopped>>

AfterFailedRemovalGiveUp == "idle"
AfterFailedRemoval == "persist"

\* The number of rows is read from the connection; other than 1 ends the traversal.
CheckRemoved(s) ==
    /\ pc[s] = "removed"
    /\ IF changes[Conn(s)] = 1 THEN UNCHANGED <<entries, stopped>>
       ELSE /\ entries' = [entries EXCEPT ![s] = {[e EXCEPT !.filed = 0] : e \in @}]
            /\ stopped' = [stopped EXCEPT ![s] = TRUE]
    /\ pc' = [pc EXCEPT ![s] = IF changes[Conn(s)] = 1 THEN "persist" ELSE AfterFailedRemoval]
    /\ UNCHANGED <<setup, store, at, unknown, master, data, disordered, current, bounds, trace>>

EndPersist(s) ==
    /\ pc[s] = "persist"
    /\ ToVisit(s) = {}
    /\ pc' = [pc EXCEPT ![s] = "commit"]
    /\ UNCHANGED <<setup, store, at, memory, current, bounds, stopped, trace>>

End(s) == /\ rows' = IF writer = Conn(s) THEN work ELSE rows
          /\ writer' = IF writer = Conn(s) THEN NULL ELSE writer
          /\ tx' = tx \ {Conn(s)}

\* COMMIT, the maps being gone; its result is not looked at.
EndCommit(s) ==
    /\ pc[s] = "commit"
    /\ End(s)
    /\ pc' = [pc EXCEPT ![s] = "idle"]
    /\ Forget(s)
    /\ UNCHANGED <<setup, work, changes, bounds>>

-----------------------------------------------------------------------------
(* The end of a process: its transaction is rolled back from the journal.  *)

Die(c) ==
    LET gone == {s \in Session : setup.conn[s] = c}
        Clear(f, x) == [s \in Session |-> IF s \in gone THEN x ELSE f[s]]
    IN /\ tx' = tx \ {c}
       /\ writer' = IF writer = c THEN NULL ELSE writer
       /\ work' = IF writer = c THEN rows ELSE work
       /\ changes' = [changes EXCEPT ![c] = 0]
       /\ pc' = Clear(pc, "closed") /\ at' = Clear(at, 1)
       /\ entries' = Clear(entries, {}) /\ unknown' = Clear(unknown, {})
       /\ master' = Clear(master, {}) /\ data' = Clear(data, Nothing)
       /\ disordered' = Clear(disordered, FALSE) /\ current' = Clear(current, NULL)
       /\ stopped' = Clear(stopped, FALSE)
       /\ seen' = Clear(seen, [i \in Id |-> NULL]) /\ asked' = Clear(asked, {})
       /\ late' = Clear(late, FALSE)
       /\ UNCHANGED <<setup, rows, bounds>>

Crash(c) == /\ \E s \in Session : setup.conn[s] = c /\ pc[s] # "closed"
            /\ Die(c)

\* commitobject reads the definition of an object that has none.
NoDefinition(s) == /\ pc[s] = "persist"
                   /\ \E e \in ToVisit(s) : ~e.typed
                   /\ Die(Conn(s))

-----------------------------------------------------------------------------
CommitStep(s) == \/ \E e \in ToVisit(s) : \/ PersistNew(s, e)
                                          \/ PersistModified(s, e)
                                          \/ PersistRemoved(s, e)
                 \/ InsertModified(s) \/ CheckRemoved(s)
                 \/ NoDefinition(s) \/ EndPersist(s) \/ EndCommit(s)

SessionStep(s) ==
    \/ OpenSession(s) \/ CloseSession(s)
    \/ Fetch(s) \/ FetchObject(s) \/ Resolve(s)
    \/ \E p \in Held(s) : \/ \E n \in Name \union {NULL} : Change(s, p, n)
                           \/ Delete(s, p) \/ Unlink(s, p)
    \/ \E p, q \in Held(s) : Link(s, p, q)
    \/ \E p \in Fresh, n \in Name \union {NULL} : Create(s, p, n)
    \/ Commit(s)

Next == \/ \E s \in Session : SessionStep(s) \/ CommitStep(s)
        \/ \E c \in Connection : Crash(c)

Spec == Init /\ [][Next]_vars
FairSpec == Spec /\ \A s \in Session : WF_vars(CommitStep(s))

-----------------------------------------------------------------------------
\* Each session has a connection of its own.
Alone == \A s, t \in Session : setup.conn[s] = setup.conn[t] => s = t

\* Every definition is fetched after the one its foreign key is for.
Ordered == \A i, j \in 1..Len(setup.order) :
              Column(setup.order[i]) = setup.order[j] => j < i

\* When the commit is through: the object of the entry was inserted.
Wrote(s, e) == /\ e.ptr # NULL /\ e.key \in Id /\ Verdict(e) \in {"NEW", "MODIFIED"}
               /\ ~LostReference(s, e.ptr)

Written(s, e) ==
    LET row == View(s)[e.key]
        object == data[s][e.ptr]
    IN /\ row # NULL /\ row.rev = e.rev
       /\ row.val = object.val /\ row.name = object.name
       /\ \/ row.ref = object.ref
          \/ disordered[s]
          \/ \E g \in entries[s] : g.ptr = object.ref /\ g.key # object.ref

\* It was inserted as one of definition t with the name n.
WroteName(s, e, t, n) == /\ Wrote(s, e) /\ TypeOf[e.ptr] = t /\ t \in Unique
                         /\ data[s][e.ptr].name = n
Namesake(s, e) ==
    \E f \in entries[s] \ {e} : WroteName(s, f, TypeOf[e.ptr], data[s][e.ptr].name)

\* A commit reports success whatever happens.  When it is through, each change
\* is in the tables, unless the key drawn for a new object is that of another
\* one, another object was given its name, a failed removal ended the traversal,
\* or its reference came to nothing.  A reference to an object that got its key
\* in the same commit, or while the tree is out of order, may be 0 or -1.
ChangesWritten ==
    Alone => \A s \in Session : pc[s] = "commit" /\ ~stopped[s] =>
       \A e \in entries[s] :
          /\ e.state \in {"NEW", "MODIFIED"} /\ e.ptr # NULL /\ e.reached
          => \/ Written(s, e) \/ LostReference(s, e.ptr) \/ Namesake(s, e)
             \/ \E f \in entries[s] \ {e} : f.key = e.key

\* The state of the sessions between any two of their steps, and what a commit
\* has done with the objects of its session when it comes to its COMMIT.
DbInv == TypeOK /\ ChangesWritten

\* The key of an object that was new in this commit may be any key; all objects
\* that were marked with dbsimple_dirty twice before they had one have -1.
Drawn(s) == {e.key : e \in {f \in entries[s] : f.state = "NEW"}} \union Keyless

\* The content of a row changes to a higher revision only, unless the session
\* that writes it fetched it before somebody else changed it (its delete by
\* revision finds nothing and its insert replaces the row all the same, the
\* newer change is lost) or drew the key for a new object.
RevisionsGrow ==
    [][\A i \in Id : /\ Alone /\ rows[i] # NULL /\ rows'[i] \notin {NULL, rows[i]}
                     => \/ rows'[i].rev > rows[i].rev
                        \/ \E s \in Session : /\ pc[s] = "commit" /\ pc'[s] = "idle"
                                              /\ seen[s][i] # rows[i] \/ i \in Drawn(s)]_vars

\* What the singleton leads to, with a reference at most.
Kept(s, i) == i \in master[s] \/ \E p \in master[s] : data[s][p].ref = i

\* The commit wrote a row other than i with the name of row i, the one it had
\* or the one it was given in this commit.
NameTaken(s, i) ==
    \E e \in entries[s] : e.key # i /\
       \/ WroteName(s, e, TypeOf[i], rows[i].name)
       \/ \E g \in entries[s] : /\ g.key = i /\ Wrote(s, g)
                              /\ WroteName(s, e, TypeOf[i], data[s][g.ptr].name)

\* A row disappears only when the session that commits gave its name to another
\* object, or fetched this revision of it, and deleted the object or changed it
\* while nothing that is followed leads to it, or changed it after what it
\* refers to was gone, or not there yet, when it was fetched.  No object may have
\* been referred to before its row was fetched.  (On a shared connection the
\* COMMIT of one session may fall between the DELETE and the INSERT of another.)
RemovedOnlyOnPurpose ==
    [][\A i \in Id : Alone /\ rows[i] # NULL /\ rows'[i] = NULL
                     => \E s \in Session :
                           /\ pc[s] = "commit" /\ pc'[s] = "idle"
                           /\ \/ late[s]
                              \/ NameTaken(s, i)
                              \/ /\ i \in asked[s] \/ ~Kept(s, i) \/ LostReference(s, i)
                                 /\ \/ seen[s][i] # NULL /\ seen[s][i].rev = rows[i].rev
                                    \/ i \in Drawn(s)]_vars

\* Other sessions see all of a commit at once, also when the process ends in
\* the middle of it, if no two sessions share a connection.
WholeCommits ==
    [][Alone /\ rows' # rows => \E s \in Session : pc[s] = "commit" /\ pc'[s] = "idle"]_vars

\* The write lock of the database is given up again: the sessions that wait
\* for it with sleep and retry do not wait on each other.
LockReleased == \A c \in Connection : writer = c ~> writer # c
=============================================================================
