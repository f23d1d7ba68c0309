--------------------------- MODULE DbSimpleProofs ---------------------------
(***************************************************************************)
(* What is proved of the object persistence, for any number of sessions,   *)
(* connections, rows and definitions, and for every program of Setups.     *)
(*                                                                         *)
(* A commit is seen as a whole if no two sessions share a connection: the  *)
(* committed tables change in the COMMIT of a session and nowhere else,    *)
(* because a session that writes is inside a transaction (Transactions,    *)
(* CommitsAreWhole).                                                       *)
(*                                                                         *)
(* The rest follows from DbIndInv: MemInv says what a session has in       *)
(* memory between any two of its steps, StoreInv what its commit has done  *)
(* to the tables so far, the rows included that a UNIQUE index makes it    *)
(* replace.  Of them follow what is in the tables when a commit is through *)
(* (ChangesAreWritten), how the revision of a row goes                     *)
(* (RevisionsOfRowsGrow), why a row goes (RowsGoOnPurpose), and for which  *)
(* plans nothing is referred to before it is fetched                       *)
(* (OrderedPlansAreInTime).                                                *)
(***************************************************************************)
EXTENDS DbSimple, TLAPS

Writing == {"persist", "insert", "removed", "commit"}

\* The part of the invariant that is inductive: a session that writes is
\* inside a transaction that no other session ends.
InTransaction == Alone => \A s \in Session : pc[s] \in Writing => Conn(s) \in tx
TxInv == /\ DOMAIN pc = Session
         /\ InTransaction

\* No step changes the set-up, and so neither who shares a connection.
LEMMA SetupKept == Next => setup' = setup
<1>1. ASSUME NEW s \in Session, CommitStep(s) PROVE setup' = setup
  BY <1>1 DEF CommitStep, PersistNew, PersistModified, PersistRemoved, Persist,
     InsertModified, CheckRemoved, NoDefinition, EndPersist, EndCommit, Die
<1>2. ASSUME NEW s \in Session, SessionStep(s) PROVE setup' = setup
  BY <1>2 DEF SessionStep, OpenSession, CloseSession, Fetch, FetchObject, Resolve,
     Change, Delete, Unlink, Link, Create, Application, Commit
<1> QED BY <1>1, <1>2 DEF Next, Crash, Die

\* Who shares a connection does not change with the set-up as it is.
LEMMA AloneKept == ASSUME setup' = setup PROVE Alone' <=> Alone
  BY DEF Alone

\* A step of session s that leaves the others where they are keeps the
\* invariant if it ends no transaction and stops short of writing, or goes on
\* writing, or begins a transaction.
LEMMA StepOfOne ==
  ASSUME NEW s \in Session, NEW to, TxInv, setup' = setup,
         pc' = [pc EXCEPT ![s] = to],
         tx \subseteq tx',
         to \in Writing => pc[s] \in Writing \/ Conn(s) \in tx'
  PROVE  TxInv'
<1>1. Alone' <=> Alone BY AloneKept
<1>2. ASSUME NEW t \in Session, Alone, pc'[t] \in Writing PROVE (Conn(t) \in tx)'
  <2>1. CASE t = s BY <1>2, <2>1 DEF TxInv, InTransaction, Conn
  <2>2. CASE t # s BY <1>2, <2>2 DEF TxInv, InTransaction, Conn
  <2> QED BY <2>1, <2>2
<1> QED BY <1>1, <1>2 DEF TxInv, InTransaction

\* The end of a process closes the sessions of its connection.
LEMMA DeathKeeps ==
  ASSUME TxInv, NEW c, Die(c) PROVE TxInv'
<1>1. setup' = setup BY DEF Die
<1>2. ASSUME NEW t \in Session, pc'[t] \in Writing PROVE setup.conn[t] # c /\ pc[t] = pc'[t]
  BY <1>2 DEF Die, Writing
<1>3. DOMAIN pc' = Session BY DEF Die
<1>4. tx' = tx \ {c} BY DEF Die
<1> QED BY <1>1, <1>2, <1>3, <1>4, AloneKept DEF TxInv, InTransaction, Conn

\* What a session does before its commit leaves the transactions as they should be.
LEMMA SessionKeeps ==
  ASSUME TxInv, NEW s \in Session, SessionStep(s) PROVE TxInv'
<1>0. setup' = setup
  BY DEF SessionStep, OpenSession, CloseSession, Fetch, FetchObject, Resolve,
     Change, Delete, Unlink, Link, Create, Application, Commit
<1>1. CASE OpenSession(s)
  BY <1>0, <1>1, StepOfOne DEF OpenSession, store, Writing
<1>2. CASE CloseSession(s)
  BY <1>0, <1>2, StepOfOne DEF CloseSession, store, Writing
<1>3. CASE Fetch(s)
  BY <1>0, <1>3, StepOfOne DEF Fetch, store, Writing
<1>4. CASE FetchObject(s)
  BY <1>0, <1>4, AloneKept DEF FetchObject, store, TxInv, InTransaction, Conn
<1>5. CASE Resolve(s)
  BY <1>0, <1>5, StepOfOne DEF Resolve, store, Writing
<1>7. CASE Commit(s)
  <2>1. tx' = tx \union {Conn(s)} /\ pc' = [pc EXCEPT ![s] = "persist"]
    BY <1>7 DEF Commit, Begin
  <2> QED BY <1>0, <2>1, StepOfOne DEF Writing
<1>8. ASSUME Application(s) PROVE TxInv'
  BY <1>0, <1>8, AloneKept DEF Application, store, TxInv, InTransaction, Conn
<1> QED
  BY <1>1, <1>2, <1>3, <1>4, <1>5, <1>7, <1>8
     DEF SessionStep, Change, Delete, Unlink, Link, Create

\* So does what a commit does; its COMMIT ends no transaction but its own.
LEMMA CommitKeeps ==
  ASSUME TxInv, NEW s \in Session, CommitStep(s) PROVE TxInv'
<1>0. setup' = setup
  BY DEF CommitStep, PersistNew, PersistModified, PersistRemoved, Persist,
     InsertModified, CheckRemoved, NoDefinition, EndPersist, EndCommit, Die
<1>1. ASSUME NEW e, PersistNew(s, e) PROVE TxInv'
  <2>1. pc' = pc /\ tx' = tx BY <1>1 DEF PersistNew, Insert, Refused, Execute
  <2> QED BY <1>0, <2>1, AloneKept DEF TxInv, InTransaction, Conn
<1>2. ASSUME NEW e, PersistModified(s, e) PROVE TxInv'
  <2>1. tx' = tx BY <1>2 DEF PersistModified, DeleteRow, Execute
  <2> QED BY <1>0, <1>2, <2>1, StepOfOne DEF PersistModified, Persist, Writing
<1>3. ASSUME NEW e, PersistRemoved(s, e) PROVE TxInv'
  <2>1. tx' = tx BY <1>3 DEF PersistRemoved, DeleteRow, Execute
  <2> QED BY <1>0, <1>3, <2>1, StepOfOne DEF PersistRemoved, Persist, Writing
<1>4. CASE InsertModified(s)
  <2>1. tx' = tx BY <1>4 DEF InsertModified, Insert, Refused, Execute
  <2> QED BY <1>0, <1>4, <2>1, StepOfOne DEF InsertModified, Writing
<1>5. CASE CheckRemoved(s)
  <2>1. tx' = tx /\ pc[s] = "removed" BY <1>5 DEF CheckRemoved, store
  <2>2. pc' = [pc EXCEPT ![s] = "persist"]
    BY <1>5 DEF CheckRemoved, AfterFailedRemoval
  <2> QED BY <1>0, <2>1, <2>2, StepOfOne DEF Writing
<1>6. CASE NoDefinition(s) BY <1>6, DeathKeeps DEF NoDefinition
<1>7. CASE EndPersist(s)
  BY <1>0, <1>7, StepOfOne DEF EndPersist, store, Writing
<1>8. CASE EndCommit(s)
  <2>1. tx' = tx \ {Conn(s)} /\ pc' = [pc EXCEPT ![s] = "idle"]
    BY <1>8 DEF EndCommit, End
  <2>2. ASSUME NEW t \in Session, Alone, pc'[t] \in Writing PROVE (Conn(t) \in tx)'
    <3>1. t # s /\ pc[t] \in Writing BY <2>1, <2>2 DEF TxInv, Writing
    <3>2. Conn(t) # Conn(s) BY <2>2, <3>1 DEF Alone, Conn
    <3> QED BY <1>0, <2>1, <2>2, <3>1, <3>2 DEF TxInv, InTransaction, Conn
  <2> QED BY <1>0, <2>1, <2>2, AloneKept DEF TxInv, InTransaction
<1> QED BY <1>1, <1>2, <1>3, <1>4, <1>5, <1>6, <1>7, <1>8 DEF CommitStep

\* Inside a transaction no statement changes the committed tables.
LEMMA RowsChangeAtCommit ==
  ASSUME TxInv, Next, Alone, rows' # rows
  PROVE  \E s \in Session : EndCommit(s)
<1>1. ASSUME NEW s \in Session, SessionStep(s) PROVE FALSE
  BY <1>1 DEF SessionStep, OpenSession, CloseSession, Fetch, FetchObject, Resolve,
     Change, Delete, Unlink, Link, Create, Application, Commit, store
<1>2. ASSUME NEW c, Die(c) PROVE FALSE
  BY <1>2 DEF Die
<1>3. ASSUME NEW s \in Session, pc[s] \in Writing, NEW t, NEW n, Execute(s, t, n) PROVE FALSE
  BY <1>3 DEF Execute, TxInv, InTransaction
<1>4. ASSUME NEW s \in Session, CommitStep(s) PROVE EndCommit(s)
  <2>1. ASSUME NEW e, PersistNew(s, e) PROVE FALSE
    <3>1. \E t, n : Execute(s, t, n) BY <2>1 DEF PersistNew, Insert, Refused
    <3> QED BY <1>3, <2>1, <3>1 DEF PersistNew, Persist, Writing
  <2>2. ASSUME NEW e, PersistModified(s, e) PROVE FALSE
    <3>1. \E t, n : Execute(s, t, n) BY <2>2 DEF PersistModified, DeleteRow
    <3> QED BY <1>3, <2>2, <3>1 DEF PersistModified, Persist, Writing
  <2>3. ASSUME NEW e, PersistRemoved(s, e) PROVE FALSE
    <3>1. \E t, n : Execute(s, t, n) BY <2>3 DEF PersistRemoved, DeleteRow
    <3> QED BY <1>3, <2>3, <3>1 DEF PersistRemoved, Persist, Writing
  <2>4. ASSUME InsertModified(s) PROVE FALSE
    <3>1. \E t, n : Execute(s, t, n) BY <2>4 DEF InsertModified, Insert, Refused
    <3> QED BY <1>3, <2>4, <3>1 DEF InsertModified, Writing
  <2>5. ASSUME CheckRemoved(s) \/ EndPersist(s) PROVE FALSE
    BY <2>5 DEF CheckRemoved, EndPersist, store
  <2> QED BY <1>2, <1>4, <2>1, <2>2, <2>3, <2>4, <2>5 DEF CommitStep, NoDefinition
<1> QED BY <1>1, <1>2, <1>4 DEF Next, Crash

\* Every step keeps the transactions.
LEMMA TxNext == ASSUME TxInv, [Next]_vars PROVE TxInv'
<1>1. CASE UNCHANGED vars
  BY <1>1, AloneKept DEF vars, store, TxInv, InTransaction, Conn
<1>2. CASE Next BY <1>2, SessionKeeps, CommitKeeps, DeathKeeps DEF Next, Crash
<1> QED BY <1>1, <1>2

\* A session that writes is inside its transaction (commitdata, lines 603 to
\* 616), if the connection is its own.
THEOREM Transactions == Spec => []TxInv
<1>1. Init => TxInv BY DEF Init, TxInv, InTransaction, Writing
<1>2. TxInv /\ [Next]_vars => TxInv' BY TxNext
<1> QED BY <1>1, <1>2, PTL DEF Spec

\* The other sessions see all of a commit at once (WholeCommits).
THEOREM CommitsAreWhole == Spec => WholeCommits
<1>1. TxInv /\ [Next]_vars
      => [Alone /\ rows' # rows => \E s \in Session : pc[s] = "commit" /\ pc'[s] = "idle"]_vars
  BY RowsChangeAtCommit DEF vars, EndCommit, TxInv
<1> QED BY <1>1, Transactions, PTL DEF Spec, WholeCommits
-----------------------------------------------------------------------------
(* What a session has in memory.                                           *)

Having == Writing \union {"have"}

TypeInv == /\ setup \in Setup
           /\ TypeOK
           /\ at \in [Session -> Nat \ {0}]
           /\ master \in [Session -> SUBSET Ptr]
           /\ disordered \in [Session -> BOOLEAN] /\ stopped \in [Session -> BOOLEAN]
           /\ seen \in [Session -> [Id -> Row \union {NULL}]]
           /\ asked \in [Session -> SUBSET (Id \union {Zero})]
           /\ late \in [Session -> BOOLEAN]
           /\ changes \in [Connection -> Nat]

\* The definitions that session s has fetched.
Fetched(s) == {setup.order[j] : j \in {k \in 1..Len(setup.order) : k < at[s]}}

\* A row that was fetched is of such a definition.
SeenInv(s) == \A i \in Id : seen[s][i] # NULL => TypeOf[i] \in Fetched(s)

\* As long as objects are fetched, an entry is of a row that was fetched.
FetchingInv(s) == pc[s] = "fetch" => \A e \in entries[s] :
    e.ptr = e.key /\ e.key \in Id /\ seen[s][e.key] # NULL

\* An entry is of an object that was new, of one that was marked twice and has
\* the key -1, or of a row that was fetched: then its revision is no lower.
IsNew(e) == /\ e.state = "NEW" /\ e.filed <= 1
            /\ e.filed > 0 => e.key \in Keyless \union {Zero}
IsKeyless(e) == /\ e.state # "NEW" /\ e.key \in Keyless /\ e.filed <= 1
                /\ e.filed > 0 => e.rev = 0
IsRow(s, e) == /\ e.state # "NEW" /\ e.key \in Id /\ e.ptr \in {e.key, NULL}
               /\ seen[s][e.key] # NULL /\ seen[s][e.key].rev <= e.rev
               /\ ~late[s] => e.filed <= 1 /\ (e.filed > 0 => e.rev = seen[s][e.key].rev)
OriginInv(s) == \A e \in entries[s] : IsNew(e) \/ IsKeyless(e) \/ IsRow(s, e)

\* Before the commit no entry was reached or visited.
EarlyInv(s) == pc[s] \notin Writing => \A e \in entries[s] :
    ~e.reached /\ e.filed > 0 /\ (e.state = "NEW" => e.key \in Keyless /\ e.rev = 0)

\* Objects and references are of the right definitions.
TypedInv(s) ==
    /\ \A e \in entries[s] : e.ptr # NULL /\ e.key \in Id => TypeOf[e.key] = TypeOf[e.ptr]
    /\ \A p \in Ptr : data[s][p].ref \in Ptr => TypeOf[data[s][p].ref] = RefType[TypeOf[p]]
    /\ pc[s] \in Having => \A p \in Ptr : data[s][p].ref # Zero

\* Only a removed object has no data; while it has, it was given to dbsimple_delete.
RemovedInv(s) == \A e \in entries[s] :
    /\ e.ptr = NULL => e.state = "REMOVED"
    /\ e.ptr # NULL /\ e.state = "REMOVED" => e.key \in asked[s]
    /\ ~late[s] /\ e.ptr = NULL => e.filed = 0

Visiting(s, e) == /\ e \in entries[s] /\ e.filed > 0 /\ e.state = "MODIFIED" /\ e.ptr # NULL
                  /\ e.typed /\ Verdict(e) = "MODIFIED"
CurrentInv(s) == pc[s] = "insert" => Visiting(s, current[s])

\* If every definition comes after the one its foreign key is for, no object is
\* referred to before its row is fetched.
AwaitedInv(s) ==
    Ordered => /\ ~late[s]
               /\ \A i \in unknown[s] \ {Zero} : \E t \in Fetched(s) : Column(t) = TypeOf[i]

\* Unless one was, the tree is in order until a removal, and no row has two entries.
OnceInv(s) ==
   ~late[s] => /\ pc[s] \in {"fetch", "have"} => ~disordered[s]
               /\ \A e, f \in entries[s] :
                     /\ e.state # "NEW" /\ f.state # "NEW"
                     /\ e.key = f.key /\ e.key \notin Keyless
                     => e = f

\* A tree that is in order has one entry for a pointer, one for each row the
\* application can get at, and new ones for fresh objects only.
InOrderInv(s) ==
    ~disordered[s] =>
       /\ \A e, f \in entries[s] : e.ptr = f.ptr => e = f
       /\ \A e \in entries[s] : e.state = "NEW" => e.ptr \in Fresh
       /\ \A i \in Id : \/ i \in master[s]
                        \/ data[s][i].val # NULL
                        \/ pc[s] \in Having /\ \E p \in Ptr : data[s][p].ref = i
                        => i \in Loaded(s)

\* A commit that comes to its end has visited all there is to visit.
DoneInv(s) == pc[s] = "commit" => ToVisit(s) = {}

\* The traversal reaches what is kept, and an object through one entry only.
ReachedInv(s) ==
    /\ \A e, f \in entries[s] : e.reached /\ f.reached /\ e.ptr = f.ptr /\ e.ptr # NULL => e = f
    /\ ~late[s] /\ pc[s] \in Writing =>
          \A e \in entries[s] : e.ptr # NULL /\ e.state # "NEW" /\ Kept(s, e.ptr) => e.reached

MemInv(s) == /\ SeenInv(s) /\ FetchingInv(s) /\ OriginInv(s) /\ EarlyInv(s)
             /\ TypedInv(s) /\ RemovedInv(s) /\ CurrentInv(s) /\ AwaitedInv(s)
             /\ OnceInv(s) /\ InOrderInv(s) /\ ReachedInv(s) /\ DoneInv(s)

-----------------------------------------------------------------------------
(* What a session has done to the tables.                                  *)

TablesInv == /\ \A i \in Id : rows[i] = NULL \/ RefTyped(i, rows[i])
             /\ \A i \in Id : work[i] = NULL \/ RefTyped(i, work[i])

Idling == Alone => \A s \in Session : Conn(s) \in tx => pc[s] \in Writing

\* A row of which the revision does not grow.
GrowInv(s) ==
    Alone /\ pc[s] \in Writing => \A i \in Id :
       rows[i] # NULL /\ View(s)[i] \notin {NULL, rows[i]}
       => View(s)[i].rev > rows[i].rev \/ seen[s][i] # rows[i] \/ i \in Drawn(s)

Pending(s, i) == pc[s] = "insert" /\ current[s].key = i /\ current[s].ptr = i

\* A row that this commit has changed is that of an entry that was visited.
ChangedInv(s) ==
    Alone /\ ~late[s] /\ pc[s] \in Writing => \A i \in Id \ Drawn(s) :
       View(s)[i] \notin {NULL, rows[i]}
       => \E e \in entries[s] : e.state # "NEW" /\ e.key = i /\ e.filed = 0

\* An entry that has the key it is inserted with, and what a commit inserts, or
\* inserted, under key k: an object of definition t with the name n.
Settled(e) == e.filed = 0 \/ e.state # "NEW"
Puts(s, k, t, n) == \E e \in entries[s] : /\ e.key = k /\ Settled(e) /\ Wrote(s, e)
                                          /\ TypeOf[e.ptr] = t /\ data[s][e.ptr].name = n

\* A row that this commit has changed has the name of such an object.
NamedInv(s) ==
    Alone /\ pc[s] \in Writing => \A i \in Id :
       View(s)[i] \notin {NULL, rows[i]} => Puts(s, i, TypeOf[i], View(s)[i].name)

\* Another object was given the name of a row, the one it had or the one it got.
Taken(s, i) ==
    TypeOf[i] \in Unique /\ \E k \in Id \ {i} : \E n :
       Puts(s, k, TypeOf[i], n) /\ (n = rows[i].name \/ Puts(s, i, TypeOf[i], n))

\* A row that this commit has removed had its name taken; or it had the revision
\* that was fetched, and was to go, or is about to be inserted again.
Unwanted(s, i) == i \in asked[s] \/ ~Kept(s, i) \/ LostReference(s, i)
GoneInv(s) ==
    Alone /\ ~late[s] /\ pc[s] \in Writing => \A i \in Id :
       rows[i] # NULL /\ View(s)[i] = NULL
       => \/ Taken(s, i)
          \/ /\ Unwanted(s, i) \/ Pending(s, i)
             /\ \/ seen[s][i] # NULL /\ seen[s][i].rev = rows[i].rev
                \/ i \in Drawn(s)

\* A change that was visited is in the tables as the session sees them, unless
\* another entry has its key or its name.
Shared(s, e) == \E f \in entries[s] \ {e} : f.key = e.key /\ Settled(f)
Outnamed(s, e) ==
    \E f \in entries[s] \ {e} : /\ Settled(f) /\ Wrote(s, f) /\ TypeOf[f.ptr] \in Unique
                               /\ TypeOf[f.ptr] = TypeOf[e.ptr]
                               /\ data[s][f.ptr].name = data[s][e.ptr].name
WrittenInv(s) ==
    Alone /\ pc[s] \in Writing /\ ~stopped[s] => \A e \in entries[s] :
       /\ e.state \in {"NEW", "MODIFIED"} /\ e.ptr # NULL /\ e.reached /\ e.filed = 0
       => /\ writer = Conn(s) /\ e.key \in Id
          /\ \/ Written(s, e) \/ LostReference(s, e.ptr)
             \/ Shared(s, e) \/ Outnamed(s, e)

StoreInv(s) == /\ GrowInv(s) /\ ChangedInv(s) /\ NamedInv(s) /\ GoneInv(s)
               /\ WrittenInv(s)

SessionsInv == TablesInv /\ Idling /\ \A s \in Session : MemInv(s) /\ StoreInv(s)
-----------------------------------------------------------------------------
(* Types.                                                                  *)

\* What a session sees are tables, and its connection is one.
LEMMA ViewType ==
  ASSUME TypeInv, NEW s \in Session
  PROVE  View(s) \in [Id -> Row \union {NULL}] /\ Conn(s) \in Connection
BY DEF TypeInv, TypeOK, View, Conn, Setup

\* The fields of a row.
LEMMA RowFields ==
  ASSUME NEW row \in Row
  PROVE  /\ row.rev \in Nat \ {0} /\ row.val \in Session \union {NULL}
         /\ row.name \in Name \union {NULL}
         /\ row.ref \in Id \union {NULL, Zero} /\ row # NULL
BY DbAssumption DEF Row

\* The fields of an entry.
LEMMA EntryFields ==
  ASSUME NEW e \in Entry
  PROVE  /\ e.ptr \in Ptr \union {NULL} /\ e.key \in Id \union {Zero} /\ e.rev \in Nat
         /\ e.state \in {"NEW", "CLEAN", "REMOVED", "MODIFIED"}
         /\ e.reached \in BOOLEAN /\ e.typed \in BOOLEAN /\ e.filed \in 0..2
         /\ e # NULL
BY DbAssumption DEF Entry

\* An entry with another state.
LEMMA Marked ==
  ASSUME NEW e \in Entry, NEW st \in {"MODIFIED", "REMOVED"}
  PROVE  LET f == [e EXCEPT !.state = st]
         IN  /\ f \in Entry /\ f.state = st
             /\ f.ptr = e.ptr /\ f.key = e.key /\ f.rev = e.rev /\ f.reached = e.reached
             /\ f.typed = e.typed /\ f.filed = e.filed
BY DEF Entry

\* An entry that a traversal has visited, with the key and the revision it got.
LEMMA StoredNew ==
  ASSUME NEW e \in Entry, e.filed > 0, NEW k \in Id
  PROVE  LET f == [Visited(e) EXCEPT !.key = k, !.rev = 1]
         IN  /\ f \in Entry /\ f.key = k /\ f.rev = 1 /\ f.filed = e.filed - 1
             /\ f.ptr = e.ptr /\ f.state = e.state /\ f.reached = e.reached
             /\ f.typed = e.typed
<1>1. e.filed \in 0..2 BY DEF Entry
<1>2. PICK n \in 0..2 : n = e.filed - 1 BY <1>1
<1>3. Visited(e) = [e EXCEPT !.filed = n] BY <1>2 DEF Visited
<1>4. Visited(e) \in Entry BY <1>3 DEF Entry
<1> QED BY <1>2, <1>3, <1>4 DEF Entry

\* The same for one that was modified.
LEMMA StoredModified ==
  ASSUME NEW e \in Entry, e.filed > 0
  PROVE  LET f == [Visited(e) EXCEPT !.rev = NextRevision(e)]
         IN  /\ f \in Entry /\ f.key = e.key /\ f.rev = e.rev + 1 /\ f.filed = e.filed - 1
             /\ f.ptr = e.ptr /\ f.state = e.state /\ f.reached = e.reached
             /\ f.typed = e.typed
<1>1. e.filed \in 0..2 BY DEF Entry
<1>2. PICK n \in 0..2 : n = e.filed - 1 BY <1>1
<1>3. Visited(e) = [e EXCEPT !.filed = n] BY <1>2 DEF Visited
<1>4. Visited(e) \in Entry BY <1>3 DEF Entry
<1>5. PICK r \in Nat : r = e.rev + 1
  <2>1. e.rev \in Nat BY DEF Entry
  <2> QED BY <2>1
<1>6. NextRevision(e) = r BY <1>5 DEF NextRevision
<1>7. PICK f : f = [Visited(e) EXCEPT !.rev = r] OBVIOUS
<1>8. /\ f \in Entry /\ f.key = e.key /\ f.rev = r /\ f.filed = n
      /\ f.ptr = e.ptr /\ f.state = e.state /\ f.reached = e.reached /\ f.typed = e.typed
  BY <1>3, <1>4, <1>7 DEF Entry
<1> QED BY <1>2, <1>5, <1>6, <1>7, <1>8

\* The same for one that was removed.
LEMMA StoredRemoved ==
  ASSUME NEW e \in Entry, e.filed > 0
  PROVE  LET f == [Visited(e) EXCEPT !.ptr = NULL, !.state = "REMOVED"]
         IN  /\ f \in Entry /\ f.key = e.key /\ f.rev = e.rev /\ f.filed = e.filed - 1
             /\ f.ptr = NULL /\ f.state = "REMOVED" /\ f.reached = e.reached
             /\ f.typed = e.typed
<1>1. e.filed \in 0..2 BY DEF Entry
<1>2. PICK n \in 0..2 : n = e.filed - 1 BY <1>1
<1>3. Visited(e) = [e EXCEPT !.filed = n] BY <1>2 DEF Visited
<1>4. Visited(e) \in Entry BY <1>3 DEF Entry
<1> QED BY <1>2, <1>3, <1>4 DEF Entry

\* What a look-up finds.
LEMMA LookupFacts ==
  ASSUME NEW s, NEW p, NEW e \in Lookup(s, p)
  PROVE  /\ e = NULL \/ (e \in entries[s] /\ e.ptr = p)
         /\ e = NULL /\ NULL \notin entries[s] /\ ~disordered[s]
            => \A g \in entries[s] : g.ptr # p
BY DEF Lookup

\* A statement leaves tables behind, and the writer inside its transaction.
LEMMA ExecuteTypes ==
  ASSUME TypeInv, NEW s \in Session, NEW t \in [Id -> Row \union {NULL}], NEW n \in Nat,
         Execute(s, t, n)
  PROVE  /\ rows' \in [Id -> Row \union {NULL}] /\ work' \in [Id -> Row \union {NULL}]
         /\ writer' \in Connection \union {NULL} /\ (writer' # NULL => writer' \in tx')
         /\ changes' \in [Connection -> Nat]
<1>1. Conn(s) \in Connection BY ViewType
<1> QED BY <1>1 DEF Execute, TypeInv, TypeOK

\* A session that forgets starts with nothing.
LEMMA ForgetTypes ==
  ASSUME TypeInv, NEW s \in Session, Forget(s), setup' = setup,
         rows' \in [Id -> Row \union {NULL}], work' \in [Id -> Row \union {NULL}],
         writer' \in Connection \union {NULL}, writer' # NULL => writer' \in tx',
         changes' \in [Connection -> Nat],
         NEW to \in {"closed", "idle", "fetch"}, pc' = [pc EXCEPT ![s] = to]
  PROVE  TypeInv'
<1>1. Nothing \in [Ptr -> Object] BY DEF Nothing, Object
<1>2. [i \in Id |-> NULL] \in [Id -> Row \union {NULL}] OBVIOUS
<1>3. TypeOK'
  <2>1. /\ pc' \in [Session -> {"closed", "idle", "fetch", "have", "persist", "insert",
                                "removed", "commit"}]
        /\ entries' \in [Session -> SUBSET Entry]
        /\ unknown' \in [Session -> SUBSET (Id \union {Zero})]
        /\ data' \in [Session -> [Ptr -> Object]]
        /\ current' \in [Session -> Entry \union {NULL}]
    BY <1>1 DEF Forget, TypeInv, TypeOK
  <2> QED BY <2>1 DEF TypeOK
<1>4. /\ at' \in [Session -> Nat \ {0}]
      /\ master' \in [Session -> SUBSET Ptr]
      /\ disordered' \in [Session -> BOOLEAN] /\ stopped' \in [Session -> BOOLEAN]
      /\ seen' \in [Session -> [Id -> Row \union {NULL}]]
      /\ asked' \in [Session -> SUBSET (Id \union {Zero})]
      /\ late' \in [Session -> BOOLEAN]
  BY <1>2 DEF Forget, TypeInv
<1> QED BY <1>3, <1>4 DEF TypeInv

\* What is read of a row.
LEMMA FieldsOfRow ==
  ASSUME NEW s, NEW i, View(s)[i] \in Row
  PROVE  /\ Fields(s, i) \in Object
         /\ Fields(s, i).val = View(s)[i].val
         /\ Fields(s, i).ref = IF RefType[TypeOf[i]] = NULL THEN NULL ELSE View(s)[i].ref
<1>1. PICK row \in Row : row = View(s)[i] OBVIOUS
<1>2. PICK ref : ref = IF RefType[TypeOf[i]] = NULL THEN NULL ELSE row.ref OBVIOUS
<1>3. Fields(s, i) = [val |-> row.val, name |-> row.name, ref |-> ref]
  BY <1>1, <1>2 DEF Fields
<1>4. ref \in Ptr \union {NULL, Zero} BY <1>2, RowFields DEF Ptr
<1>5. Fields(s, i) \in Object BY <1>3, <1>4, RowFields DEF Object
<1> QED BY <1>1, <1>2, <1>3, <1>5

\* Fetching.
LEMMA FetchTypes ==
  ASSUME TypeInv, NEW s \in Session, FetchObject(s) PROVE TypeInv'
<1>1. View(s) \in [Id -> Row \union {NULL}] BY ViewType
<1>2. \A i \in Selected(s) : i \in Id /\ View(s)[i] \in Row BY <1>1 DEF Selected
<1>3. ASSUME NEW i \in Selected(s), NEW n \in 1..2 PROVE GetObject(s, i, n) \in Entry
  BY <1>2, <1>3, RowFields DEF GetObject, Entry, Ptr
<1>4. entries' \in [Session -> SUBSET Entry]
  <2>1. PICK twice : entries' = [entries EXCEPT ![s] = @ \union
                        {GetObject(s, i, IF i \in twice THEN 2 ELSE 1) : i \in Selected(s)}]
    BY DEF FetchObject
  <2>2. {GetObject(s, i, IF i \in twice THEN 2 ELSE 1) : i \in Selected(s)} \subseteq Entry
    BY <1>3
  <2> QED BY <2>1, <2>2 DEF TypeInv, TypeOK
<1>5. Await(s) \in SUBSET (Id \union {Zero})
  <2>1. Targets(s) \subseteq Id \union {Zero} BY <1>2, RowFields DEF Targets
  <2> QED BY <2>1 DEF Await, TypeInv, TypeOK
<1>6. Arrays(s) \in SUBSET Ptr BY <1>2 DEF Arrays, TypeInv, Ptr
<1>7. data' \in [Session -> [Ptr -> Object]]
  <2>1. PICK d : d = [p \in Ptr |-> IF p \in Selected(s) THEN Fields(s, p) ELSE data[s][p]]
    OBVIOUS
  <2>2. ASSUME NEW p \in Ptr PROVE d[p] \in Object
    <3>1. CASE p \in Selected(s)
      <4>1. Fields(s, p) \in Object BY <1>2, <3>1, FieldsOfRow
      <4> QED BY <2>1, <3>1, <4>1
    <3>2. CASE p \notin Selected(s) BY <2>1, <3>2 DEF TypeInv, TypeOK
    <3> QED BY <3>1, <3>2
  <2>3. d \in [Ptr -> Object] BY <2>1, <2>2
  <2>4. data' = [data EXCEPT ![s] = d] BY <2>1 DEF FetchObject
  <2> QED BY <2>3, <2>4 DEF TypeInv, TypeOK
<1>8. seen' \in [Session -> [Id -> Row \union {NULL}]]
  <2>1. PICK d : d = [i \in Id |-> IF i \in Selected(s) THEN View(s)[i] ELSE seen[s][i]]
    OBVIOUS
  <2>2. d \in [Id -> Row \union {NULL}] BY <1>1, <2>1 DEF TypeInv
  <2>3. seen' = [seen EXCEPT ![s] = d] BY <2>1 DEF FetchObject
  <2> QED BY <2>2, <2>3 DEF TypeInv
<1>9. /\ disordered' \in [Session -> BOOLEAN] /\ late' \in [Session -> BOOLEAN]
      /\ unknown' \in [Session -> SUBSET (Id \union {Zero})]
      /\ master' \in [Session -> SUBSET Ptr]
      /\ at' \in [Session -> Nat \ {0}]
  BY <1>5, <1>6 DEF FetchObject, TypeInv, TypeOK
<1>10. UNCHANGED <<setup, rows, work, writer, tx, changes, pc, current, stopped, asked>>
  BY DEF FetchObject, store
<1> QED BY <1>4, <1>7, <1>8, <1>9, <1>10 DEF TypeInv, TypeOK

\* References that came to nothing are NULL.
LEMMA ResolveTypes ==
  ASSUME TypeInv, NEW s \in Session, Resolve(s) PROVE TypeInv'
<1>1. Patched(s) \in [Ptr -> Object]
  <2>1. ASSUME NEW p \in Ptr
        PROVE  [data[s][p] EXCEPT !.ref = IF @ \in Loaded(s) THEN @ ELSE NULL] \in Object
    <3>1. data[s][p] \in Object BY DEF TypeInv, TypeOK
    <3>2. PICK q \in Ptr \union {NULL, Zero} :
             q = IF data[s][p].ref \in Loaded(s) THEN data[s][p].ref ELSE NULL
      BY <3>1 DEF Object
    <3>3. [data[s][p] EXCEPT !.ref = q] \in Object BY <3>1 DEF Object
    <3> QED BY <3>2, <3>3
  <2> QED BY <2>1 DEF Patched
<1>2. data' \in [Session -> [Ptr -> Object]] BY <1>1 DEF Resolve, TypeInv, TypeOK
<1>3. pc' = [pc EXCEPT ![s] = "have"] BY DEF Resolve
<1>4. UNCHANGED <<setup, rows, work, writer, tx, changes, at, entries, unknown, master,
                  disordered, current, stopped, seen, asked, late>>
  BY DEF Resolve, store, trace
<1> QED BY <1>2, <1>3, <1>4 DEF TypeInv, TypeOK

\* What the application marks.
LEMMA DirtyTypes ==
  ASSUME TypeInv, NEW s \in Session, NEW p \in Ptr, Dirty(s, p)
  PROVE  entries' \in [Session -> SUBSET Entry]
<1>1. entries[s] \in SUBSET Entry /\ NULL \notin entries[s]
  BY EntryFields DEF TypeInv, TypeOK
<1>2. PICK e \in Lookup(s, p) : entries' = [entries EXCEPT ![s] =
           IF e = NULL
           THEN @ \union {[ptr |-> p, key |-> MinusOne[TypeOf[p]], rev |-> 0,
                           state |-> "NEW", reached |-> FALSE, typed |-> FALSE,
                           filed |-> 1]}
           ELSE Replace(s, e, [e EXCEPT !.state = "MODIFIED"])]
  BY DEF Dirty
<1>3. CASE e = NULL
  <2>1. MinusOne[TypeOf[p]] \in Id BY DbAssumption
  <2>2. PICK n : n = [ptr |-> p, key |-> MinusOne[TypeOf[p]], rev |-> 0,
                      state |-> "NEW", reached |-> FALSE, typed |-> FALSE, filed |-> 1]
    OBVIOUS
  <2>3. n \in Entry BY <2>1, <2>2 DEF Entry
  <2>4. entries' = [entries EXCEPT ![s] = @ \union {n}] BY <1>2, <1>3, <2>2
  <2> QED BY <2>3, <2>4 DEF TypeInv, TypeOK
<1>4. CASE e # NULL
  <2>1. e \in Entry BY <1>1, <1>4, LookupFacts
  <2>2. PICK f : f = [e EXCEPT !.state = "MODIFIED"] OBVIOUS
  <2>3. f \in Entry BY <2>1, <2>2, Marked
  <2>4. entries' = [entries EXCEPT ![s] = Replace(s, e, f)] BY <1>2, <1>4, <2>2
  <2> QED BY <1>1, <2>3, <2>4 DEF TypeInv, TypeOK, Replace
<1> QED BY <1>3, <1>4

\* What the application does.
LEMMA ApplicationTypes ==
  ASSUME TypeInv, NEW s \in Session, NEW p \in Ptr,
         \/ \E n \in Name \union {NULL} : Change(s, p, n) \/ (p \in Fresh /\ Create(s, p, n))
         \/ Delete(s, p) \/ Unlink(s, p)
         \/ \E q \in Ptr : Link(s, p, q)
  PROVE  TypeInv'
<1>1. /\ UNCHANGED <<setup, rows, work, writer, tx, changes, pc, at, unknown, disordered,
                     current, stopped, seen, late>>
      /\ Application(s)
  BY DEF Change, Delete, Unlink, Create, Link, Application, store
<1>2. ASSUME entries' \in [Session -> SUBSET Entry],
             data' \in [Session -> [Ptr -> Object]],
             master' \in [Session -> SUBSET Ptr],
             asked' \in [Session -> SUBSET (Id \union {Zero})]
      PROVE  TypeInv'
  BY <1>1, <1>2 DEF TypeInv, TypeOK
<1>3. /\ entries \in [Session -> SUBSET Entry] /\ data \in [Session -> [Ptr -> Object]]
      /\ master \in [Session -> SUBSET Ptr] /\ asked \in [Session -> SUBSET (Id \union {Zero})]
  BY DEF TypeInv, TypeOK
<1>4. ASSUME NEW n \in Name \union {NULL},
             data' = [data EXCEPT ![s][p] = [@ EXCEPT !.val = s, !.name = n]]
      PROVE  data' \in [Session -> [Ptr -> Object]]
  <2>1. data[s][p] \in Object BY <1>3
  <2>2. [data[s][p] EXCEPT !.val = s, !.name = n] \in Object BY <2>1 DEF Object
  <2> QED BY <1>3, <1>4, <2>2
<1>5. ASSUME NEW n \in Name \union {NULL}, Change(s, p, n) PROVE TypeInv'
  <2>1. data' \in [Session -> [Ptr -> Object]] BY <1>4, <1>5 DEF Change
  <2> QED BY <1>2, <1>3, <1>5, <2>1, DirtyTypes DEF Change
<1>6. ASSUME NEW q \in Ptr, Link(s, p, q) PROVE TypeInv'
  <2>1. data' \in [Session -> [Ptr -> Object]]
    <3>1. data[s][p] \in Object BY <1>3
    <3>2. [data[s][p] EXCEPT !.val = s, !.ref = q] \in Object BY <3>1 DEF Object
    <3> QED BY <1>3, <1>6, <3>2 DEF Link
  <2> QED BY <1>2, <1>3, <1>6, <2>1, DirtyTypes DEF Link
<1>7. CASE Delete(s, p)
  <2>1. entries[s] \in SUBSET Entry BY <1>3
  <2>2. PICK e \in Lookup(s, p) :
          IF e = NULL THEN UNCHANGED <<entries, asked>>
          ELSE /\ entries' = [entries EXCEPT ![s] = Replace(s, e, [e EXCEPT !.state = "REMOVED"])]
               /\ asked' = [asked EXCEPT ![s] = @ \union {e.key}]
    BY <1>7 DEF Delete
  <2>3. CASE e = NULL BY <1>2, <1>3, <1>7, <2>2, <2>3 DEF Delete
  <2>4. CASE e # NULL
    <3>1. e \in Entry BY <2>1, <2>4, LookupFacts
    <3>2. PICK f : f = [e EXCEPT !.state = "REMOVED"] OBVIOUS
    <3>3. f \in Entry BY <3>1, <3>2, Marked
    <3>4. entries' = [entries EXCEPT ![s] = Replace(s, e, f)] BY <2>2, <2>4, <3>2
    <3>5. entries' \in [Session -> SUBSET Entry] BY <1>3, <3>3, <3>4 DEF Replace
    <3>6. asked' \in [Session -> SUBSET (Id \union {Zero})]
      BY <1>3, <2>2, <2>4, <3>1, EntryFields
    <3> QED BY <1>2, <1>3, <1>7, <3>5, <3>6 DEF Delete
  <2> QED BY <2>3, <2>4
<1>8. CASE Unlink(s, p)
  <2>1. master' = [master EXCEPT ![s] = @ \ {p}] BY <1>8 DEF Unlink
  <2>2. master' \in [Session -> SUBSET Ptr] BY <1>3, <2>1
  <2> QED BY <1>2, <1>3, <1>8, <2>2 DEF Unlink
<1>9. ASSUME NEW n \in Name \union {NULL}, Create(s, p, n) PROVE TypeInv'
  <2>1. master' = [master EXCEPT ![s] = @ \union {p}] \/ master' = master
    BY <1>9 DEF Create
  <2>2. master' \in [Session -> SUBSET Ptr] BY <1>3, <2>1
  <2>3. data' \in [Session -> [Ptr -> Object]] BY <1>4, <1>9 DEF Create
  <2> QED BY <1>2, <1>3, <1>9, <2>2, <2>3 DEF Create
<1> QED BY <1>5, <1>6, <1>7, <1>8, <1>9

\* The traversal before the commit.
LEMMA CommitTypes ==
  ASSUME TypeInv, NEW s \in Session, Commit(s) PROVE TypeInv'
<1>1. entries[s] \in SUBSET Entry BY DEF TypeInv, TypeOK
<1>2. PICK found \in SUBSET {e \in entries[s] : e.ptr \in Reachable(s)} :
         entries' = [entries EXCEPT ![s] =
                (@ \ found)
                \union {[e EXCEPT !.reached = TRUE, !.typed = TRUE] : e \in found}
                \union {Unregistered(p, TRUE, 1) : p \in Reachable(s) \ {e.ptr : e \in found}}]
  BY DEF Commit
<1>3. ASSUME NEW e \in found PROVE [e EXCEPT !.reached = TRUE, !.typed = TRUE] \in Entry
  BY <1>1 DEF Entry
<1>4. ASSUME NEW p \in Reachable(s) PROVE Unregistered(p, TRUE, 1) \in Entry
  BY DEF Unregistered, Entry, Reachable
<1>5. {[e EXCEPT !.reached = TRUE, !.typed = TRUE] : e \in found} \subseteq Entry BY <1>3
<1>6. {Unregistered(p, TRUE, 1) : p \in Reachable(s) \ {e.ptr : e \in found}} \subseteq Entry
  BY <1>4
<1>7. entries' \in [Session -> SUBSET Entry] BY <1>1, <1>2, <1>5, <1>6 DEF TypeInv, TypeOK
<1>8. pc' = [pc EXCEPT ![s] = "persist"] /\ tx' = tx \union {Conn(s)}
  BY DEF Commit, Begin
<1>9. UNCHANGED <<setup, rows, writer, work, changes, at, unknown, master, data,
                  disordered, current, stopped, seen, asked, late>>
  BY DEF Commit, trace
<1> QED BY <1>7, <1>8, <1>9 DEF TypeInv, TypeOK

\* The row that is written for an object.
RowOf(s, e, f, ref) == [rev |-> f.rev, val |-> data[s][e.ptr].val,
                        name |-> data[s][e.ptr].name, ref |-> ref]

\* What INSERT OR REPLACE leaves.
LEMMA ReplaceFacts ==
  ASSUME TypeInv, NEW s \in Session, NEW key, NEW row \in Row
  PROVE  LET t == InsertOrReplace(s, key, row)
         IN  /\ t \in [Id -> Row \union {NULL}]
             /\ key \in Id => t[key] = row
             /\ \A i \in Id : i # key =>
                   \/ t[i] = View(s)[i]
                   \/ t[i] = NULL /\ View(s)[i] # NULL /\ SameName(key, row, i, View(s)[i])
<1>1. View(s) \in [Id -> Row \union {NULL}] BY ViewType
<1> QED BY <1>1 DEF InsertOrReplace, Namesakes

\* What an INSERT does to the tables and to pointermap: it is refused without
\* the reference; or there was none to be; or the object referred to gets an
\* entry; or it has one.
Inserted(s, e, f, t, more) ==
    LET p == data[s][e.ptr].ref
    IN  \/ p = NULL /\ LostReference(s, e.ptr) /\ t = View(s) /\ more = {}
        \/ /\ p = NULL /\ ~LostReference(s, e.ptr) /\ more = {}
           /\ t = InsertOrReplace(s, f.key, RowOf(s, e, f, NULL))
        \/ /\ p \in Ptr /\ NULL \in Lookup(s, p)
           /\ t = InsertOrReplace(s, f.key, RowOf(s, e, f, Zero))
           /\ \E v \in {0, 1} : more = {Unregistered(p, FALSE, v)}
        \/ /\ p \in Ptr /\ more = {}
           /\ \E g \in entries[s] : /\ g.ptr = p
                 /\ t = InsertOrReplace(s, f.key,
                                        RowOf(s, e, f, IF g = e THEN f.key ELSE g.key))

\* A new entry of an object that is referred to.
LEMMA UnregisteredFields ==
  ASSUME NEW p \in Ptr, NEW r \in BOOLEAN, NEW v \in {0, 1}
  PROVE  LET u == Unregistered(p, r, v)
         IN  /\ u \in Entry /\ u.ptr = p /\ u.key = Zero /\ u.rev = 0 /\ u.state = "NEW"
             /\ u.reached = r /\ u.typed = TRUE /\ u.filed = v
BY DEF Unregistered, Entry

\* Nothing else comes of it, and what does is of the right types.
LEMMA InsertFacts ==
  ASSUME TypeInv, NEW s \in Session, TypedInv(s), pc[s] \in Having,
         NEW e \in Entry, e.ptr \in Ptr, NEW f \in Entry, f.rev > 0, Insert(s, e, f)
  PROVE  \E t \in [Id -> Row \union {NULL}], n \in Nat, more \in SUBSET Entry :
            /\ Execute(s, t, n) /\ Inserted(s, e, f, t, more)
            /\ entries' = [entries EXCEPT ![s] = Replace(s, e, f) \union more]
<1>1. View(s) \in [Id -> Row \union {NULL}] BY ViewType
<1>2. PICK p : p = data[s][e.ptr].ref OBVIOUS
<1>3. /\ p \in Ptr \union {NULL} /\ data[s][e.ptr].val \in Session \union {NULL}
      /\ data[s][e.ptr].name \in Name \union {NULL}
  <2>1. data[s][e.ptr] \in Object BY DEF TypeInv, TypeOK
  <2> QED BY <1>2, <2>1 DEF TypedInv, Object
<1>4. changes[Conn(s)] \in Nat BY ViewType DEF TypeInv
<1>5. ASSUME NEW ref \in Id \union {NULL, Zero}
      PROVE  InsertOrReplace(s, f.key, RowOf(s, e, f, ref)) \in [Id -> Row \union {NULL}]
  <2>1. f.rev \in Nat \ {0} BY EntryFields
  <2>2. RowOf(s, e, f, ref) \in Row BY <1>3, <2>1 DEF RowOf, Row
  <2> QED BY <2>2, ReplaceFacts
<1>6. CASE p = NULL
  <2>1. entries' = [entries EXCEPT ![s] = Replace(s, e, f) \union {}]
    BY <1>2, <1>6 DEF Insert
  <2>2. CASE ~LostReference(s, e.ptr)
    <3>1. PICK t : t = InsertOrReplace(s, f.key, RowOf(s, e, f, NULL)) OBVIOUS
    <3>2. Execute(s, t, 1) BY <1>2, <1>6, <2>2, <3>1 DEF Insert, RowOf
    <3>3. Inserted(s, e, f, t, {}) BY <1>2, <1>6, <2>2, <3>1 DEF Inserted
    <3> QED BY <1>5, <2>1, <3>1, <3>2, <3>3
  <2>3. CASE LostReference(s, e.ptr)
    <3>1. Execute(s, View(s), changes[Conn(s)]) BY <1>2, <1>6, <2>3 DEF Insert, Refused
    <3>2. Inserted(s, e, f, View(s), {}) BY <1>2, <1>6, <2>3 DEF Inserted
    <3> QED BY <1>1, <1>4, <2>1, <3>1, <3>2
  <2> QED BY <2>2, <2>3
<1>7. CASE p # NULL
  <2>1. PICK g \in Lookup(s, p) :
          IF g = NULL
          THEN /\ Execute(s, InsertOrReplace(s, f.key, RowOf(s, e, f, Zero)), 1)
               /\ \E visit \in {0, 1} : entries' = [entries EXCEPT ![s] =
                     Replace(s, e, f) \union {Unregistered(p, FALSE, visit)}]
          ELSE /\ Execute(s, InsertOrReplace(s, f.key,
                              RowOf(s, e, f, IF g = e THEN f.key ELSE g.key)), 1)
               /\ entries' = [entries EXCEPT ![s] = Replace(s, e, f)]
    BY <1>2, <1>7 DEF Insert, RowOf
  <2>2. CASE g = NULL
    <3>1. PICK v \in {0, 1} : entries' = [entries EXCEPT ![s] =
                                Replace(s, e, f) \union {Unregistered(p, FALSE, v)}]
      BY <2>1, <2>2
    <3>2. Unregistered(p, FALSE, v) \in Entry BY <1>3, <1>7, UnregisteredFields
    <3>3. PICK t : t = InsertOrReplace(s, f.key, RowOf(s, e, f, Zero)) OBVIOUS
    <3>4. Execute(s, t, 1) BY <2>1, <2>2, <3>3
    <3>5. Inserted(s, e, f, t, {Unregistered(p, FALSE, v)})
      BY <1>2, <1>3, <1>7, <2>2, <3>3 DEF Inserted
    <3> QED BY <1>5, <3>1, <3>2, <3>3, <3>4, <3>5
  <2>3. CASE g # NULL
    <3>1. g \in entries[s] /\ g.ptr = p BY <2>3, LookupFacts
    <3>2. PICK ref : ref = IF g = e THEN f.key ELSE g.key OBVIOUS
    <3>3. ref \in Id \union {NULL, Zero}
      <4>1. g \in Entry BY <3>1 DEF TypeInv, TypeOK
      <4> QED BY <3>2, <4>1, EntryFields
    <3>4. PICK t : t = InsertOrReplace(s, f.key, RowOf(s, e, f, ref)) OBVIOUS
    <3>5. Execute(s, t, 1) BY <2>1, <2>3, <3>2, <3>4
    <3>6. Inserted(s, e, f, t, {}) BY <1>2, <1>3, <1>7, <3>1, <3>2, <3>4 DEF Inserted
    <3>7. entries' = [entries EXCEPT ![s] = Replace(s, e, f) \union {}] BY <2>1, <2>3
    <3> QED BY <1>5, <3>3, <3>4, <3>5, <3>6, <3>7
  <2> QED BY <2>2, <2>3
<1> QED BY <1>6, <1>7

\* Deleting by key and revision.
LEMMA DeleteFacts ==
  ASSUME TypeInv, NEW s \in Session, NEW e \in Entry, DeleteRow(s, e)
  PROVE  \E t \in [Id -> Row \union {NULL}], n \in Nat :
            /\ Execute(s, t, n)
            /\ t = IF Matches(s, e) THEN [View(s) EXCEPT ![e.key] = NULL] ELSE View(s)
<1>1. View(s) \in [Id -> Row \union {NULL}] BY ViewType
<1>2. CASE Matches(s, e)
  <2>1. [View(s) EXCEPT ![e.key] = NULL] \in [Id -> Row \union {NULL}] BY <1>1
  <2> QED BY <1>2, <2>1 DEF DeleteRow
<1>3. CASE ~Matches(s, e) BY <1>1, <1>3 DEF DeleteRow
<1> QED BY <1>2, <1>3

\* What a traversal visits.
LEMMA VisitFacts ==
  ASSUME TypeInv, NEW s \in Session, RemovedInv(s), NEW e \in ToVisit(s)
  PROVE  /\ e \in entries[s] /\ e \in Entry /\ e.filed > 0
         /\ e.ptr = NULL => e.state = "REMOVED"
         /\ Verdict(e) = "NEW" <=> e.state = "NEW"
         /\ Verdict(e) = "MODIFIED" => e.state = "MODIFIED"
BY DEF ToVisit, TypeInv, TypeOK, RemovedInv, Verdict

\* Visiting an entry.
LEMMA VisitTypes ==
  ASSUME TypeInv, NEW s \in Session, MemInv(s), NEW e \in ToVisit(s),
         PersistNew(s, e) \/ PersistModified(s, e) \/ PersistRemoved(s, e)
  PROVE  TypeInv'
<1>0. /\ RemovedInv(s) /\ TypedInv(s) /\ pc[s] = "persist"
      /\ UNCHANGED <<setup, at, unknown, master, data, seen, asked, late, stopped>>
  BY DEF MemInv, PersistNew, PersistModified, PersistRemoved, Persist, trace
<1>1. /\ e \in entries[s] /\ e \in Entry /\ e.filed > 0
      /\ e.ptr = NULL => e.state = "REMOVED"
      /\ Verdict(e) = "NEW" <=> e.state = "NEW"
  BY <1>0, VisitFacts
<1>2. CASE PersistNew(s, e)
  <2>1. PICK k \in Id : Insert(s, e, [Visited(e) EXCEPT !.key = k, !.rev = 1])
    BY <1>2 DEF PersistNew
  <2>2. PICK f : f = [Visited(e) EXCEPT !.key = k, !.rev = 1] OBVIOUS
  <2>3. f \in Entry /\ f.rev = 1 BY <1>1, <2>2, StoredNew
  <2>4. e.ptr \in Ptr BY <1>1, <1>2, EntryFields DEF PersistNew
  <2>5. Insert(s, e, f) /\ f.rev > 0 /\ pc[s] \in Having
    BY <1>0, <2>1, <2>2, <2>3 DEF Having, Writing
  <2>6. PICK t \in [Id -> Row \union {NULL}], n \in Nat, more \in SUBSET Entry :
            /\ Execute(s, t, n) /\ Inserted(s, e, f, t, more)
            /\ entries' = [entries EXCEPT ![s] = Replace(s, e, f) \union more]
    BY <1>0, <1>1, <2>3, <2>4, <2>5, InsertFacts
  <2>7. entries' \in [Session -> SUBSET Entry]
    BY <2>3, <2>6 DEF TypeInv, TypeOK, Replace
  <2>8. UNCHANGED <<pc, disordered, current, stopped>> BY <1>2 DEF PersistNew
  <2> QED BY <1>0, <2>6, <2>7, <2>8, ExecuteTypes DEF TypeInv, TypeOK
<1>3. CASE PersistModified(s, e)
  <2>1. PICK t \in [Id -> Row \union {NULL}], n \in Nat : Execute(s, t, n)
    BY <1>1, <1>3, DeleteFacts DEF PersistModified
  <2>2. /\ current' = [current EXCEPT ![s] = e] /\ pc' = [pc EXCEPT ![s] = "insert"]
        /\ UNCHANGED <<entries, disordered>>
    BY <1>3 DEF PersistModified
  <2> QED BY <1>0, <1>1, <2>1, <2>2, ExecuteTypes DEF TypeInv, TypeOK
<1>4. CASE PersistRemoved(s, e)
  <2>1. PICK t \in [Id -> Row \union {NULL}], n \in Nat : Execute(s, t, n)
    BY <1>1, <1>4, DeleteFacts DEF PersistRemoved
  <2>2. PICK f : f = [Visited(e) EXCEPT !.ptr = NULL, !.state = "REMOVED"] OBVIOUS
  <2>3. f \in Entry BY <1>1, <2>2, StoredRemoved
  <2>4. /\ entries' = [entries EXCEPT ![s] = Replace(s, e, f)]
        /\ disordered' = [disordered EXCEPT ![s] = TRUE]
        /\ pc' = [pc EXCEPT ![s] = "removed"] /\ current' = current
    BY <1>4, <2>2 DEF PersistRemoved
  <2>5. entries' \in [Session -> SUBSET Entry]
    BY <2>3, <2>4 DEF TypeInv, TypeOK, Replace
  <2> QED BY <1>0, <2>1, <2>4, <2>5, ExecuteTypes DEF TypeInv, TypeOK
<1> QED BY <1>2, <1>3, <1>4

\* The insert after the delete, the look at the number of rows, and the end.
LEMMA GoOnTypes ==
  ASSUME TypeInv, NEW s \in Session, MemInv(s),
         InsertModified(s) \/ CheckRemoved(s) \/ EndPersist(s)
  PROVE  TypeInv'
<1>1. CASE InsertModified(s)
  <2>1. PICK e : e = current[s] OBVIOUS
  <2>2. PICK f : f = [Visited(e) EXCEPT !.rev = NextRevision(e)] OBVIOUS
  <2>3. /\ Insert(s, e, f) /\ pc[s] = "insert"
        /\ current' = [current EXCEPT ![s] = NULL] /\ pc' = [pc EXCEPT ![s] = "persist"]
        /\ UNCHANGED <<setup, at, unknown, master, data, disordered, stopped, seen, asked,
                        late>>
    BY <1>1, <2>1, <2>2 DEF InsertModified, trace
  <2>4. /\ TypedInv(s) /\ e \in entries[s] /\ e.filed > 0 /\ e.ptr # NULL
    BY <2>1, <2>3 DEF MemInv, CurrentInv, Visiting
  <2>5. e \in Entry BY <2>4 DEF TypeInv, TypeOK
  <2>6. f \in Entry /\ f.rev > 0 /\ e.ptr \in Ptr
    <3>1. f \in Entry /\ f.rev = e.rev + 1 BY <2>2, <2>4, <2>5, StoredModified
    <3>2. e.rev \in Nat BY <2>5, EntryFields
    <3> QED BY <2>4, <2>5, <3>1, <3>2, EntryFields
  <2>7. pc[s] \in Having BY <2>3 DEF Having, Writing
  <2>8. PICK t \in [Id -> Row \union {NULL}], n \in Nat, more \in SUBSET Entry :
            /\ Execute(s, t, n) /\ Inserted(s, e, f, t, more)
            /\ entries' = [entries EXCEPT ![s] = Replace(s, e, f) \union more]
    BY <2>3, <2>4, <2>5, <2>6, <2>7, InsertFacts
  <2>9. entries' \in [Session -> SUBSET Entry]
    BY <2>6, <2>8 DEF TypeInv, TypeOK, Replace
  <2> QED BY <2>3, <2>8, <2>9, ExecuteTypes DEF TypeInv, TypeOK
<1>2. CASE CheckRemoved(s)
  <2>1. ASSUME NEW e \in entries[s] PROVE [e EXCEPT !.filed = 0] \in Entry
    <3>1. e \in Entry BY DEF TypeInv, TypeOK
    <3> QED BY <3>1 DEF Entry
  <2>2. {[e EXCEPT !.filed = 0] : e \in entries[s]} \in SUBSET Entry BY <2>1
  <2>3. /\ \/ UNCHANGED <<entries, stopped>>
           \/ /\ entries' = [entries EXCEPT ![s] = {[e EXCEPT !.filed = 0] : e \in entries[s]}]
              /\ stopped' = [stopped EXCEPT ![s] = TRUE]
        /\ pc' = [pc EXCEPT ![s] = "persist"]
        /\ UNCHANGED <<setup, rows, work, writer, tx, changes, at, unknown, master, data,
                       disordered, current, seen, asked, late>>
    BY <1>2 DEF CheckRemoved, AfterFailedRemoval, store, trace
  <2>4. entries' \in [Session -> SUBSET Entry]
    BY <2>2, <2>3 DEF TypeInv, TypeOK
  <2>5. stopped' \in [Session -> BOOLEAN] BY <2>3 DEF TypeInv
  <2>6. pc' \in [Session -> {"closed", "idle", "fetch", "have", "persist", "insert",
                            "removed", "commit"}]
    BY <2>3 DEF TypeInv, TypeOK
  <2> QED BY <2>3, <2>4, <2>5, <2>6 DEF TypeInv, TypeOK
<1>3. CASE EndPersist(s)
  <2>1. /\ pc' = [pc EXCEPT ![s] = "commit"]
        /\ UNCHANGED <<setup, rows, work, writer, tx, changes, at, entries, unknown, master,
                       data, disordered, current, stopped, seen, asked, late>>
    BY <1>3 DEF EndPersist, store, memory, trace
  <2> QED BY <2>1 DEF TypeInv, TypeOK
<1> QED BY <1>1, <1>2, <1>3

\* The end of a process.
LEMMA DeathTypes ==
  ASSUME TypeInv, NEW c, Die(c) PROVE TypeInv'
<1>1. Nothing \in [Ptr -> Object] BY DEF Nothing, Object
<1>2. [i \in Id |-> NULL] \in [Id -> Row \union {NULL}] OBVIOUS
<1>3. /\ setup' = setup /\ rows' = rows
      /\ work' \in [Id -> Row \union {NULL}]
      /\ writer' \in Connection \union {NULL} /\ (writer' # NULL => writer' \in tx')
      /\ changes' \in [Connection -> Nat]
  BY DEF Die, TypeInv, TypeOK
<1>4. /\ pc' \in [Session -> {"closed", "idle", "fetch", "have", "persist", "insert",
                                "removed", "commit"}]
      /\ at' \in [Session -> Nat \ {0}]
      /\ entries' \in [Session -> SUBSET Entry]
      /\ unknown' \in [Session -> SUBSET (Id \union {Zero})]
      /\ master' \in [Session -> SUBSET Ptr]
  BY DEF Die, TypeInv, TypeOK
<1>5. /\ data' \in [Session -> [Ptr -> Object]]
      /\ current' \in [Session -> Entry \union {NULL}]
      /\ disordered' \in [Session -> BOOLEAN] /\ stopped' \in [Session -> BOOLEAN]
      /\ seen' \in [Session -> [Id -> Row \union {NULL}]]
      /\ asked' \in [Session -> SUBSET (Id \union {Zero})]
      /\ late' \in [Session -> BOOLEAN]
  BY <1>1, <1>2 DEF Die, TypeInv, TypeOK
<1> QED BY <1>3, <1>4, <1>5 DEF TypeInv, TypeOK

\* Every step keeps the types.
LEMMA TypeNext ==
  ASSUME TypeInv, \A s \in Session : MemInv(s), [Next]_vars PROVE TypeInv'
<1>1. CASE UNCHANGED vars
  BY <1>1 DEF vars, store, memory, trace, TypeInv, TypeOK
<1>2. ASSUME NEW s \in Session, SessionStep(s) PROVE TypeInv'
  <2>1. CASE OpenSession(s) \/ CloseSession(s) \/ Fetch(s)
    <3>1. /\ Forget(s) /\ UNCHANGED <<setup, rows, writer, work, tx, changes>>
          /\ \E to \in {"closed", "idle", "fetch"} : pc' = [pc EXCEPT ![s] = to]
      BY <2>1 DEF OpenSession, CloseSession, Fetch, store
    <3> QED BY <3>1, ForgetTypes DEF TypeInv, TypeOK
  <2>2. CASE FetchObject(s) \/ Resolve(s) \/ Commit(s)
    BY <2>2, FetchTypes, ResolveTypes, CommitTypes
  <2>3. ASSUME NEW p \in Ptr,
               \/ \E n \in Name \union {NULL} : Change(s, p, n) \/ (p \in Fresh /\ Create(s, p, n))
               \/ Delete(s, p) \/ Unlink(s, p)
               \/ \E q \in Ptr : Link(s, p, q)
        PROVE  TypeInv'
    BY <2>3, ApplicationTypes
  <2>4. Held(s) \subseteq Ptr /\ Fresh \subseteq Ptr BY DEF Held, Ptr
  <2> QED BY <1>2, <2>1, <2>2, <2>3, <2>4 DEF SessionStep
<1>3. ASSUME NEW s \in Session, CommitStep(s) PROVE TypeInv'
  <2>1. CASE EndCommit(s)
    <3>1. /\ Forget(s) /\ pc' = [pc EXCEPT ![s] = "idle"]
          /\ UNCHANGED <<setup, work, changes>>
          /\ rows' = IF writer = Conn(s) THEN work ELSE rows
          /\ writer' = IF writer = Conn(s) THEN NULL ELSE writer
          /\ tx' = tx \ {Conn(s)}
      BY <2>1 DEF EndCommit, End
    <3>2. /\ rows' \in [Id -> Row \union {NULL}] /\ work' \in [Id -> Row \union {NULL}]
          /\ writer' \in Connection \union {NULL} /\ (writer' # NULL => writer' \in tx')
          /\ changes' \in [Connection -> Nat]
      BY <3>1 DEF TypeInv, TypeOK
    <3> QED BY <3>1, <3>2, ForgetTypes
  <2>2. CASE NoDefinition(s) BY <2>2, DeathTypes DEF NoDefinition
  <2> QED BY <1>3, <2>1, <2>2, VisitTypes, GoOnTypes DEF CommitStep
<1>4. ASSUME NEW c \in Connection, Crash(c) PROVE TypeInv' BY <1>4, DeathTypes DEF Crash
<1> QED BY <1>1, <1>2, <1>3, <1>4 DEF Next
-----------------------------------------------------------------------------
(* A step of one session leaves the memory of the others alone.            *)

Locals(t) == <<pc[t], at[t], entries[t], unknown[t], master[t], data[t], disordered[t],
               current[t], stopped[t], seen[t], asked[t], late[t]>>

\* What is not touched stays as it is.
LEMMA MemoryKept ==
  ASSUME NEW t, MemInv(t), setup' = setup, UNCHANGED Locals(t) PROVE MemInv(t)'
<1>1. /\ pc'[t] = pc[t] /\ at'[t] = at[t] /\ entries'[t] = entries[t]
      /\ unknown'[t] = unknown[t] /\ master'[t] = master[t] /\ data'[t] = data[t]
      /\ disordered'[t] = disordered[t] /\ current'[t] = current[t]
      /\ seen'[t] = seen[t] /\ asked'[t] = asked[t] /\ late'[t] = late[t]
  BY DEF Locals
<1>2. (Ordered' <=> Ordered) /\ late'[t] = late[t] /\ Fetched(t)' = Fetched(t) BY <1>1 DEF Ordered, Fetched
<1>3. Loaded(t)' = Loaded(t) BY <1>1 DEF Loaded
<1>4. SeenInv(t)' BY <1>1, <1>2 DEF MemInv, SeenInv
<1>5. FetchingInv(t)' BY <1>1 DEF MemInv, FetchingInv
<1>6. OriginInv(t)' BY <1>1, <1>2 DEF MemInv, OriginInv, IsRow
<1>7. EarlyInv(t)' BY <1>1 DEF MemInv, EarlyInv
<1>8. TypedInv(t)' BY <1>1 DEF MemInv, TypedInv
<1>9. RemovedInv(t)' BY <1>1, <1>2 DEF MemInv, RemovedInv
<1>10. CurrentInv(t)' BY <1>1 DEF MemInv, CurrentInv, Visiting, Verdict
<1>11. AwaitedInv(t)' BY <1>1, <1>2 DEF MemInv, AwaitedInv
<1>12. OnceInv(t)' BY <1>1, <1>2 DEF MemInv, OnceInv
<1>13. InOrderInv(t)' BY <1>1, <1>3 DEF MemInv, InOrderInv
<1>14. ReachedInv(t)' BY <1>1, <1>2 DEF MemInv, ReachedInv, Kept
<1>15. DoneInv(t)' BY <1>1 DEF MemInv, DoneInv, ToVisit, Verdict
<1> QED
  BY <1>4, <1>5, <1>6, <1>7, <1>8, <1>9, <1>10, <1>11, <1>12, <1>13, <1>14, <1>15
     DEF MemInv

\* Only the end of a process touches more than one session.
LEMMA OthersKept ==
  ASSUME TypeInv, NEW s \in Session, SessionStep(s) \/ (CommitStep(s) /\ ~NoDefinition(s)),
         NEW t \in Session, t # s
  PROVE  UNCHANGED Locals(t)
<1>1. /\ DOMAIN pc = Session /\ DOMAIN at = Session /\ DOMAIN entries = Session
      /\ DOMAIN unknown = Session /\ DOMAIN master = Session /\ DOMAIN data = Session
      /\ DOMAIN disordered = Session /\ DOMAIN current = Session /\ DOMAIN stopped = Session
      /\ DOMAIN seen = Session /\ DOMAIN asked = Session /\ DOMAIN late = Session
  BY DEF TypeInv, TypeOK
<1>2. CASE SessionStep(s)
  <2>1. CASE OpenSession(s) \/ CloseSession(s) \/ Fetch(s)
    BY <1>1, <2>1 DEF OpenSession, CloseSession, Fetch, Forget, Locals
  <2>2. CASE FetchObject(s) BY <1>1, <2>2 DEF FetchObject, Locals
  <2>3. CASE Resolve(s) \/ Commit(s) BY <1>1, <2>3 DEF Resolve, Commit, trace, Locals
  <2>4. ASSUME NEW p, (\E n : Change(s, p, n)) \/ \E q : Link(s, p, q) PROVE UNCHANGED Locals(t)
    BY <1>1, <2>4 DEF Change, Link, Dirty, Application, Locals
  <2>5. ASSUME NEW p, Delete(s, p) \/ Unlink(s, p) \/ \E n : Create(s, p, n) PROVE UNCHANGED Locals(t)
    BY <1>1, <2>5 DEF Delete, Unlink, Create, Application, Locals
  <2> QED BY <1>2, <2>1, <2>2, <2>3, <2>4, <2>5 DEF SessionStep
<1>3. CASE CommitStep(s) /\ ~NoDefinition(s)
  <2>1. ASSUME NEW e, NEW f, Insert(s, e, f) PROVE entries'[t] = entries[t]
    BY <1>1, <2>1 DEF Insert
  <2>2. ASSUME NEW e, PersistNew(s, e) PROVE UNCHANGED Locals(t)
    <3>1. entries'[t] = entries[t] BY <2>1, <2>2 DEF PersistNew
    <3> QED BY <2>2, <3>1 DEF PersistNew, Persist, trace, Locals
  <2>3. ASSUME NEW e, PersistModified(s, e) \/ PersistRemoved(s, e) PROVE UNCHANGED Locals(t)
    BY <1>1, <2>3 DEF PersistModified, PersistRemoved, Persist, trace, Locals
  <2>4. CASE InsertModified(s)
    <3>1. entries'[t] = entries[t] BY <2>1, <2>4 DEF InsertModified
    <3> QED BY <1>1, <2>4, <3>1 DEF InsertModified, trace, Locals
  <2>5. CASE CheckRemoved(s) BY <1>1, <2>5 DEF CheckRemoved, trace, Locals
  <2>6. CASE EndPersist(s) BY <1>1, <2>6 DEF EndPersist, memory, trace, Locals
  <2>7. CASE EndCommit(s) BY <1>1, <2>7 DEF EndCommit, Forget, Locals
  <2> QED BY <1>3, <2>2, <2>3, <2>4, <2>5, <2>6, <2>7 DEF CommitStep
<1> QED BY <1>2, <1>3

\* A session that has forgotten has nothing that could be wrong.
LEMMA NothingInMemory ==
  ASSUME NEW t, pc'[t] \in {"closed", "idle", "fetch"},
         entries'[t] = {}, unknown'[t] = {}, master'[t] = {}, data'[t] = Nothing,
         ~disordered'[t], ~late'[t], \A i \in Id : seen'[t][i] = NULL
  PROVE  MemInv(t)'
<1>1. /\ pc'[t] \notin Having /\ pc'[t] \notin Writing /\ pc'[t] # "insert"
      /\ \A i \in Id : seen'[t][i] = NULL
      /\ \A p \in Ptr : data'[t][p].val = NULL /\ data'[t][p].ref = NULL
  BY DEF Having, Writing, Nothing
<1>2. /\ SeenInv(t)' /\ FetchingInv(t)' /\ OriginInv(t)' /\ EarlyInv(t)' /\ RemovedInv(t)'
      /\ CurrentInv(t)' /\ AwaitedInv(t)'
  BY <1>1 DEF SeenInv, FetchingInv, OriginInv, EarlyInv, RemovedInv, CurrentInv, AwaitedInv
<1>3. OnceInv(t)' /\ ReachedInv(t)' /\ DoneInv(t)' BY <1>1 DEF OnceInv, ReachedInv, DoneInv
<1>4. InOrderInv(t)' BY <1>1 DEF InOrderInv, Ptr
<1>5. TypedInv(t)'
  BY <1>1, DbAssumption DEF TypedInv, Ptr
<1> QED BY <1>2, <1>3, <1>4, <1>5 DEF MemInv

\* Sessions open, close and begin to fetch with nothing, and end so.
LEMMA ForgetMem ==
  ASSUME TypeInv, NEW s \in Session, Forget(s),
         NEW to \in {"closed", "idle", "fetch"}, pc' = [pc EXCEPT ![s] = to]
  PROVE  MemInv(s)'
<1>1. /\ entries'[s] = {} /\ unknown'[s] = {} /\ master'[s] = {} /\ data'[s] = Nothing
      /\ ~disordered'[s] /\ ~late'[s] /\ pc'[s] = to
      /\ \A i \in Id : seen'[s][i] = NULL
  BY DEF Forget, TypeInv, TypeOK
<1> QED BY <1>1, NothingInMemory

\* The end of a process.
LEMMA DeathMem ==
  ASSUME TypeInv, NEW c, Die(c), NEW t \in Session, MemInv(t) PROVE MemInv(t)'
<1>1. CASE setup.conn[t] = c
  <2>1. /\ entries'[t] = {} /\ unknown'[t] = {} /\ master'[t] = {} /\ data'[t] = Nothing
        /\ ~disordered'[t] /\ ~late'[t] /\ pc'[t] = "closed"
        /\ \A i \in Id : seen'[t][i] = NULL
    BY <1>1 DEF Die
  <2> QED BY <2>1, NothingInMemory
<1>2. CASE setup.conn[t] # c
  <2>1. setup' = setup BY DEF Die
  <2>2. UNCHANGED Locals(t) BY <1>2 DEF Die, Locals
  <2> QED BY <2>1, <2>2, MemoryKept
<1> QED BY <1>1, <1>2
-----------------------------------------------------------------------------
(* Fetching.                                                               *)

\* Of a plan that names no definition twice, the next one was not fetched yet.
LEMMA NextDefinition ==
  ASSUME TypeInv, NEW s \in Session, at[s] <= Len(setup.order)
  PROVE  /\ setup.order[at[s]] \notin Fetched(s)
         /\ at'[s] = at[s] + 1 /\ setup' = setup
            => Fetched(s)' = Fetched(s) \union {setup.order[at[s]]}
         /\ Ordered => \A t \in Fetched(s) : Column(t) # setup.order[at[s]]
<1>1. at[s] \in Nat \ {0} BY DEF TypeInv
<1>2. setup.order \in Seq(Type) BY DEF TypeInv, Setup
<1>3. Len(setup.order) \in Nat BY <1>2
<1>4. \A i, j \in 1..Len(setup.order) : setup.order[i] = setup.order[j] => i = j
  BY DEF TypeInv, Setup
<1>5. setup.order[at[s]] \notin Fetched(s)
  BY <1>1, <1>3, <1>4 DEF Fetched
<1>6. ASSUME at'[s] = at[s] + 1, setup' = setup
      PROVE  Fetched(s)' = Fetched(s) \union {setup.order[at[s]]}
  <2>1. {k \in 1..Len(setup.order) : k < at[s] + 1}
           = {k \in 1..Len(setup.order) : k < at[s]} \union {at[s]}
    BY <1>1, <1>3
  <2> QED BY <1>6, <2>1 DEF Fetched
<1>7. Ordered => \A t \in Fetched(s) : Column(t) # setup.order[at[s]]
  BY <1>1, <1>3 DEF Fetched, Ordered
<1> QED BY <1>5, <1>6, <1>7

\* One SELECT.
LEMMA FetchMem ==
  ASSUME TypeInv, TablesInv, NEW s \in Session, MemInv(s), FetchObject(s) PROVE MemInv(s)'
<1> DEFINE d == setup.order[at[s]]
<1>1. PICK new : new = Selected(s) OBVIOUS
<1>2. PICK view : view = View(s) OBVIOUS
<1>3. /\ view \in [Id -> Row \union {NULL}]
      /\ \A i \in Id : view[i] = NULL \/ RefTyped(i, view[i])
  BY <1>2, ViewType DEF View, TablesInv
<1>4. new = {i \in Id : TypeOf[i] = d /\ view[i] # NULL} BY <1>1, <1>2 DEF Selected
<1>5. /\ pc[s] = "fetch" /\ pc'[s] = "fetch" /\ setup' = setup
      /\ at'[s] = at[s] + 1 /\ asked' = asked /\ at[s] <= Len(setup.order)
      /\ \A i \in Id : seen'[s][i] = IF i \in new THEN view[i] ELSE seen[s][i]
  BY <1>1, <1>2 DEF FetchObject, TypeInv
<1>6. /\ unknown'[s] = (unknown[s] \ new) \union
                       ({view[i].ref : i \in new} \ ({NULL} \union Loaded(s) \union new))
      /\ master'[s] = master[s] \union new
  <2>1. unknown'[s] = Await(s) /\ master'[s] = Arrays(s)
    BY DEF FetchObject, TypeInv, TypeOK
  <2> QED BY <1>1, <1>2, <2>1 DEF Await, Arrays, Targets
<1>7. \A p \in Ptr : data'[s][p] = IF p \in new THEN Fields(s, p) ELSE data[s][p]
  BY <1>1, <1>2 DEF FetchObject, TypeInv, TypeOK
<1>8. PICK early : early = new \intersect unknown[s] OBVIOUS
<1>9. /\ disordered'[s] = (disordered[s] \/ early # {})
      /\ late'[s] = (late[s] \/ early # {})
  BY <1>1, <1>8 DEF FetchObject, TypeInv
<1>10. PICK twice \in SUBSET early :
          entries'[s] = entries[s] \union
             {GetObject(s, i, IF i \in twice THEN 2 ELSE 1) : i \in new}
  BY <1>1, <1>8 DEF FetchObject, TypeInv, TypeOK
<1>11. \A e \in entries'[s] :
         \/ e \in entries[s]
         \/ \E i \in new : /\ e = GetObject(s, i, IF i \in twice THEN 2 ELSE 1)
                           /\ e.ptr = i /\ e.key = i /\ e.rev = view[i].rev /\ e.state = "CLEAN"
                           /\ ~e.reached /\ e.typed /\ e.filed = IF i \in twice THEN 2 ELSE 1
  BY <1>2, <1>10 DEF GetObject
<1>12. /\ d \notin Fetched(s) /\ Fetched(s)' = Fetched(s) \union {d}
       /\ Ordered => \A t \in Fetched(s) : Column(t) # d
  BY <1>5, NextDefinition
<1>13. Ordered' <=> Ordered BY <1>5 DEF Ordered
<1>14. \A i \in new : seen[s][i] = NULL /\ i \in Id /\ TypeOf[i] = d /\ view[i] \in Row
  BY <1>3, <1>4, <1>12 DEF MemInv, SeenInv
<1>15. Ordered => early = {}
  BY <1>8, <1>12, <1>14, DbAssumption DEF MemInv, AwaitedInv, Ptr
<1>16. \A e \in entries[s] : /\ e.ptr = e.key /\ e.key \in Id /\ seen[s][e.key] # NULL
                             /\ e.key \notin new /\ e \in Entry
  BY <1>5, <1>14 DEF MemInv, FetchingInv, TypeInv, TypeOK
<1>17. \A i \in new : view[i].ref \in Ptr => TypeOf[view[i].ref] = Column(d)
  <2>1. \A i \in new : RefTyped(i, view[i]) BY <1>3, <1>14, RowFields
  <2> QED BY <1>14, <2>1, DbAssumption DEF RefTyped, Ptr
<1> HIDE DEF d
<1>20. SeenInv(s)' BY <1>5, <1>12, <1>14 DEF MemInv, SeenInv
<1>21. FetchingInv(s)' BY <1>5, <1>11, <1>14, <1>16, RowFields DEF FetchingInv
<1>22. OriginInv(s)'
  <2>1. ASSUME NEW e \in entries[s] PROVE IsNew(e) \/ IsKeyless(e) \/ IsRow(s, e)'
    BY <1>5, <1>9, <1>16, <2>1 DEF MemInv, OriginInv, IsRow
  <2>2. ASSUME NEW e, NEW i \in new, e = GetObject(s, i, IF i \in twice THEN 2 ELSE 1),
               e.ptr = i, e.key = i, e.rev = view[i].rev, e.state = "CLEAN",
               e.filed = IF i \in twice THEN 2 ELSE 1
        PROVE  IsRow(s, e)'
    <3>1. seen'[s][i] = view[i] /\ i \in Id /\ view[i] \in Row BY <1>5, <1>14
    <3>2. view[i] # NULL /\ view[i].rev \in Nat BY <3>1, RowFields
    <3>3. ~late'[s] => e.filed = 1 BY <1>9, <2>2
    <3> QED BY <2>2, <3>1, <3>2, <3>3 DEF IsRow
  <2> QED BY <1>11, <2>1, <2>2 DEF OriginInv
<1>23. EarlyInv(s)'
  <2>1. pc[s] \notin Writing BY <1>5 DEF Writing
  <2>2. \A e \in entries[s] : /\ ~e.reached /\ e.filed > 0
                              /\ e.state = "NEW" => e.key \in Keyless /\ e.rev = 0
    BY <2>1 DEF MemInv, EarlyInv
  <2>3. \A e \in entries'[s] : /\ ~e.reached /\ e.filed > 0
                               /\ e.state = "NEW" => e.key \in Keyless /\ e.rev = 0
    BY <1>11, <2>2
  <2> QED BY <2>3 DEF EarlyInv
<1>24. TypedInv(s)'
  <2>1. \A e \in entries'[s] : e.ptr # NULL /\ e.key \in Id => TypeOf[e.key] = TypeOf[e.ptr]
    BY <1>11 DEF MemInv, TypedInv
  <2>2. ASSUME NEW p \in Ptr, data'[s][p].ref \in Ptr
        PROVE  TypeOf[data'[s][p].ref] = RefType[TypeOf[p]]
    <3>1. CASE p \in new
      <4>1. data'[s][p] = Fields(s, p) /\ TypeOf[p] = d BY <1>7, <1>14, <2>2, <3>1
      <4>2. data'[s][p].ref = IF RefType[d] = NULL THEN NULL ELSE view[p].ref
        BY <1>2, <1>14, <3>1, <4>1, FieldsOfRow
      <4>3. RefType[d] # NULL /\ data'[s][p].ref = view[p].ref
        BY <2>2, <4>2, DbAssumption
      <4> QED BY <1>17, <2>2, <3>1, <4>1, <4>3 DEF Column
    <3>2. CASE p \notin new BY <1>7, <2>2, <3>2 DEF MemInv, TypedInv
    <3> QED BY <3>1, <3>2
  <2>3. pc'[s] \notin Having BY <1>5 DEF Having, Writing
  <2> QED BY <2>1, <2>2, <2>3 DEF TypedInv
<1>25. RemovedInv(s)'
  <2>1. NULL \notin Id BY DbAssumption DEF Ptr
  <2> QED BY <1>5, <1>9, <1>11, <1>14, <2>1 DEF MemInv, RemovedInv
<1>26. CurrentInv(s)' /\ DoneInv(s)' BY <1>5 DEF CurrentInv, DoneInv
<1>27. AwaitedInv(s)'
  <2>1. ASSUME NEW i \in unknown'[s] \ {Zero}, i \notin unknown[s]
        PROVE  Column(d) = TypeOf[i]
    <3>1. PICK j \in new : i = view[j].ref /\ i # NULL BY <1>6, <2>1
    <3>2. i \in Ptr BY <1>14, <2>1, <3>1, RowFields DEF Ptr
    <3> QED BY <1>17, <3>1, <3>2
  <2> QED BY <1>9, <1>12, <1>13, <1>15, <2>1 DEF MemInv, AwaitedInv
<1>28. OnceInv(s)'
  <2>1. ~late'[s] => ~disordered'[s] BY <1>5, <1>9 DEF MemInv, OnceInv
  <2>2. ASSUME ~late'[s], NEW e \in entries'[s], NEW f \in entries'[s], e.key = f.key,
               e.state # "NEW", f.state # "NEW", e.key \notin Keyless
        PROVE  e = f
    <3>1. CASE e \in entries[s] /\ f \in entries[s] BY <1>9, <2>2, <3>1 DEF MemInv, OnceInv
    <3>2. CASE e \notin entries[s] \/ f \notin entries[s] BY <1>11, <1>16, <2>2, <3>2
    <3> QED BY <3>1, <3>2
  <2> QED BY <2>1, <2>2 DEF OnceInv
<1>29. InOrderInv(s)'
  <2>1. ASSUME ~disordered'[s] PROVE ~disordered[s] /\ early = {} BY <1>9, <2>1
  <2>2. ASSUME ~disordered'[s], NEW e \in entries'[s], NEW f \in entries'[s], e.ptr = f.ptr
        PROVE  e = f
    <3>1. CASE e \in entries[s] /\ f \in entries[s] BY <2>1, <2>2, <3>1 DEF MemInv, InOrderInv
    <3>2. CASE e \notin entries[s] \/ f \notin entries[s] BY <1>11, <1>16, <2>2, <3>2
    <3> QED BY <3>1, <3>2
  <2>3. ASSUME ~disordered'[s], NEW e \in entries'[s], e.state = "NEW" PROVE e.ptr \in Fresh
    BY <1>11, <2>1, <2>3 DEF MemInv, InOrderInv
  <2>4. ASSUME NEW i \in new PROVE i \in Loaded(s)'
    <3>1. GetObject(s, i, IF i \in twice THEN 2 ELSE 1) \in entries'[s] BY <1>10
    <3>2. i # NULL BY <1>14, DbAssumption DEF Ptr
    <3> QED BY <3>1, <3>2 DEF Loaded, GetObject
  <2>5. Loaded(s) \subseteq Loaded(s)' BY <1>10 DEF Loaded
  <2>6. ASSUME ~disordered'[s], NEW i \in Id, i \in master'[s] \/ data'[s][i].val # NULL
        PROVE  i \in Loaded(s)'
    <3>1. i \in new \/ i \in master[s] \/ data[s][i].val # NULL BY <1>6, <1>7, <2>6 DEF Ptr
    <3> QED BY <2>1, <2>4, <2>5, <2>6, <3>1 DEF MemInv, InOrderInv
  <2>7. pc'[s] \notin Having BY <1>5 DEF Having, Writing
  <2> QED BY <2>2, <2>3, <2>6, <2>7 DEF InOrderInv
<1>30. ReachedInv(s)'
  <2>1. pc'[s] \notin Writing BY <1>5 DEF Writing
  <2>2. \A e \in entries'[s] : ~e.reached BY <1>23, <2>1 DEF EarlyInv
  <2> QED BY <2>1, <2>2 DEF ReachedInv
<1> QED
  BY <1>20, <1>21, <1>22, <1>23, <1>24, <1>25, <1>26, <1>27, <1>28, <1>29, <1>30 DEF MemInv

\* References that came to nothing are NULL.
LEMMA ResolveMem ==
  ASSUME TypeInv, NEW s \in Session, MemInv(s), Resolve(s) PROVE MemInv(s)'
<1>1. /\ pc[s] = "fetch" /\ pc'[s] = "have" /\ setup' = setup
      /\ at' = at /\ entries' = entries /\ unknown' = unknown /\ master' = master
      /\ disordered' = disordered /\ current' = current /\ seen' = seen /\ asked' = asked
      /\ late' = late
  BY DEF Resolve, trace, TypeInv, TypeOK
<1>2. ASSUME NEW p \in Ptr
      PROVE  /\ data'[s][p].val = data[s][p].val
             /\ data'[s][p].ref = IF data[s][p].ref \in Loaded(s) THEN data[s][p].ref ELSE NULL
  <2>1. data'[s] = Patched(s) BY DEF Resolve, TypeInv, TypeOK
  <2>2. data[s][p] \in Object BY DEF TypeInv, TypeOK
  <2> QED BY <2>1, <2>2 DEF Patched, Object
<1>3. Loaded(s) \subseteq Ptr BY EntryFields DEF Loaded, TypeInv, TypeOK
<1>4. (Ordered' <=> Ordered) /\ late'[s] = late[s] /\ Fetched(s)' = Fetched(s)
      /\ Loaded(s)' = Loaded(s)
  BY <1>1 DEF Ordered, Fetched, Loaded
<1>5. pc[s] \notin Writing /\ pc'[s] \notin Writing /\ pc'[s] # "fetch" /\ pc'[s] # "insert"
  BY <1>1 DEF Writing
<1>6. SeenInv(s)' /\ FetchingInv(s)' /\ EarlyInv(s)' /\ RemovedInv(s)' /\ CurrentInv(s)'
      /\ DoneInv(s)'
  BY <1>1, <1>4, <1>5 DEF MemInv, SeenInv, FetchingInv, EarlyInv, RemovedInv, CurrentInv, DoneInv
<1>7. OriginInv(s)' BY <1>1, <1>4 DEF MemInv, OriginInv, IsRow
<1>8. TypedInv(s)'
  <2>1. NULL \notin Ptr /\ Zero \notin Ptr /\ NULL # Zero BY DbAssumption
  <2>2. \A p \in Ptr : data'[s][p].ref \in Ptr => TypeOf[data'[s][p].ref] = RefType[TypeOf[p]]
    BY <1>2, <2>1 DEF MemInv, TypedInv
  <2>3. \A p \in Ptr : data'[s][p].ref # Zero BY <1>2, <1>3, <2>1
  <2> QED BY <1>1, <2>2, <2>3 DEF MemInv, TypedInv
<1>9. AwaitedInv(s)' /\ OnceInv(s)' BY <1>1, <1>4 DEF MemInv, AwaitedInv, OnceInv
<1>10. InOrderInv(s)'
  <2>1. NULL \notin Ptr BY DbAssumption
  <2>2. \A i \in Id : \A p \in Ptr : data'[s][p].ref = i => i \in Loaded(s)
    BY <1>2, <2>1 DEF Ptr
  <2>3. \A i \in Id : data'[s][i].val = data[s][i].val BY <1>2 DEF Ptr
  <2> QED BY <1>1, <1>4, <2>2, <2>3 DEF MemInv, InOrderInv
<1>11. ReachedInv(s)' BY <1>1, <1>5 DEF MemInv, ReachedInv
<1> QED BY <1>6, <1>7, <1>8, <1>9, <1>10, <1>11 DEF MemInv
-----------------------------------------------------------------------------
(* What the application does.                                              *)

\* A marked entry, and the entry of an object that had none.
NewEntry(p) == [ptr |-> p, key |-> MinusOne[TypeOf[p]], rev |-> 0, state |-> "NEW",
                reached |-> FALSE, typed |-> FALSE, filed |-> 1]
MarkedIn(s, p) ==
    \/ entries'[s] = entries[s]
    \/ /\ p \in Held(s) /\ (~disordered[s] => \A g \in entries[s] : g.ptr # p)
       /\ entries'[s] = entries[s] \union {NewEntry(p)}
    \/ \E e \in entries[s], st \in {"MODIFIED", "REMOVED"} :
          /\ e.ptr = p /\ (st = "REMOVED" => e.key \in asked'[s])
          /\ entries'[s] = (entries[s] \ {e}) \union {[e EXCEPT !.state = st]}

\* The entries and the objects after a change by the application: each is one
\* that was there and as it was, but for its state, or that of a fresh object.
LEMMA ApplicationMem ==
  ASSUME TypeInv, NEW s \in Session, MemInv(s), pc[s] = "have", pc'[s] = "have",
         setup' = setup, at'[s] = at[s], unknown'[s] = unknown[s],
         disordered'[s] = disordered[s], seen'[s] = seen[s], late'[s] = late[s],
         asked[s] \subseteq asked'[s],
         NEW p \in Ptr, MarkedIn(s, p),
         \A q \in Ptr : /\ data'[s][q].ref \in Ptr
                           => TypeOf[data'[s][q].ref] = RefType[TypeOf[q]]
                        /\ data'[s][q].ref # Zero,
         \A i \in Id : \/ i \in master'[s] \/ data'[s][i].val # NULL
                       \/ \E q \in Ptr : data'[s][q].ref = i
                       => i \in Held(s)
  PROVE  MemInv(s)'
<1>1. /\ pc[s] \notin Writing /\ pc'[s] \notin Writing /\ pc'[s] # "fetch"
      /\ pc'[s] # "insert" /\ pc[s] \in Having
  BY DEF Writing, Having
<1>2. (Ordered' <=> Ordered) /\ late'[s] = late[s] /\ Fetched(s)' = Fetched(s)
  BY DEF Ordered, Fetched
<1>3. \A e \in entries[s] : e \in Entry /\ e # NULL
  BY EntryFields DEF TypeInv, TypeOK
<1>4. \A e \in entries[s] : /\ ~e.reached /\ e.filed > 0
                            /\ e.state = "NEW" => e.key \in Keyless /\ e.rev = 0
  BY <1>1 DEF MemInv, EarlyInv
<1>5. Keyless \subseteq Id BY DbAssumption DEF Keyless
<1>6. PICK n : n = NewEntry(p) OBVIOUS
<1>7. /\ n.ptr = p /\ n.key \in Keyless /\ n.rev = 0 /\ n.state = "NEW" /\ ~n.reached
      /\ n.filed = 1 /\ TypeOf[n.key] = TypeOf[p]
  BY <1>6, DbAssumption DEF NewEntry, Keyless
<1>8. \A i \in Id : i \in Held(s) => disordered[s] \/ i \in Loaded(s)
  BY <1>1 DEF Held, MemInv, InOrderInv, Ptr
<1>9. \A e \in entries'[s] :
         \/ e \in entries[s]
         \/ /\ e = n /\ p \in Held(s)
            /\ ~disordered[s] => \A g \in entries[s] : g.ptr # p
         \/ \E f \in entries[s] :
               /\ f \notin entries'[s] \ {e}
               /\ e.state \in {"MODIFIED", "REMOVED"}
               /\ e.state = "REMOVED" => e.key \in asked'[s]
               /\ e.ptr = f.ptr /\ e.key = f.key /\ e.rev = f.rev /\ e.reached = f.reached
               /\ e.filed = f.filed /\ e.ptr = p
  <2>1. CASE entries'[s] = entries[s] BY <2>1
  <2>2. CASE /\ p \in Held(s) /\ (~disordered[s] => \A g \in entries[s] : g.ptr # p)
             /\ entries'[s] = entries[s] \union {NewEntry(p)}
    BY <1>6, <2>2
  <2>3. ASSUME NEW f \in entries[s], NEW st \in {"MODIFIED", "REMOVED"},
               f.ptr = p, st = "REMOVED" => f.key \in asked'[s],
               entries'[s] = (entries[s] \ {f}) \union {[f EXCEPT !.state = st]},
               NEW e \in entries'[s], e \notin entries[s]
        PROVE  /\ f \notin entries'[s] \ {e}
               /\ e.state \in {"MODIFIED", "REMOVED"}
               /\ e.state = "REMOVED" => e.key \in asked'[s]
               /\ e.ptr = f.ptr /\ e.key = f.key /\ e.rev = f.rev /\ e.reached = f.reached
               /\ e.filed = f.filed /\ e.ptr = p
    <3>1. e = [f EXCEPT !.state = st] BY <2>3
    <3>2. e.state = st /\ e.ptr = f.ptr /\ e.key = f.key /\ e.rev = f.rev
          /\ e.reached = f.reached /\ e.filed = f.filed
      BY <1>3, <3>1, Marked
    <3> QED BY <2>3, <3>1, <3>2
  <2> QED BY <2>1, <2>2, <2>3 DEF MarkedIn
<1>10. Loaded(s) \subseteq Loaded(s)'
  <2>1. CASE entries'[s] = entries[s] \/ entries'[s] = entries[s] \union {NewEntry(p)}
    BY <2>1 DEF Loaded
  <2>2. ASSUME NEW f \in entries[s], NEW st \in {"MODIFIED", "REMOVED"},
               entries'[s] = (entries[s] \ {f}) \union {[f EXCEPT !.state = st]}
        PROVE  Loaded(s) \subseteq Loaded(s)'
    <3>1. PICK e : e = [f EXCEPT !.state = st] OBVIOUS
    <3>2. e.ptr = f.ptr BY <1>3, <3>1, Marked
    <3>3. entries'[s] = (entries[s] \ {f}) \union {e} BY <2>2, <3>1
    <3> QED BY <3>2, <3>3 DEF Loaded
  <2> QED BY <2>1, <2>2 DEF MarkedIn
<1>11. \A e, f \in entries'[s] : e \notin entries[s] /\ f \notin entries[s] => e = f
  BY DEF MarkedIn
<1>12. \A e \in entries'[s] : e = n => p \in Loaded(s)'
  BY <1>7, DbAssumption DEF Loaded
<1>20. SeenInv(s)' /\ FetchingInv(s)' /\ CurrentInv(s)' /\ AwaitedInv(s)' /\ DoneInv(s)'
  BY <1>1, <1>2 DEF MemInv, SeenInv, FetchingInv, CurrentInv, AwaitedInv, DoneInv
<1>21. OriginInv(s)'
  <2>1. ASSUME NEW e \in entries[s] PROVE IsNew(e) \/ IsKeyless(e) \/ IsRow(s, e)'
    BY <1>2, <2>1 DEF MemInv, OriginInv, IsRow
  <2>2. IsNew(n) BY <1>7 DEF IsNew
  <2>3. ASSUME NEW e, NEW f \in entries[s], e.state \in {"MODIFIED", "REMOVED"},
               e.ptr = f.ptr, e.key = f.key, e.rev = f.rev, e.filed = f.filed
        PROVE  IsNew(e) \/ IsKeyless(e) \/ IsRow(s, e)'
    <3>1. CASE IsNew(f)
      <4>1. f.key \in Keyless /\ f.rev = 0 /\ f.filed <= 1 BY <1>4, <3>1 DEF IsNew
      <4> QED BY <2>3, <4>1 DEF IsKeyless
    <3>2. CASE IsKeyless(f) BY <2>3, <3>2 DEF IsKeyless
    <3>3. CASE IsRow(s, f) BY <1>2, <2>3, <3>3 DEF IsRow
    <3> QED BY <3>1, <3>2, <3>3 DEF MemInv, OriginInv
  <2> QED BY <1>9, <2>1, <2>2, <2>3 DEF OriginInv
<1>22. EarlyInv(s)'
  <2>1. \A e \in entries'[s] : /\ ~e.reached /\ e.filed > 0
                               /\ e.state = "NEW" => e.key \in Keyless /\ e.rev = 0
    BY <1>4, <1>7, <1>9
  <2> QED BY <2>1 DEF EarlyInv
<1>23. TypedInv(s)'
  <2>1. \A e \in entries'[s] : e.ptr # NULL /\ e.key \in Id => TypeOf[e.key] = TypeOf[e.ptr]
    BY <1>7, <1>9 DEF MemInv, TypedInv
  <2> QED BY <2>1 DEF TypedInv
<1>24. RemovedInv(s)'
  <2>1. p # NULL BY DbAssumption
  <2> QED BY <1>2, <1>7, <1>9, <2>1 DEF MemInv, RemovedInv
<1>25. OnceInv(s)'
  <2>1. ASSUME ~late[s], NEW e \in entries'[s], NEW f \in entries'[s], e.key = f.key,
               e.state # "NEW", f.state # "NEW", e.key \notin Keyless
        PROVE  e = f
    <3>1. ASSUME NEW g \in entries'[s], g.key \notin Keyless, g.state # "NEW",
                 g \notin entries[s]
          PROVE  \E h \in entries[s] :
                    h.key = g.key /\ h.state # "NEW" /\ h \notin entries'[s] \ {g}
      BY <1>4, <1>7, <1>9, <3>1
    <3>2. \A g, h \in entries[s] : /\ g.state # "NEW" /\ h.state # "NEW"
                                   /\ g.key = h.key /\ g.key \notin Keyless
                                   => g = h
      BY <2>1 DEF MemInv, OnceInv
    <3>3. CASE e \in entries[s] /\ f \in entries[s] BY <2>1, <3>2, <3>3
    <3>4. CASE e \notin entries[s] /\ f \notin entries[s] BY <1>11, <2>1, <3>4
    <3>5. ASSUME NEW g \in entries'[s], NEW h \in entries'[s], g \notin entries[s],
                 h \in entries[s], g.key = h.key, g.key \notin Keyless,
                 g.state # "NEW", h.state # "NEW"
          PROVE  FALSE
      <4>1. PICK k \in entries[s] : k.key = g.key /\ k.state # "NEW" /\ k \notin entries'[s] \ {g}
        BY <3>1, <3>5
      <4>2. k = h BY <3>2, <3>5, <4>1
      <4> QED BY <3>5, <4>1, <4>2
    <3> QED BY <2>1, <3>3, <3>4, <3>5
  <2> QED BY <1>1, <1>2, <2>1 DEF MemInv, OnceInv, Having
<1>26. InOrderInv(s)'
  <2>1. ASSUME ~disordered[s], NEW e \in entries'[s], NEW f \in entries'[s], e.ptr = f.ptr
        PROVE  e = f
    <3>1. \A g, h \in entries[s] : g.ptr = h.ptr => g = h
      BY <2>1 DEF MemInv, InOrderInv
    <3>2. CASE e \in entries[s] /\ f \in entries[s] BY <2>1, <3>1, <3>2
    <3>3. CASE e \notin entries[s] /\ f \notin entries[s] BY <1>11, <2>1, <3>3
    <3>4. ASSUME NEW g \in entries'[s], NEW h \in entries'[s], g \notin entries[s],
                 h \in entries[s], g.ptr = h.ptr
          PROVE  FALSE
      <4>1. CASE g = n BY <1>7, <1>9, <2>1, <3>4, <4>1
      <4>2. CASE g # n
        <5>1. PICK k \in entries[s] : k.ptr = g.ptr /\ k \notin entries'[s] \ {g}
          BY <1>9, <3>4, <4>2
        <5>2. k = h BY <3>1, <3>4, <5>1
        <5> QED BY <3>4, <5>1, <5>2
      <4> QED BY <4>1, <4>2
    <3> QED BY <2>1, <3>2, <3>3, <3>4
  <2>2. ASSUME ~disordered[s], NEW e \in entries'[s], e.state = "NEW" PROVE e.ptr \in Fresh
    <3>1. CASE e \in entries[s] BY <2>2, <3>1 DEF MemInv, InOrderInv
    <3>2. CASE e \notin entries[s]
      <4>1. /\ e = n /\ p \in Held(s)
            /\ ~disordered[s] => \A g \in entries[s] : g.ptr # p
        BY <1>9, <2>2, <3>2
      <4>2. p \notin Loaded(s) BY <2>2, <4>1 DEF Loaded
      <4> QED BY <1>7, <1>8, <2>2, <4>1, <4>2 DEF Ptr
    <3> QED BY <3>1, <3>2
  <2>3. ASSUME ~disordered[s], NEW i \in Id,
               \/ i \in master'[s] \/ data'[s][i].val # NULL
               \/ \E q \in Ptr : data'[s][q].ref = i
        PROVE  i \in Loaded(s)'
    <3>1. i \in Held(s) BY <2>3
    <3> QED BY <1>8, <1>10, <2>3, <3>1
  <2> QED BY <2>1, <2>2, <2>3 DEF InOrderInv
<1>27. ReachedInv(s)'
  <2>1. \A e \in entries'[s] : ~e.reached BY <1>1, <1>22 DEF EarlyInv
  <2> QED BY <1>1, <2>1 DEF ReachedInv
<1> QED
  BY <1>20, <1>21, <1>22, <1>23, <1>24, <1>25, <1>26, <1>27 DEF MemInv

\* What dbsimple_dirty does to pointermap.
LEMMA DirtyMarks ==
  ASSUME TypeInv, NEW s \in Session, NEW p \in Held(s), Dirty(s, p) PROVE MarkedIn(s, p)
<1>1. NULL \notin entries[s] BY EntryFields DEF TypeInv, TypeOK
<1>2. PICK e \in Lookup(s, p) : entries'[s] =
           IF e = NULL THEN entries[s] \union {NewEntry(p)}
           ELSE (entries[s] \ {e}) \union {[e EXCEPT !.state = "MODIFIED"]}
  BY DEF Dirty, TypeInv, TypeOK, NewEntry, Replace
<1>3. CASE e = NULL BY <1>1, <1>2, <1>3, LookupFacts DEF MarkedIn
<1>4. CASE e # NULL
  <2>1. e \in entries[s] /\ e.ptr = p BY <1>4, LookupFacts
  <2> QED BY <1>2, <1>4, <2>1 DEF MarkedIn
<1> QED BY <1>3, <1>4

\* The reference of an object stays what it was when a field and the name change.
LEMMA ObjectKept ==
  ASSUME NEW o \in Object, NEW s, NEW n
  PROVE  [o EXCEPT !.val = s, !.name = n].ref = o.ref
BY DEF Object

\* Changes, new objects, links and removals.
LEMMA ApplicationsMem ==
  ASSUME TypeInv, NEW s \in Session, MemInv(s),
         \/ \E p \in Held(s) : (\E n : Change(s, p, n)) \/ Delete(s, p) \/ Unlink(s, p)
         \/ \E p, q \in Held(s) : Link(s, p, q)
         \/ \E p \in Fresh, n \in Name \union {NULL} : Create(s, p, n)
  PROVE  MemInv(s)'
<1>1. /\ pc[s] = "have" /\ pc'[s] = "have" /\ setup' = setup /\ at'[s] = at[s]
      /\ unknown'[s] = unknown[s] /\ disordered'[s] = disordered[s] /\ seen'[s] = seen[s]
      /\ late'[s] = late[s] /\ pc[s] \in Having
  BY DEF Change, Delete, Unlink, Link, Create, Application, Having
<1>2. Held(s) \subseteq Ptr /\ Fresh \subseteq Ptr BY DEF Held, Ptr
<1>3. \A q \in Ptr : /\ data[s][q].ref \in Ptr => TypeOf[data[s][q].ref] = RefType[TypeOf[q]]
                     /\ data[s][q].ref # Zero
  BY <1>1 DEF MemInv, TypedInv
<1>4. \A i \in Id : \/ i \in master[s] \/ data[s][i].val # NULL
                    \/ \E q \in Ptr : data[s][q].ref = i
                    => i \in Held(s)
  BY DEF Held, Ptr
<1>5. data[s] \in [Ptr -> Object] BY DEF TypeInv, TypeOK
<1>6. ASSUME NEW p \in Held(s), NEW n, Change(s, p, n) PROVE MemInv(s)'
  <2>1. /\ Dirty(s, p) /\ master' = master /\ asked' = asked
        /\ \A q \in Ptr : /\ data'[s][q].ref = data[s][q].ref
                          /\ q # p => data'[s][q].val = data[s][q].val
    <3>1. PICK o : o = [data[s][p] EXCEPT !.val = s, !.name = n] OBVIOUS
    <3>2. data[s][p] \in Object BY <1>2, <1>5, <1>6
    <3>3. o.ref = data[s][p].ref BY <3>1, <3>2, ObjectKept
    <3>4. data' = [data EXCEPT ![s][p] = o] BY <1>6, <3>1 DEF Change
    <3>5. /\ data'[s][p].ref = data[s][p].ref
          /\ \A q \in Ptr : q # p => data'[s][q] = data[s][q]
      BY <1>2, <1>5, <1>6, <3>3, <3>4 DEF TypeInv, TypeOK
    <3> QED BY <1>6, <3>5 DEF Change
  <2>2. MarkedIn(s, p) BY <2>1, DirtyMarks
  <2>3. \A i \in Id : \/ i \in master'[s] \/ data'[s][i].val # NULL
                      \/ \E q \in Ptr : data'[s][q].ref = i
                      => i \in Held(s)
    BY <1>4, <1>6, <2>1 DEF Ptr
  <2>4. \A q \in Ptr : /\ data'[s][q].ref \in Ptr
                          => TypeOf[data'[s][q].ref] = RefType[TypeOf[q]]
                       /\ data'[s][q].ref # Zero
    BY <1>3, <2>1
  <2> QED BY <1>1, <1>2, <2>1, <2>2, <2>3, <2>4, ApplicationMem
<1>7. ASSUME NEW p \in Held(s), NEW r \in Held(s), Link(s, p, r) PROVE MemInv(s)'
  <2>1. /\ Dirty(s, p) /\ master' = master /\ asked' = asked /\ TypeOf[r] = RefType[TypeOf[p]]
        /\ data'[s][p].ref = r
        /\ \A q \in Ptr : q # p => data'[s][q] = data[s][q]
    BY <1>2, <1>5, <1>7 DEF Link, TypeInv, TypeOK, Object
  <2>2. MarkedIn(s, p) BY <2>1, DirtyMarks
  <2>3. \A i \in Id : \/ i \in master'[s] \/ data'[s][i].val # NULL
                      \/ \E q \in Ptr : data'[s][q].ref = i
                      => i \in Held(s)
    BY <1>4, <1>7, <2>1 DEF Ptr
  <2>4. \A q \in Ptr : /\ data'[s][q].ref \in Ptr
                          => TypeOf[data'[s][q].ref] = RefType[TypeOf[q]]
                       /\ data'[s][q].ref # Zero
    BY <1>2, <1>3, <2>1, DbAssumption
  <2> QED BY <1>1, <1>2, <2>1, <2>2, <2>3, <2>4, ApplicationMem
<1>8. ASSUME NEW p \in Held(s), Delete(s, p) PROVE MemInv(s)'
  <2>1. master' = master /\ data' = data BY <1>8 DEF Delete
  <2>2. PICK e \in Lookup(s, p) :
          IF e = NULL THEN UNCHANGED <<entries, asked>>
          ELSE /\ entries'[s] = (entries[s] \ {e}) \union {[e EXCEPT !.state = "REMOVED"]}
               /\ asked'[s] = asked[s] \union {e.key}
    BY <1>8 DEF Delete, Replace, TypeInv, TypeOK
  <2>3. MarkedIn(s, p) /\ asked[s] \subseteq asked'[s]
    <3>1. CASE e = NULL BY <2>2, <3>1 DEF MarkedIn
    <3>2. CASE e # NULL
      <4>1. e \in entries[s] /\ e.ptr = p BY <3>2, LookupFacts
      <4> QED BY <2>2, <3>2, <4>1 DEF MarkedIn
    <3> QED BY <3>1, <3>2
  <2> QED BY <1>1, <1>2, <1>3, <1>4, <2>1, <2>3, ApplicationMem
<1>9. ASSUME NEW p \in Held(s), Unlink(s, p) PROVE MemInv(s)'
  <2>1. entries' = entries /\ data' = data /\ asked' = asked /\ master'[s] \subseteq master[s]
    BY <1>9 DEF Unlink, TypeInv
  <2>2. MarkedIn(s, p) BY <2>1 DEF MarkedIn
  <2> QED BY <1>1, <1>2, <1>3, <1>4, <2>1, <2>2, ApplicationMem
<1>10. ASSUME NEW p \in Fresh, NEW n, Create(s, p, n) PROVE MemInv(s)'
  <2>1. /\ entries' = entries /\ asked' = asked
        /\ \A q \in Ptr : /\ data'[s][q].ref = data[s][q].ref
                          /\ q # p => data'[s][q].val = data[s][q].val
    <3>1. PICK o : o = [data[s][p] EXCEPT !.val = s, !.name = n] OBVIOUS
    <3>2. data[s][p] \in Object BY <1>2, <1>5, <1>10
    <3>3. o.ref = data[s][p].ref BY <3>1, <3>2, ObjectKept
    <3>4. data' = [data EXCEPT ![s][p] = o] BY <1>10, <3>1 DEF Create
    <3>5. /\ data'[s][p].ref = data[s][p].ref
          /\ \A q \in Ptr : q # p => data'[s][q] = data[s][q]
      BY <1>2, <1>5, <1>10, <3>3, <3>4 DEF TypeInv, TypeOK
    <3> QED BY <1>10, <3>5 DEF Create
  <2>2. master'[s] \subseteq master[s] \union {p} BY <1>10 DEF Create, TypeInv
  <2>3. \A i \in Id : i # p /\ i \in Ptr BY DbAssumption DEF Ptr
  <2>4. \A i \in Id : \/ i \in master'[s] \/ data'[s][i].val # NULL
                      \/ \E q \in Ptr : data'[s][q].ref = i
                      => i \in Held(s)
    BY <1>4, <2>1, <2>2, <2>3
  <2>5. MarkedIn(s, p) BY <2>1 DEF MarkedIn
  <2>6. \A q \in Ptr : /\ data'[s][q].ref \in Ptr
                          => TypeOf[data'[s][q].ref] = RefType[TypeOf[q]]
                       /\ data'[s][q].ref # Zero
    BY <1>3, <2>1
  <2> QED BY <1>1, <1>2, <2>1, <2>4, <2>5, <2>6, ApplicationMem
<1> QED BY <1>6, <1>7, <1>8, <1>9, <1>10
-----------------------------------------------------------------------------
(* The traversal before the commit.                                        *)

\* What is reached: the arrays and what the references lead to, no more than
\* the application can get at, and in a tree that is in order only objects with
\* an entry, or fresh ones.
LEMMA ReachableFacts ==
  ASSUME TypeInv, NEW s \in Session, TypedInv(s), pc[s] = "have"
  PROVE  /\ Reachable(s) \subseteq Ptr
         /\ \A p \in Ptr : Kept(s, p) => p \in Reachable(s)
         /\ \A p \in Reachable(s) : p \in master[s] \/ \E q \in Ptr : data[s][q].ref = p
<1>1. master[s] \subseteq Ptr BY DEF TypeInv
<1>2. \A q \in Ptr : data[s][q].ref \in Ptr \union {NULL}
  <2>1. ASSUME NEW q \in Ptr PROVE data[s][q].ref \in Ptr \union {NULL}
    <3>1. data[s][q] \in Object BY DEF TypeInv, TypeOK
    <3>2. data[s][q].ref # Zero BY DEF TypedInv, Having
    <3> QED BY <3>1, <3>2 DEF Object
  <2> QED BY <2>1
<1>3. Reachable(s) \subseteq Ptr BY DEF Reachable
<1>4. ASSUME NEW p \in Ptr, Kept(s, p) PROVE p \in Reachable(s)
  <2>1. ASSUME NEW S \in SUBSET Ptr, master[s] \subseteq S,
               \A q \in S : data[s][q].ref \in S \union {NULL}
        PROVE  p \in S
    <3>1. p # NULL BY DbAssumption
    <3>2. CASE p \in master[s] BY <2>1, <3>2
    <3>3. CASE p \notin master[s]
      <4>1. PICK q \in master[s] : data[s][q].ref = p BY <1>4, <3>3 DEF Kept
      <4>2. q \in S BY <2>1, <4>1
      <4> QED BY <2>1, <3>1, <4>1, <4>2
    <3> QED BY <3>2, <3>3
  <2> QED BY <2>1 DEF Reachable
<1>5. ASSUME NEW p \in Reachable(s)
      PROVE  p \in master[s] \/ \E q \in Ptr : data[s][q].ref = p
  <2>1. PICK S : S = {r \in Ptr : r \in master[s] \/ \E q \in Ptr : data[s][q].ref = r}
    OBVIOUS
  <2>2. S \in SUBSET Ptr /\ master[s] \subseteq S BY <1>1, <2>1
  <2>3. \A q \in S : data[s][q].ref \in S \union {NULL} BY <1>2, <2>1
  <2>4. p \in S BY <2>2, <2>3 DEF Reachable
  <2> QED BY <2>1, <2>4
<1> QED BY <1>3, <1>4, <1>5

\* What the traversal makes of an entry it finds, and of an object without one.
Found(e) == [e EXCEPT !.reached = TRUE, !.typed = TRUE]
Same(e, f) == /\ e.ptr = f.ptr /\ e.key = f.key /\ e.rev = f.rev /\ e.state = f.state
              /\ e.filed = f.filed
Anew(p) == Unregistered(p, TRUE, 1)

\* An entry that was found is what it was, and reached.
LEMMA FoundFields ==
  ASSUME NEW e \in Entry PROVE Same(Found(e), e) /\ Found(e).reached
BY DEF Found, Same, Entry

\* What the traversal leaves behind: entries that it did not find, those that it
\* found, and new ones of objects that had none.
LEMMA CommitEntries ==
  ASSUME TypeInv, NEW s \in Session, Commit(s)
  PROVE  \E found \in SUBSET entries[s], rest \in SUBSET Reachable(s) :
            /\ \A e \in found : e.ptr \in Reachable(s)
            /\ \A e, f \in found : e.ptr = f.ptr => e = f
            /\ \A p \in Reachable(s) : p \in rest <=> \A e \in found : e.ptr # p
            /\ ~disordered[s] => \A p \in rest : \A e \in entries[s] : e.ptr # p
            /\ entries'[s] = (entries[s] \ found) \union {Found(e) : e \in found}
                                                 \union {Anew(p) : p \in rest}
<1>1. PICK found \in SUBSET {e \in entries[s] : e.ptr \in Reachable(s)} :
          /\ \A p \in Reachable(s) :
                \/ \E e \in found : \A f \in found : f.ptr = p <=> f = e
                \/ NULL \in Lookup(s, p) /\ \A e \in found : e.ptr # p
          /\ entries'[s] = (entries[s] \ found)
                \union {[e EXCEPT !.reached = TRUE, !.typed = TRUE] : e \in found}
                \union {Unregistered(p, TRUE, 1) : p \in Reachable(s) \ {e.ptr : e \in found}}
  BY DEF Commit, TypeInv, TypeOK
<1>2. PICK rest : rest = Reachable(s) \ {e.ptr : e \in found} OBVIOUS
<1>3. NULL \notin entries[s] BY EntryFields DEF TypeInv, TypeOK
<1>4. \A p : NULL \in Lookup(s, p) /\ ~disordered[s] => \A e \in entries[s] : e.ptr # p
  BY <1>3 DEF Lookup
<1>5. entries'[s] = (entries[s] \ found) \union {Found(e) : e \in found}
                                        \union {Anew(p) : p \in rest}
  BY <1>1, <1>2 DEF Found, Anew
<1>6. ASSUME NEW e \in found, NEW f \in found, e.ptr = f.ptr PROVE e = f
  <2>1. e.ptr \in Reachable(s) BY <1>1
  <2>2. PICK g \in found : \A h \in found : h.ptr = e.ptr <=> h = g BY <1>1, <2>1
  <2> QED BY <1>6, <2>2
<1>7. \A p \in rest : p \in Reachable(s) /\ \A e \in found : e.ptr # p BY <1>2
<1>8. \A p \in rest : NULL \in Lookup(s, p) BY <1>1, <1>7
<1>9. \A p \in Reachable(s) : p \in rest <=> \A e \in found : e.ptr # p BY <1>2
<1> QED BY <1>1, <1>4, <1>5, <1>6, <1>7, <1>8, <1>9

\* BEGIN and the traversal.
LEMMA CommitMem ==
  ASSUME TypeInv, NEW s \in Session, MemInv(s), Commit(s) PROVE MemInv(s)'
<1>1. /\ pc[s] = "have" /\ pc'[s] = "persist" /\ setup' = setup /\ at' = at
      /\ unknown' = unknown /\ master' = master /\ data' = data
      /\ disordered' = disordered /\ seen' = seen /\ asked' = asked /\ late' = late
  BY DEF Commit, trace, TypeInv, TypeOK
<1>2. /\ pc[s] \notin Writing /\ pc[s] \in Having /\ pc'[s] \in Having /\ pc'[s] \in Writing
      /\ pc'[s] \notin {"fetch", "have", "insert"}
  BY <1>1 DEF Writing, Having
<1>3. (Ordered' <=> Ordered) /\ late'[s] = late[s] /\ Fetched(s)' = Fetched(s)
  BY <1>1 DEF Ordered, Fetched
<1>4. \A e \in entries[s] : ~e.reached BY <1>2 DEF MemInv, EarlyInv
<1>5. /\ Reachable(s) \subseteq Ptr
      /\ \A p \in Ptr : Kept(s, p) => p \in Reachable(s)
      /\ \A p \in Reachable(s) : p \in master[s] \/ \E q \in Ptr : data[s][q].ref = p
  BY <1>1, ReachableFacts DEF MemInv
<1>6. PICK found \in SUBSET entries[s], rest \in SUBSET Reachable(s) :
            /\ \A e \in found : e.ptr \in Reachable(s)
            /\ \A e, f \in found : e.ptr = f.ptr => e = f
            /\ \A p \in Reachable(s) : p \in rest <=> \A e \in found : e.ptr # p
            /\ ~disordered[s] => \A p \in rest : \A e \in entries[s] : e.ptr # p
            /\ entries'[s] = (entries[s] \ found) \union {Found(e) : e \in found}
                                                 \union {Anew(p) : p \in rest}
  BY CommitEntries
<1>7. \A e \in entries[s] : e \in Entry BY DEF TypeInv, TypeOK
<1>8. \A f \in found : Same(Found(f), f) /\ Found(f).reached
  BY <1>6, <1>7, FoundFields
<1>9. \A p \in rest : /\ Anew(p).ptr = p /\ Anew(p).key = Zero /\ Anew(p).rev = 0
                      /\ Anew(p).state = "NEW" /\ Anew(p).filed = 1 /\ Anew(p).reached
  BY DEF Anew, Unregistered
\* Each entry is as it was, or was found, or is new.
<1>10. \A e \in entries'[s] :
          \/ e \in entries[s] /\ e \notin found
          \/ \E f \in found : e = Found(f)
          \/ \E p \in rest : e = Anew(p)
  BY <1>6
<1>11. \A e \in entries'[s] :
          \/ \E f \in entries[s] : Same(e, f)
          \/ \E p \in rest : e.ptr = p /\ e.key = Zero /\ e.state = "NEW" /\ e.filed = 1
  <2>1. \A e \in entries[s] : Same(e, e) BY DEF Same
  <2> QED BY <1>8, <1>9, <1>10, <2>1
<1>12. Loaded(s) \subseteq Loaded(s)'
  <2>1. ASSUME NEW e \in entries[s] PROVE \E f \in entries'[s] : f.ptr = e.ptr
    <3>1. CASE e \in found
      <4>1. Found(e) \in entries'[s] /\ Found(e).ptr = e.ptr BY <1>6, <1>8, <3>1 DEF Same
      <4> QED BY <4>1
    <3>2. CASE e \notin found BY <1>6, <3>2
    <3> QED BY <3>1, <3>2
  <2> QED BY <2>1 DEF Loaded
\* In a tree that is in order an object without an entry is a fresh one.
<1>13. ASSUME ~disordered[s], NEW p \in rest PROVE p \in Fresh /\ \A e \in entries[s] : e.ptr # p
  <2>1. \A e \in entries[s] : e.ptr # p BY <1>6, <1>13
  <2>2. p \notin Loaded(s) BY <2>1 DEF Loaded
  <2>3. p \notin Id BY <1>2, <1>5, <1>13, <2>2 DEF MemInv, InOrderInv
  <2> QED BY <1>5, <2>1, <2>3 DEF Ptr
\* Two entries that were found or left alone are two that there were.
<1>14. ASSUME NEW e \in entries'[s], NEW f \in entries'[s],
              ~\E p \in rest : e = Anew(p) \/ f = Anew(p), e # f
       PROVE  \E g, h \in entries[s] : Same(e, g) /\ Same(f, h) /\ g # h
  <2>1. ASSUME NEW x \in entries'[s], ~\E p \in rest : x = Anew(p)
        PROVE  \E g \in entries[s] : /\ Same(x, g)
                                     /\ g \in found => x = Found(g)
                                     /\ g \notin found => x = g
    <3>1. CASE x \in entries[s] /\ x \notin found
      <4>1. Same(x, x) BY DEF Same
      <4> QED BY <3>1, <4>1
    <3>2. CASE \E g \in found : x = Found(g) BY <1>8, <3>2
    <3> QED BY <1>10, <2>1, <3>1, <3>2
  <2>2. PICK g \in entries[s] : /\ Same(e, g)
                                /\ g \in found => e = Found(g)
                                /\ g \notin found => e = g
    BY <1>14, <2>1
  <2>3. PICK h \in entries[s] : /\ Same(f, h)
                                /\ h \in found => f = Found(h)
                                /\ h \notin found => f = h
    BY <1>14, <2>1
  <2> QED BY <1>14, <2>2, <2>3
<1> HIDE DEF Anew
<1>20. SeenInv(s)' /\ FetchingInv(s)' /\ EarlyInv(s)' /\ CurrentInv(s)' /\ AwaitedInv(s)'
       /\ DoneInv(s)'
  BY <1>1, <1>2, <1>3
     DEF MemInv, SeenInv, FetchingInv, EarlyInv, CurrentInv, AwaitedInv, DoneInv
<1>21. OriginInv(s)'
  <2>1. ASSUME NEW e, NEW f \in entries[s], Same(e, f)
        PROVE  IsNew(e) \/ IsKeyless(e) \/ IsRow(s, e)'
    <3>1. CASE IsNew(f) BY <2>1, <3>1 DEF IsNew, Same
    <3>2. CASE IsKeyless(f) BY <2>1, <3>2 DEF IsKeyless, Same
    <3>3. CASE IsRow(s, f) BY <1>1, <1>3, <2>1, <3>3 DEF IsRow, Same
    <3> QED BY <3>1, <3>2, <3>3 DEF MemInv, OriginInv
  <2>2. ASSUME NEW e, e.key = Zero, e.state = "NEW", e.filed = 1 PROVE IsNew(e)
    BY <2>2 DEF IsNew
  <2> QED BY <1>11, <2>1, <2>2 DEF OriginInv
<1>22. TypedInv(s)'
  <2>1. Zero \notin Id BY DbAssumption DEF Ptr
  <2>2. \A e \in entries'[s] : e.ptr # NULL /\ e.key \in Id => TypeOf[e.key] = TypeOf[e.ptr]
    BY <1>11, <2>1 DEF MemInv, TypedInv, Same
  <2> QED BY <1>1, <1>2, <2>2 DEF MemInv, TypedInv
<1>23. RemovedInv(s)'
  <2>1. NULL \notin Ptr BY DbAssumption
  <2>2. \A e \in entries'[s] : e.ptr = NULL => e.state = "REMOVED"
    BY <1>5, <1>11, <2>1 DEF MemInv, RemovedInv, Same
  <2>3. \A e \in entries'[s] : e.ptr # NULL /\ e.state = "REMOVED" => e.key \in asked[s]
    BY <1>11 DEF MemInv, RemovedInv, Same
  <2>4. \A e \in entries'[s] : ~late[s] /\ e.ptr = NULL => e.filed = 0
    BY <1>5, <1>11, <2>1 DEF MemInv, RemovedInv, Same
  <2> QED BY <1>1, <1>3, <2>2, <2>3, <2>4 DEF RemovedInv
<1>24. OnceInv(s)'
  <2>1. ASSUME ~late[s], NEW e \in entries'[s], NEW f \in entries'[s],
               e.state # "NEW", f.state # "NEW", e.key = f.key, e.key \notin Keyless, e # f
        PROVE  FALSE
    <3>1. \A g, h \in entries[s] : /\ g.state # "NEW" /\ h.state # "NEW"
                                   /\ g.key = h.key /\ g.key \notin Keyless
                                   => g = h
      BY <2>1 DEF MemInv, OnceInv
    <3>2. ~\E p \in rest : e = Anew(p) \/ f = Anew(p) BY <1>9, <2>1
    <3> QED BY <1>14, <2>1, <3>1, <3>2 DEF Same
  <2> QED BY <1>2, <1>3, <2>1 DEF OnceInv
<1>25. InOrderInv(s)'
  <2>1. ASSUME ~disordered[s], NEW e \in entries'[s], NEW f \in entries'[s], e.ptr = f.ptr,
               e # f
        PROVE  FALSE
    <3>1. \A g, h \in entries[s] : g.ptr = h.ptr => g = h BY <2>1 DEF MemInv, InOrderInv
    <3>2. ASSUME NEW g \in entries'[s], NEW p \in rest, g.ptr = p PROVE g = Anew(p)
      <4>1. g \notin entries[s] BY <1>13, <2>1, <3>2
      <4>2. \A h \in found : g # Found(h) BY <1>8, <1>13, <2>1, <3>2 DEF Same
      <4> QED BY <1>9, <1>10, <3>2, <4>1, <4>2
    <3>3. ~\E p \in rest : e = Anew(p) \/ f = Anew(p) BY <1>9, <2>1, <3>2
    <3> QED BY <1>14, <2>1, <3>1, <3>3 DEF Same
  <2>2. ASSUME ~disordered[s], NEW e \in entries'[s], e.state = "NEW" PROVE e.ptr \in Fresh
    <3>1. \A g \in entries[s] : g.state = "NEW" => g.ptr \in Fresh
      BY <2>2 DEF MemInv, InOrderInv
    <3>2. CASE \E g \in entries[s] : Same(e, g) BY <2>2, <3>1, <3>2 DEF Same
    <3>3. CASE \E p \in rest : e.ptr = p BY <1>13, <2>2, <3>3
    <3> QED BY <1>11, <2>2, <3>2, <3>3
  <2>3. ASSUME ~disordered[s], NEW i \in Id,
               \/ i \in master[s] \/ data[s][i].val # NULL
               \/ \E p \in Ptr : data[s][p].ref = i
        PROVE  i \in Loaded(s)'
    BY <1>2, <1>12, <2>3 DEF MemInv, InOrderInv
  <2> QED BY <1>1, <2>1, <2>2, <2>3 DEF InOrderInv
<1>26. ReachedInv(s)'
  <2>1. ASSUME NEW e \in entries'[s], e.reached
        PROVE  \/ \E g \in found : e = Found(g) /\ e.ptr = g.ptr
               \/ \E p \in rest : e = Anew(p) /\ e.ptr = p
    BY <1>4, <1>8, <1>9, <1>10, <2>1 DEF Same
  <2>2. ASSUME NEW e \in entries'[s], NEW f \in entries'[s], e.reached, f.reached, e.ptr = f.ptr
        PROVE  e = f
    <3>1. CASE \E g \in found : e = Found(g) /\ e.ptr = g.ptr
      <4>1. PICK g \in found : e = Found(g) /\ e.ptr = g.ptr BY <3>1
      <4>2. f.ptr \notin rest BY <1>6, <2>2, <4>1
      <4>3. PICK h \in found : f = Found(h) /\ f.ptr = h.ptr BY <2>1, <2>2, <4>2
      <4>4. g = h BY <1>6, <2>2, <4>1, <4>3
      <4> QED BY <4>1, <4>3, <4>4
    <3>2. CASE \E p \in rest : e = Anew(p) /\ e.ptr = p
      <4>1. PICK p \in rest : e = Anew(p) /\ e.ptr = p BY <3>2
      <4>2. \A h \in found : h.ptr # p BY <1>6
      <4> QED BY <2>1, <2>2, <4>1, <4>2
    <3> QED BY <2>1, <2>2, <3>1, <3>2
  <2>3. ASSUME ~late[s], NEW e \in entries'[s], e.ptr # NULL, e.state # "NEW", Kept(s, e.ptr),
               ~e.reached
        PROVE  FALSE
    <3>1. e \in entries[s] /\ e \notin found BY <1>8, <1>9, <1>10, <2>3
    <3>2. ~disordered[s] BY <1>1, <2>3 DEF MemInv, OnceInv
    <3>3. e.ptr \in Reachable(s)
      <4>1. e.ptr \in Ptr BY <1>7, <2>3, <3>1, EntryFields
      <4> QED BY <1>5, <2>3, <4>1
    <3>4. e.ptr \notin rest BY <1>6, <3>1, <3>2
    <3>5. PICK f \in found : f.ptr = e.ptr BY <1>6, <3>3, <3>4
    <3>6. f = e BY <3>1, <3>2, <3>5 DEF MemInv, InOrderInv
    <3> QED BY <3>1, <3>5, <3>6
  <2>4. \A p : Kept(s, p)' <=> Kept(s, p) BY <1>1 DEF Kept
  <2> QED BY <1>3, <2>2, <2>3, <2>4 DEF ReachedInv
<1> QED BY <1>20, <1>21, <1>22, <1>23, <1>24, <1>25, <1>26 DEF MemInv
-----------------------------------------------------------------------------
(* What a commit does with the entries.                                    *)

\* The entry that takes the place of another one when its object is inserted.
Successor(e, f) ==
    /\ f \in Entry /\ f.ptr = e.ptr /\ f.state = e.state /\ f.reached = e.reached
    /\ f.typed = e.typed /\ f.filed = e.filed - 1
    /\ \/ /\ e.state = "NEW" /\ f.rev = 1 /\ f.key \in Id \ Keyless
          /\ TypeOf[f.key] = TypeOf[e.ptr]
       \/ e.state = "MODIFIED" /\ f.key = e.key /\ f.rev = e.rev + 1

\* The object it refers to may have had no entry.
MoreIn(s, e, more) ==
    \/ more = {}
    \/ \E p \in Ptr, v \in {0, 1} : /\ data[s][e.ptr].ref = p /\ NULL \in Lookup(s, p)
                                    /\ more = {Unregistered(p, FALSE, v)}

\* The memory of a session after an INSERT.
LEMMA InsertMem ==
  ASSUME TypeInv, NEW s \in Session, MemInv(s), pc[s] \in Writing, pc'[s] = "persist",
         setup' = setup, at'[s] = at[s], unknown'[s] = unknown[s], master'[s] = master[s],
         data'[s] = data[s], disordered'[s] = disordered[s], seen'[s] = seen[s],
         asked'[s] = asked[s], late'[s] = late[s],
         NEW e \in entries[s], e.ptr # NULL, e.filed > 0, NEW f, Successor(e, f),
         NEW more, MoreIn(s, e, more),
         entries'[s] = Replace(s, e, f) \union more
  PROVE  MemInv(s)'
<1>1. /\ pc'[s] \in Writing /\ pc'[s] \in Having /\ pc[s] \in Having
      /\ pc'[s] \notin {"fetch", "have", "insert"}
  BY DEF Writing, Having
<1>2. (Ordered' <=> Ordered) /\ late'[s] = late[s] /\ Fetched(s)' = Fetched(s)
  BY DEF Ordered, Fetched
<1>3. \A g \in entries[s] : g \in Entry BY DEF TypeInv, TypeOK
<1>4. e.ptr \in Ptr /\ e.filed \in 0..2 /\ e.rev \in Nat BY <1>3, EntryFields
<1>5. \A g \in more : /\ g.ptr = data[s][e.ptr].ref /\ g.ptr \in Ptr /\ NULL \in Lookup(s, g.ptr)
                      /\ g.key = Zero /\ g.state = "NEW" /\ g.filed <= 1 /\ ~g.reached
  <2> SUFFICES ASSUME NEW g \in more
               PROVE  /\ g.ptr = data[s][e.ptr].ref /\ g.ptr \in Ptr /\ NULL \in Lookup(s, g.ptr)
                      /\ g.key = Zero /\ g.state = "NEW" /\ g.filed <= 1 /\ ~g.reached
    OBVIOUS
  <2>1. PICK p \in Ptr, v \in {0, 1} : /\ data[s][e.ptr].ref = p /\ NULL \in Lookup(s, p)
                                       /\ g = Unregistered(p, FALSE, v)
    BY DEF MoreIn
  <2>2. g.ptr = p /\ g.key = Zero /\ g.state = "NEW" /\ g.filed = v /\ ~g.reached
    BY <2>1 DEF Unregistered
  <2>3. v <= 1 OBVIOUS
  <2>4. g.filed <= 1 BY <2>2, <2>3
  <2>5. g.ptr = data[s][e.ptr].ref /\ g.ptr \in Ptr BY <2>1, <2>2
  <2>6. NULL \in Lookup(s, g.ptr) BY <2>1, <2>2
  <2> QED BY <2>2, <2>4, <2>5, <2>6
<1>6. \A g, h \in more : g = h BY DEF MoreIn
<1>7. \A g \in entries'[s] : (g \in entries[s] /\ g # e) \/ g = f \/ g \in more
  BY DEF Replace
<1>8. f.ptr = e.ptr /\ f.state = e.state /\ f.reached = e.reached BY DEF Successor
<1>9. Loaded(s) \subseteq Loaded(s)' BY <1>8 DEF Loaded, Replace
<1>10. NULL \notin entries[s] BY <1>3, EntryFields
<1>11. ASSUME ~disordered[s], NEW g \in more
       PROVE  g.ptr \in Fresh /\ \A h \in entries[s] : h.ptr # g.ptr
  <2>1. \A h \in entries[s] : h.ptr # g.ptr BY <1>5, <1>10, <1>11 DEF Lookup
  <2>2. g.ptr \notin Loaded(s) BY <2>1 DEF Loaded
  <2>3. g.ptr \notin Id BY <1>1, <1>4, <1>5, <1>11, <2>2 DEF MemInv, InOrderInv
  <2> QED BY <1>5, <1>11, <2>1, <2>3 DEF Ptr
<1>20. SeenInv(s)' /\ FetchingInv(s)' /\ EarlyInv(s)' /\ CurrentInv(s)' /\ AwaitedInv(s)'
       /\ DoneInv(s)'
  BY <1>1, <1>2 DEF MemInv, SeenInv, FetchingInv, EarlyInv, CurrentInv, AwaitedInv, DoneInv
<1>21. OriginInv(s)'
  <2>1. ASSUME NEW g \in entries[s] PROVE IsNew(g) \/ IsKeyless(g) \/ IsRow(s, g)'
    BY <1>2, <2>1 DEF MemInv, OriginInv, IsRow
  <2>2. IsNew(f) \/ IsKeyless(f) \/ IsRow(s, f)'
    <3>1. f.filed <= e.filed - 1 /\ f.filed \in Nat
      BY <1>4, EntryFields DEF Successor
    <3>2. CASE IsNew(e) BY <1>4, <3>1, <3>2 DEF IsNew, Successor
    <3>3. CASE IsKeyless(e)
      <4>1. f.filed = 0 BY <1>4, <3>1, <3>3 DEF IsKeyless
      <4> QED BY <3>3, <4>1 DEF IsKeyless, Successor
    <3>4. CASE IsRow(s, e)
      <4>1. e.state = "MODIFIED" /\ f.key = e.key /\ f.rev = e.rev + 1 /\ f.state # "NEW"
        BY <3>4 DEF IsRow, Successor
      <4>2. ~late[s] => f.filed = 0 BY <1>4, <3>1, <3>4 DEF IsRow
      <4>3. seen[s][e.key] \in Row BY <3>4 DEF IsRow, TypeInv
      <4>4. seen[s][e.key].rev <= f.rev BY <1>4, <3>4, <4>1, <4>3, RowFields DEF IsRow
      <4> QED BY <1>2, <1>8, <3>4, <4>1, <4>2, <4>4 DEF IsRow
    <3> QED BY <3>2, <3>3, <3>4 DEF MemInv, OriginInv
  <2>3. \A g \in more : IsNew(g) BY <1>5 DEF IsNew
  <2> QED BY <1>7, <2>1, <2>2, <2>3 DEF OriginInv
<1>22. TypedInv(s)'
  <2>1. Zero \notin Id BY DbAssumption DEF Ptr
  <2>2. f.key \in Id => TypeOf[f.key] = TypeOf[f.ptr] BY DEF Successor, MemInv, TypedInv
  <2>3. \A g \in entries'[s] : g.ptr # NULL /\ g.key \in Id => TypeOf[g.key] = TypeOf[g.ptr]
    BY <1>5, <1>7, <2>1, <2>2 DEF MemInv, TypedInv
  <2> QED BY <1>1, <2>3 DEF MemInv, TypedInv
<1>23. RemovedInv(s)'
  <2>1. NULL \notin Ptr BY DbAssumption
  <2>2. f.state # "REMOVED" BY DEF Successor
  <2> QED BY <1>2, <1>5, <1>7, <1>8, <2>1, <2>2 DEF MemInv, RemovedInv
<1>24. OnceInv(s)'
  <2>1. ASSUME ~late[s], NEW g \in entries'[s], NEW h \in entries'[s],
               g.state # "NEW", h.state # "NEW", g.key = h.key, g.key \notin Keyless
        PROVE  g = h
    <3>1. \A i, j \in entries[s] : /\ i.state # "NEW" /\ j.state # "NEW"
                                   /\ i.key = j.key /\ i.key \notin Keyless
                                   => i = j
      BY <2>1 DEF MemInv, OnceInv
    <3>2. g \notin more /\ h \notin more BY <1>5, <2>1
    <3>3. f.state # "NEW" => f.key = e.key /\ e.state # "NEW" BY DEF Successor
    <3> QED BY <1>7, <2>1, <3>1, <3>2, <3>3
  <2> QED BY <1>1, <1>2, <2>1 DEF OnceInv
<1>25. InOrderInv(s)'
  <2>1. ASSUME ~disordered[s], NEW g \in entries'[s], NEW h \in entries'[s], g.ptr = h.ptr
        PROVE  g = h
    <3>1. \A i, j \in entries[s] : i.ptr = j.ptr => i = j BY <2>1 DEF MemInv, InOrderInv
    <3> QED BY <1>6, <1>7, <1>8, <1>11, <2>1, <3>1
  <2>2. ASSUME ~disordered[s], NEW g \in entries'[s], g.state = "NEW" PROVE g.ptr \in Fresh
    <3>1. \A i \in entries[s] : i.state = "NEW" => i.ptr \in Fresh
      BY <2>2 DEF MemInv, InOrderInv
    <3> QED BY <1>7, <1>8, <1>11, <2>2, <3>1
  <2>3. ASSUME ~disordered[s], NEW i \in Id,
               \/ i \in master[s] \/ data[s][i].val # NULL
               \/ \E p \in Ptr : data[s][p].ref = i
        PROVE  i \in Loaded(s)'
    BY <1>1, <1>9, <2>3 DEF MemInv, InOrderInv
  <2> QED BY <2>1, <2>2, <2>3 DEF InOrderInv
<1>26. ReachedInv(s)'
  <2>1. \A g, h \in entries[s] : /\ g.reached /\ h.reached /\ g.ptr = h.ptr /\ g.ptr # NULL
                                 => g = h
    BY DEF MemInv, ReachedInv
  <2>2. \A g, h \in entries'[s] : /\ g.reached /\ h.reached /\ g.ptr = h.ptr /\ g.ptr # NULL
                                  => g = h
    BY <1>5, <1>7, <1>8, <2>1
  <2>3. \A p : Kept(s, p)' <=> Kept(s, p) BY DEF Kept
  <2>4. ASSUME ~late[s]
        PROVE  \A g \in entries'[s] :
                  g.ptr # NULL /\ g.state # "NEW" /\ Kept(s, g.ptr) => g.reached
    <3>1. \A g \in entries[s] : g.ptr # NULL /\ g.state # "NEW" /\ Kept(s, g.ptr) => g.reached
      BY <2>4 DEF MemInv, ReachedInv
    <3> QED BY <1>5, <1>7, <1>8, <3>1
  <2> QED BY <1>2, <2>2, <2>3, <2>4 DEF ReachedInv
<1> QED BY <1>20, <1>21, <1>22, <1>23, <1>24, <1>25, <1>26 DEF MemInv

\* The object of a removed entry is forgotten.
LEMMA RemoveMem ==
  ASSUME TypeInv, NEW s \in Session, MemInv(s), NEW e \in ToVisit(s), PersistRemoved(s, e)
  PROVE  MemInv(s)'
<1>1. PICK f : f = [Visited(e) EXCEPT !.ptr = NULL, !.state = "REMOVED"] OBVIOUS
<1>2. /\ e \in entries[s] /\ e \in Entry /\ e.filed > 0
      /\ e.ptr = NULL => e.state = "REMOVED"
      /\ Verdict(e) = "NEW" <=> e.state = "NEW"
  BY VisitFacts DEF MemInv
<1>3. /\ f \in Entry /\ f.key = e.key /\ f.rev = e.rev /\ f.filed = e.filed - 1
      /\ f.ptr = NULL /\ f.state = "REMOVED"
  BY <1>1, <1>2, StoredRemoved
<1>4. e.state # "NEW" BY <1>2 DEF PersistRemoved
<1>5. /\ entries'[s] = (entries[s] \ {e}) \union {f} /\ pc[s] = "persist"
      /\ pc'[s] = "removed" /\ disordered'[s] = TRUE /\ setup' = setup /\ at' = at
      /\ unknown' = unknown /\ master' = master /\ data' = data /\ seen' = seen
      /\ asked' = asked /\ late' = late
  BY <1>1 DEF PersistRemoved, Persist, Replace, trace, TypeInv, TypeOK
<1>6. (Ordered' <=> Ordered) /\ late'[s] = late[s] /\ Fetched(s)' = Fetched(s)
  BY <1>5 DEF Ordered, Fetched
<1>7. /\ pc[s] \in Writing /\ pc[s] \in Having /\ pc'[s] \in Writing
      /\ pc'[s] \notin {"fetch", "have", "insert"}
  BY <1>5 DEF Writing, Having
<1>20. SeenInv(s)' /\ FetchingInv(s)' /\ EarlyInv(s)' /\ CurrentInv(s)' /\ AwaitedInv(s)'
       /\ DoneInv(s)'
  BY <1>5, <1>6, <1>7
     DEF MemInv, SeenInv, FetchingInv, EarlyInv, CurrentInv, AwaitedInv, DoneInv
<1>21. OriginInv(s)'
  <2>1. ASSUME NEW g \in entries[s] PROVE IsNew(g) \/ IsKeyless(g) \/ IsRow(s, g)'
    BY <1>5, <1>6, <2>1 DEF MemInv, OriginInv, IsRow
  <2>2. f.filed \in Nat /\ f.filed < e.filed /\ e.filed \in Nat
    BY <1>2, <1>3, EntryFields
  <2>3. IsKeyless(f) \/ IsRow(s, f)'
    <3>1. CASE IsKeyless(e) BY <1>3, <2>2, <3>1 DEF IsKeyless
    <3>2. CASE IsRow(s, e) BY <1>3, <1>5, <1>6, <2>2, <3>2 DEF IsRow
    <3> QED BY <1>2, <1>4, <3>1, <3>2 DEF MemInv, OriginInv, IsNew
  <2> QED BY <1>5, <2>1, <2>3 DEF OriginInv
<1>22. TypedInv(s)' BY <1>3, <1>5, <1>7 DEF MemInv, TypedInv
<1>23. RemovedInv(s)'
  <2>1. e.filed \in Nat /\ f.filed \in Nat BY <1>2, <1>3, EntryFields
  <2>2. ~late[s] => e.filed <= 1 BY <1>2, <1>4 DEF MemInv, OriginInv, IsNew, IsKeyless, IsRow
  <2>3. ~late[s] => f.filed = 0 BY <1>2, <1>3, <2>1, <2>2
  <2> QED BY <1>3, <1>5, <1>6, <2>3 DEF MemInv, RemovedInv
<1>24. OnceInv(s)'
  <2>1. ASSUME ~late[s], NEW g \in entries'[s], NEW h \in entries'[s],
               g.state # "NEW", h.state # "NEW", g.key = h.key, g.key \notin Keyless
        PROVE  g = h
    <3>1. \A i, j \in entries[s] : /\ i.state # "NEW" /\ j.state # "NEW"
                                   /\ i.key = j.key /\ i.key \notin Keyless
                                   => i = j
      BY <2>1 DEF MemInv, OnceInv
    <3> QED BY <1>2, <1>3, <1>4, <1>5, <2>1, <3>1
  <2> QED BY <1>6, <1>7, <2>1 DEF OnceInv
<1>25. InOrderInv(s)' BY <1>5 DEF InOrderInv
<1>26. ReachedInv(s)'
  <2>1. \A p : Kept(s, p)' <=> Kept(s, p) BY <1>5 DEF Kept
  <2> QED BY <1>3, <1>5, <1>6, <1>7, <2>1 DEF MemInv, ReachedInv
<1> QED BY <1>20, <1>21, <1>22, <1>23, <1>24, <1>25, <1>26 DEF MemInv

\* The entries after an INSERT.
LEMMA InsertEntries ==
  ASSUME TypeInv, NEW s \in Session, TypedInv(s), pc[s] \in Having,
         NEW e \in Entry, e.ptr \in Ptr, NEW f \in Entry, f.rev > 0, Insert(s, e, f)
  PROVE  \E t \in [Id -> Row \union {NULL}], n \in Nat, more \in SUBSET Entry :
            /\ Execute(s, t, n) /\ Inserted(s, e, f, t, more) /\ MoreIn(s, e, more)
            /\ entries'[s] = Replace(s, e, f) \union more
<1>1. PICK t \in [Id -> Row \union {NULL}], n \in Nat, more \in SUBSET Entry :
            /\ Execute(s, t, n) /\ Inserted(s, e, f, t, more)
            /\ entries' = [entries EXCEPT ![s] = Replace(s, e, f) \union more]
  BY InsertFacts
<1>2. entries'[s] = Replace(s, e, f) \union more BY <1>1 DEF TypeInv, TypeOK
<1>3. MoreIn(s, e, more) BY <1>1 DEF Inserted, MoreIn
<1> QED BY <1>1, <1>2, <1>3

\* What PersistNew does.
LEMMA NewFacts ==
  ASSUME TypeInv, NEW s \in Session, MemInv(s), NEW e \in ToVisit(s), PersistNew(s, e)
  PROVE  \E f \in Entry, t \in [Id -> Row \union {NULL}], n \in Nat, more \in SUBSET Entry :
            /\ Successor(e, f) /\ f.key \in Id \ Keyless /\ f.rev = 1 /\ e.state = "NEW"
            /\ e.ptr \in Ptr /\ e.filed > 0 /\ e \in entries[s]
            /\ Execute(s, t, n) /\ Inserted(s, e, f, t, more) /\ MoreIn(s, e, more)
            /\ entries'[s] = Replace(s, e, f) \union more
<1>1. pc[s] \in Having /\ TypedInv(s) /\ RemovedInv(s)
  BY DEF PersistNew, Persist, Having, Writing, MemInv
<1>2. /\ e \in entries[s] /\ e \in Entry /\ e.filed > 0
      /\ e.ptr = NULL => e.state = "REMOVED"
      /\ e.state = "NEW"
  BY <1>1, VisitFacts DEF PersistNew
<1>3. PICK k \in Id \ Keyless :
         TypeOf[k] = TypeOf[e.ptr] /\ Insert(s, e, [Visited(e) EXCEPT !.key = k, !.rev = 1])
  BY DEF PersistNew
<1>4. PICK f : f = [Visited(e) EXCEPT !.key = k, !.rev = 1] OBVIOUS
<1>5. /\ f \in Entry /\ f.key = k /\ f.rev = 1 /\ f.filed = e.filed - 1
      /\ f.ptr = e.ptr /\ f.state = e.state /\ f.reached = e.reached
      /\ f.typed = e.typed
  BY <1>2, <1>4, StoredNew
<1>6. Successor(e, f) BY <1>2, <1>3, <1>5 DEF Successor
<1>7. e.ptr \in Ptr BY <1>2, EntryFields
<1>8. Insert(s, e, f) /\ f.rev > 0 BY <1>3, <1>4, <1>5
<1>9. PICK t \in [Id -> Row \union {NULL}], n \in Nat, more \in SUBSET Entry :
            /\ Execute(s, t, n) /\ Inserted(s, e, f, t, more) /\ MoreIn(s, e, more)
            /\ entries'[s] = Replace(s, e, f) \union more
  BY <1>1, <1>2, <1>5, <1>7, <1>8, InsertEntries
<1>10. f.key \in Id \ Keyless BY <1>5
<1> QED BY <1>2, <1>5, <1>6, <1>7, <1>9, <1>10

\* What InsertModified does.
LEMMA ModifiedFacts ==
  ASSUME TypeInv, NEW s \in Session, MemInv(s), InsertModified(s)
  PROVE  \E e \in entries[s], f \in Entry, t \in [Id -> Row \union {NULL}], n \in Nat,
            more \in SUBSET Entry :
            /\ e = current[s] /\ Successor(e, f) /\ f.key = e.key /\ f.rev = e.rev + 1
            /\ e.state = "MODIFIED" /\ Verdict(e) = "MODIFIED" /\ e.ptr \in Ptr /\ e.filed > 0
            /\ Execute(s, t, n) /\ Inserted(s, e, f, t, more) /\ MoreIn(s, e, more)
            /\ entries'[s] = Replace(s, e, f) \union more
<1>1. PICK e : e = current[s] OBVIOUS
<1>2. PICK f : f = [Visited(e) EXCEPT !.rev = NextRevision(e)] OBVIOUS
<1>3. Insert(s, e, f) /\ pc[s] = "insert" BY <1>1, <1>2 DEF InsertModified
<1>4. /\ TypedInv(s) /\ pc[s] \in Having /\ e \in entries[s] /\ e.filed > 0
      /\ e.ptr # NULL /\ e.state = "MODIFIED" /\ Verdict(e) = "MODIFIED"
  BY <1>1, <1>3 DEF MemInv, CurrentInv, Visiting, Having, Writing
<1>5. e \in Entry BY <1>4 DEF TypeInv, TypeOK
<1>6. /\ f \in Entry /\ f.key = e.key /\ f.rev = e.rev + 1 /\ f.filed = e.filed - 1
      /\ f.ptr = e.ptr /\ f.state = e.state /\ f.reached = e.reached
      /\ f.typed = e.typed
  BY <1>2, <1>4, <1>5, StoredModified
<1>7. e.ptr \in Ptr /\ e.rev \in Nat BY <1>4, <1>5, EntryFields
<1>8. Successor(e, f) BY <1>4, <1>6 DEF Successor
<1>9. f.rev > 0 BY <1>6, <1>7
<1>10. PICK t \in [Id -> Row \union {NULL}], n \in Nat, more \in SUBSET Entry :
            /\ Execute(s, t, n) /\ Inserted(s, e, f, t, more) /\ MoreIn(s, e, more)
            /\ entries'[s] = Replace(s, e, f) \union more
  BY <1>3, <1>4, <1>5, <1>6, <1>7, <1>9, InsertEntries
<1> QED BY <1>1, <1>4, <1>6, <1>7, <1>8, <1>10

\* A new object is inserted.
LEMMA NewMem ==
  ASSUME TypeInv, NEW s \in Session, MemInv(s), NEW e \in ToVisit(s), PersistNew(s, e)
  PROVE  MemInv(s)'
<1>1. PICK f \in Entry, t \in [Id -> Row \union {NULL}], n \in Nat, more \in SUBSET Entry :
            /\ Successor(e, f) /\ f.key \in Id \ Keyless /\ f.rev = 1 /\ e.state = "NEW"
            /\ e.ptr \in Ptr /\ e.filed > 0 /\ e \in entries[s]
            /\ Execute(s, t, n) /\ Inserted(s, e, f, t, more) /\ MoreIn(s, e, more)
            /\ entries'[s] = Replace(s, e, f) \union more
  BY NewFacts
<1>2. /\ setup' = setup /\ at' = at /\ unknown' = unknown /\ master' = master
      /\ data' = data /\ disordered' = disordered /\ seen' = seen /\ asked' = asked
      /\ late' = late /\ pc[s] \in Writing /\ pc'[s] = "persist"
  BY DEF PersistNew, Persist, trace, Writing
<1>3. e.ptr # NULL BY <1>1, DbAssumption
<1> QED BY <1>1, <1>2, <1>3, InsertMem

\* An object that was modified is inserted.
LEMMA ModifiedMem ==
  ASSUME TypeInv, NEW s \in Session, MemInv(s), InsertModified(s)
  PROVE  MemInv(s)'
<1>1. PICK e \in entries[s], f \in Entry, t \in [Id -> Row \union {NULL}], n \in Nat,
            more \in SUBSET Entry :
            /\ e = current[s] /\ Successor(e, f) /\ f.key = e.key /\ f.rev = e.rev + 1
            /\ e.state = "MODIFIED" /\ Verdict(e) = "MODIFIED" /\ e.ptr \in Ptr /\ e.filed > 0
            /\ Execute(s, t, n) /\ Inserted(s, e, f, t, more) /\ MoreIn(s, e, more)
            /\ entries'[s] = Replace(s, e, f) \union more
  BY ModifiedFacts
<1>2. /\ setup' = setup /\ at' = at /\ unknown' = unknown /\ master' = master
      /\ data' = data /\ disordered' = disordered /\ seen' = seen /\ asked' = asked
      /\ late' = late /\ pc[s] \in Writing /\ pc'[s] = "persist"
  BY DEF InsertModified, trace, Writing, TypeInv, TypeOK
<1>3. e.ptr # NULL BY <1>1, DbAssumption
<1> QED BY <1>1, <1>2, <1>3, InsertMem

\* The delete before the insert, and the end of the visits, change no entry.
LEMMA GoOnMem ==
  ASSUME TypeInv, NEW s \in Session, MemInv(s),
         (\E e \in ToVisit(s) : PersistModified(s, e)) \/ EndPersist(s)
  PROVE  MemInv(s)'
<1>1. /\ setup' = setup /\ at' = at /\ entries' = entries /\ unknown' = unknown
      /\ master' = master /\ data' = data /\ disordered' = disordered /\ seen' = seen
      /\ asked' = asked /\ late' = late /\ pc[s] = "persist"
      /\ \/ pc'[s] = "commit" /\ ToVisit(s) = {}
         \/ pc'[s] = "insert" /\ \E e \in ToVisit(s) : /\ current'[s] = e /\ e.typed
                                          /\ Verdict(e) = "MODIFIED" /\ e.ptr # NULL
  BY DEF PersistModified, Persist, EndPersist, memory, trace, TypeInv, TypeOK
<1>2. /\ pc[s] \in Writing /\ pc'[s] \in Writing /\ pc[s] \in Having /\ pc'[s] \in Having
      /\ pc'[s] \notin {"fetch", "have"}
  BY <1>1 DEF Writing, Having
<1>3. (Ordered' <=> Ordered) /\ late'[s] = late[s] /\ Fetched(s)' = Fetched(s)
      /\ Loaded(s)' = Loaded(s)
  BY <1>1 DEF Ordered, Fetched, Loaded
<1>4. SeenInv(s)' /\ FetchingInv(s)' /\ EarlyInv(s)' /\ AwaitedInv(s)' /\ RemovedInv(s)'
  BY <1>1, <1>2, <1>3 DEF MemInv, SeenInv, FetchingInv, EarlyInv, AwaitedInv, RemovedInv
<1>5. OriginInv(s)' BY <1>1, <1>3 DEF MemInv, OriginInv, IsRow
<1>6. TypedInv(s)' BY <1>1, <1>2 DEF MemInv, TypedInv
<1>7. CurrentInv(s)' BY <1>1, VisitFacts DEF MemInv, CurrentInv, Visiting, Verdict
<1>8. OnceInv(s)' BY <1>1, <1>2, <1>3 DEF MemInv, OnceInv
<1>9. InOrderInv(s)' BY <1>1, <1>2, <1>3 DEF MemInv, InOrderInv
<1>10. ReachedInv(s)' BY <1>1, <1>2, <1>3 DEF MemInv, ReachedInv, Kept
<1>11. DoneInv(s)' BY <1>1 DEF DoneInv, ToVisit, Verdict
<1> QED
  BY <1>4, <1>5, <1>6, <1>7, <1>8, <1>9, <1>10, <1>11 DEF MemInv

\* An entry that is not to be visited any more.
Dismissed(e) == [e EXCEPT !.filed = 0]

\* A failed removal ends the visits.
LEMMA CheckMem ==
  ASSUME TypeInv, NEW s \in Session, MemInv(s), CheckRemoved(s) PROVE MemInv(s)'
<1>1. /\ setup' = setup /\ at' = at /\ unknown' = unknown /\ master' = master
      /\ data' = data /\ disordered' = disordered /\ seen' = seen /\ asked' = asked
      /\ late' = late /\ pc[s] = "removed" /\ pc'[s] = "persist"
      /\ \/ entries'[s] = entries[s]
         \/ entries'[s] = {Dismissed(e) : e \in entries[s]}
  BY DEF CheckRemoved, AfterFailedRemoval, trace, TypeInv, TypeOK, Dismissed
<1>2. /\ pc[s] \in Writing /\ pc'[s] \in Writing /\ pc[s] \in Having /\ pc'[s] \in Having
      /\ pc'[s] \notin {"fetch", "have", "insert"}
  BY <1>1 DEF Writing, Having
<1>3. (Ordered' <=> Ordered) /\ late'[s] = late[s] /\ Fetched(s)' = Fetched(s)
  BY <1>1 DEF Ordered, Fetched
<1>4. ASSUME NEW e \in entries[s]
      PROVE  LET f == Dismissed(e)
             IN  /\ f.ptr = e.ptr /\ f.key = e.key /\ f.rev = e.rev /\ f.state = e.state
                 /\ f.reached = e.reached /\ f.filed = 0
  <2>1. e \in Entry BY DEF TypeInv, TypeOK
  <2> QED BY <2>1 DEF Entry, Dismissed
<1>5. \A f \in entries'[s] : \E e \in entries[s] :
         /\ f = e \/ f = Dismissed(e)
         /\ f.ptr = e.ptr /\ f.key = e.key /\ f.rev = e.rev /\ f.state = e.state
         /\ f.reached = e.reached /\ (f.filed = e.filed \/ f.filed = 0)
  BY <1>1, <1>4
<1>6. ASSUME NEW f \in entries'[s], NEW g \in entries'[s], f # g
      PROVE  \E d, e \in entries[s] : /\ d # e
                /\ f.ptr = d.ptr /\ f.key = d.key /\ f.state = d.state /\ f.reached = d.reached
                /\ g.ptr = e.ptr /\ g.key = e.key /\ g.state = e.state /\ g.reached = e.reached
  BY <1>1, <1>4, <1>6
<1>7. Loaded(s)' = Loaded(s)
  <2>1. \A e \in entries[s] : \E f \in entries'[s] : f.ptr = e.ptr BY <1>1, <1>4
  <2> QED BY <1>5, <2>1 DEF Loaded
<1>20. SeenInv(s)' /\ FetchingInv(s)' /\ EarlyInv(s)' /\ AwaitedInv(s)' /\ CurrentInv(s)'
       /\ DoneInv(s)'
  BY <1>1, <1>2, <1>3
     DEF MemInv, SeenInv, FetchingInv, EarlyInv, AwaitedInv, CurrentInv, DoneInv
<1>21. OriginInv(s)'
  <2>1. ASSUME NEW f, NEW e \in entries[s],
               f.ptr = e.ptr, f.key = e.key, f.rev = e.rev, f.state = e.state,
               f.filed = e.filed \/ f.filed = 0
        PROVE  IsNew(f) \/ IsKeyless(f) \/ IsRow(s, f)'
    <3>1. CASE IsNew(e) BY <2>1, <3>1 DEF IsNew
    <3>2. CASE IsKeyless(e) BY <2>1, <3>2 DEF IsKeyless
    <3>3. CASE IsRow(s, e) BY <1>1, <1>3, <2>1, <3>3 DEF IsRow
    <3> QED BY <3>1, <3>2, <3>3 DEF MemInv, OriginInv
  <2> QED BY <1>5, <2>1 DEF OriginInv
<1>22. TypedInv(s)'
  <2>1. \A f \in entries'[s] : f.ptr # NULL /\ f.key \in Id => TypeOf[f.key] = TypeOf[f.ptr]
    BY <1>5 DEF MemInv, TypedInv
  <2> QED BY <1>1, <1>2, <2>1 DEF MemInv, TypedInv
<1>23. RemovedInv(s)' BY <1>1, <1>3, <1>5 DEF MemInv, RemovedInv
<1>24. OnceInv(s)'
  <2>1. ASSUME ~late[s], NEW f \in entries'[s], NEW g \in entries'[s],
               f.state # "NEW", g.state # "NEW", f.key = g.key, f.key \notin Keyless, f # g
        PROVE  FALSE
    BY <1>6, <2>1 DEF MemInv, OnceInv
  <2> QED BY <1>2, <1>3, <2>1 DEF OnceInv
<1>25. InOrderInv(s)'
  <2>1. ASSUME ~disordered[s], NEW f \in entries'[s], NEW g \in entries'[s],
               f.ptr = g.ptr, f # g
        PROVE  FALSE
    BY <1>6, <2>1 DEF MemInv, InOrderInv
  <2>2. ~disordered[s] => \A f \in entries'[s] : f.state = "NEW" => f.ptr \in Fresh
    BY <1>5 DEF MemInv, InOrderInv
  <2> QED BY <1>1, <1>2, <1>7, <2>1, <2>2 DEF MemInv, InOrderInv
<1>26. ReachedInv(s)'
  <2>1. ASSUME NEW f \in entries'[s], NEW g \in entries'[s], f.reached, g.reached,
               f.ptr = g.ptr, f.ptr # NULL, f # g
        PROVE  FALSE
    BY <1>6, <2>1 DEF MemInv, ReachedInv
  <2>2. \A p : Kept(s, p)' <=> Kept(s, p) BY <1>1 DEF Kept
  <2>3. ~late[s] => \A f \in entries'[s] :
           f.ptr # NULL /\ f.state # "NEW" /\ Kept(s, f.ptr) => f.reached
    BY <1>2, <1>5 DEF MemInv, ReachedInv
  <2> QED BY <1>3, <2>1, <2>2, <2>3 DEF ReachedInv
<1> QED BY <1>20, <1>21, <1>22, <1>23, <1>24, <1>25, <1>26 DEF MemInv

\* Every step keeps what holds of the memory of a session.
LEMMA MemNext ==
  ASSUME TypeInv, TablesInv, \A s \in Session : MemInv(s), [Next]_vars,
         NEW t \in Session
  PROVE  MemInv(t)'
<1>1. CASE UNCHANGED vars
  BY <1>1, MemoryKept DEF vars, store, memory, trace, Locals
<1>2. ASSUME NEW c, Die(c) PROVE MemInv(t)' BY <1>2, DeathMem
<1>3. ASSUME NEW s \in Session, SessionStep(s) \/ (CommitStep(s) /\ ~NoDefinition(s)), t # s
      PROVE  MemInv(t)'
  <2>1. setup' = setup BY <1>3, SetupKept DEF Next
  <2>2. UNCHANGED Locals(t) BY <1>3, OthersKept
  <2> QED BY <2>1, <2>2, MemoryKept
<1>4. ASSUME SessionStep(t) PROVE MemInv(t)'
  <2>1. CASE OpenSession(t) \/ CloseSession(t) \/ Fetch(t)
    BY <2>1, ForgetMem DEF OpenSession, CloseSession, Fetch
  <2>2. CASE FetchObject(t) \/ Resolve(t) \/ Commit(t)
    BY <2>2, FetchMem, ResolveMem, CommitMem
  <2>3. CASE \/ \E p \in Held(t) : (\E n : Change(t, p, n)) \/ Delete(t, p) \/ Unlink(t, p)
             \/ \E p, q \in Held(t) : Link(t, p, q)
             \/ \E p \in Fresh, n \in Name \union {NULL} : Create(t, p, n)
    BY <2>3, ApplicationsMem
  <2> QED BY <1>4, <2>1, <2>2, <2>3 DEF SessionStep
<1>5. ASSUME CommitStep(t), ~NoDefinition(t) PROVE MemInv(t)'
  <2>1. CASE EndCommit(t) BY <2>1, ForgetMem DEF EndCommit
  <2> QED BY <1>5, <2>1, NewMem, ModifiedMem, RemoveMem, GoOnMem, CheckMem DEF CommitStep
<1> QED BY <1>1, <1>2, <1>3, <1>4, <1>5 DEF Next, Crash, NoDefinition
-----------------------------------------------------------------------------
(* The tables.                                                             *)

\* The row that is written is one, and what is in it.
LEMMA RowOfFields ==
  ASSUME TypeInv, NEW s \in Session, NEW e \in entries[s], e.ptr \in Ptr, NEW f, Successor(e, f),
         NEW ref \in Id \union {NULL, Zero}
  PROVE  LET row == RowOf(s, e, f, ref)
         IN  /\ row \in Row /\ row.rev = f.rev /\ row.ref = ref
             /\ row.val = data[s][e.ptr].val /\ row.name = data[s][e.ptr].name
<1>1. f.rev \in Nat \ {0}
  <2>1. e \in Entry BY DEF TypeInv, TypeOK
  <2>2. e.rev \in Nat BY <2>1, EntryFields
  <2>3. f.rev = 1 \/ f.rev = e.rev + 1 BY DEF Successor
  <2> QED BY <2>2, <2>3
<1>2. PICK v \in Session \union {NULL}, n \in Name \union {NULL} :
         v = data[s][e.ptr].val /\ n = data[s][e.ptr].name
  <2>1. data[s][e.ptr] \in Object BY DEF TypeInv, TypeOK
  <2> QED BY <2>1 DEF Object
<1>3. RowOf(s, e, f, ref) = [rev |-> f.rev, val |-> v, name |-> n, ref |-> ref]
  BY <1>2 DEF RowOf
<1> QED BY <1>1, <1>2, <1>3 DEF Row

\* The row that an INSERT writes, with a reference to the right definition.
LEMMA InsertedTyped ==
  ASSUME TypeInv, TablesInv, NEW s \in Session, MemInv(s),
         NEW e \in entries[s], e.ptr \in Ptr, NEW f, Successor(e, f), NEW more,
         NEW t \in [Id -> Row \union {NULL}], Inserted(s, e, f, t, more)
  PROVE  \A i \in Id : t[i] = NULL \/ RefTyped(i, t[i])
<1>1. \A i \in Id : View(s)[i] = NULL \/ RefTyped(i, View(s)[i])
  BY DEF View, TablesInv
<1>2. View(s) \in [Id -> Row \union {NULL}] BY ViewType
<1>3. f \in Entry /\ (f.key \in Id => TypeOf[f.key] = TypeOf[e.ptr])
  <2>1. e.ptr # NULL BY DbAssumption
  <2> QED BY <2>1 DEF Successor, MemInv, TypedInv
<1>4. \A p \in Ptr : data[s][e.ptr].ref = p => TypeOf[p] = RefType[TypeOf[e.ptr]]
  BY DEF MemInv, TypedInv
<1>5. ASSUME NEW ref, ref \in Id \union {NULL, Zero},
             ref \in {NULL, Zero} \/ TypeOf[ref] = Column(TypeOf[e.ptr]),
             t = InsertOrReplace(s, f.key, RowOf(s, e, f, ref))
      PROVE  \A i \in Id : t[i] = NULL \/ RefTyped(i, t[i])
  <2>1. PICK row : row = RowOf(s, e, f, ref) OBVIOUS
  <2>2. row \in Row /\ row.ref = ref BY <1>5, <2>1, RowOfFields
  <2>3. /\ f.key \in Id => t[f.key] = row
        /\ \A i \in Id : i # f.key => t[i] = View(s)[i] \/ t[i] = NULL
    BY <1>5, <2>1, <2>2, ReplaceFacts
  <2>4. f.key \in Id => RefTyped(f.key, row) BY <1>3, <1>5, <2>2 DEF RefTyped
  <2> QED BY <1>1, <2>3, <2>4
<1>6. ASSUME NEW p \in Ptr, data[s][e.ptr].ref = p
      PROVE  TypeOf[p] = Column(TypeOf[e.ptr])
  <2>1. TypeOf[p] = RefType[TypeOf[e.ptr]] BY <1>4, <1>6
  <2>2. TypeOf[p] # NULL BY DbAssumption
  <2> QED BY <2>1, <2>2 DEF Column
<1>7. ASSUME NEW g \in entries[s], g.ptr \in Ptr, data[s][e.ptr].ref = g.ptr,
             NEW ref, ref = IF g = e THEN f.key ELSE g.key
      PROVE  /\ ref \in Id \union {NULL, Zero}
             /\ ref \in {NULL, Zero} \/ TypeOf[ref] = Column(TypeOf[e.ptr])
  <2>1. g \in Entry BY DEF TypeInv, TypeOK
  <2>2. TypeOf[g.ptr] = Column(TypeOf[e.ptr]) /\ g.ptr # NULL BY <1>6, <1>7, DbAssumption
  <2>3. CASE g = e BY <1>3, <1>7, <2>2, <2>3, EntryFields
  <2>4. CASE g # e BY <1>7, <2>1, <2>2, <2>4, EntryFields DEF MemInv, TypedInv
  <2> QED BY <2>3, <2>4
<1>9. \/ t = View(s)
      \/ \E ref : /\ ref \in Id \union {NULL, Zero}
                  /\ ref \in {NULL, Zero} \/ TypeOf[ref] = Column(TypeOf[e.ptr])
                  /\ t = InsertOrReplace(s, f.key, RowOf(s, e, f, ref))
  BY <1>7 DEF Inserted
<1> QED BY <1>1, <1>5, <1>9

\* A statement of session s, inside its transaction.
Stated(s, t) == /\ work' = t /\ writer' = Conn(s) /\ rows' = rows
                /\ tx' = tx /\ WriteLock(s) /\ setup' = setup

\* What a commit does to the tables.
LEMMA Statements ==
  ASSUME TypeInv, TxInv, Alone, NEW s \in Session, MemInv(s), CommitStep(s),
         ~NoDefinition(s), ~EndCommit(s)
  PROVE  \/ UNCHANGED <<rows, work, writer, tx>>
         \/ \E t : Stated(s, t)
<1>1. setup' = setup BY SetupKept DEF Next
<1>2. ASSUME NEW t, NEW n, Execute(s, t, n), WriteLock(s), pc[s] \in Writing
      PROVE  Stated(s, t)
  BY <1>1, <1>2 DEF Execute, TxInv, InTransaction, Stated
<1>3. ASSUME NEW e \in ToVisit(s), PersistNew(s, e) PROVE \E t : Stated(s, t)
  <2>1. PICK t, n : Execute(s, t, n) BY <1>3, NewFacts
  <2> QED BY <1>2, <1>3, <2>1 DEF PersistNew, Persist, Writing
<1>4. ASSUME NEW e \in ToVisit(s), PersistModified(s, e) \/ PersistRemoved(s, e)
      PROVE  \E t : Stated(s, t)
  <2>1. PICK t, n : Execute(s, t, n)
    BY <1>4 DEF PersistModified, PersistRemoved, DeleteRow
  <2> QED BY <1>2, <1>4, <2>1 DEF PersistModified, PersistRemoved, Persist, Writing
<1>5. ASSUME InsertModified(s) PROVE \E t : Stated(s, t)
  <2>1. PICK t, n : Execute(s, t, n) BY <1>5, ModifiedFacts
  <2> QED BY <1>2, <1>5, <2>1 DEF InsertModified, Writing
<1>6. CASE CheckRemoved(s) \/ EndPersist(s)
  BY <1>6 DEF CheckRemoved, EndPersist, store
<1> QED BY <1>3, <1>4, <1>5, <1>6 DEF CommitStep

\* The references in the tables are to rows of the right definition.
LEMMA TablesNext ==
  ASSUME TypeInv, TablesInv, \A s \in Session : MemInv(s), [Next]_vars PROVE TablesInv'
<1>1. ASSUME NEW t, \A i \in Id : t[i] = NULL \/ RefTyped(i, t[i]), NEW s, NEW n,
             Execute(s, t, n)
      PROVE  TablesInv'
  BY <1>1 DEF Execute, TablesInv
<1>2. CASE UNCHANGED vars BY <1>2 DEF vars, store, TablesInv
<1>3. ASSUME NEW c, Die(c) PROVE TablesInv'
  <2>1. rows' = rows /\ (work' = work \/ work' = rows) BY <1>3 DEF Die
  <2> QED BY <2>1 DEF TablesInv
<1>4. ASSUME NEW s \in Session, SessionStep(s) PROVE TablesInv'
  <2>1. rows' = rows /\ work' = work
    BY <1>4 DEF SessionStep, OpenSession, CloseSession, Fetch, FetchObject, Resolve,
       Change, Delete, Unlink, Link, Create, Application, Commit, store
  <2> QED BY <2>1 DEF TablesInv
<1>5. ASSUME NEW s \in Session, CommitStep(s) PROVE TablesInv'
  <2>1. ASSUME NEW e \in ToVisit(s), PersistNew(s, e) PROVE TablesInv'
    <3>1. PICK f \in Entry, t \in [Id -> Row \union {NULL}], n \in Nat, more \in SUBSET Entry :
            /\ Successor(e, f) /\ f.key \in Id \ Keyless /\ f.rev = 1 /\ e.state = "NEW"
            /\ e.ptr \in Ptr /\ e.filed > 0 /\ e \in entries[s]
            /\ Execute(s, t, n) /\ Inserted(s, e, f, t, more) /\ MoreIn(s, e, more)
            /\ entries'[s] = Replace(s, e, f) \union more
      BY <2>1, NewFacts
    <3>2. \A i \in Id : t[i] = NULL \/ RefTyped(i, t[i]) BY <3>1, InsertedTyped
    <3> QED BY <1>1, <3>1, <3>2
  <2>2. ASSUME InsertModified(s) PROVE TablesInv'
    <3>1. PICK e \in entries[s], f \in Entry, t \in [Id -> Row \union {NULL}], n \in Nat,
            more \in SUBSET Entry :
            /\ e = current[s] /\ Successor(e, f) /\ f.key = e.key /\ f.rev = e.rev + 1
            /\ e.state = "MODIFIED" /\ Verdict(e) = "MODIFIED" /\ e.ptr \in Ptr /\ e.filed > 0
            /\ Execute(s, t, n) /\ Inserted(s, e, f, t, more) /\ MoreIn(s, e, more)
            /\ entries'[s] = Replace(s, e, f) \union more
      BY <2>2, ModifiedFacts
    <3>2. \A i \in Id : t[i] = NULL \/ RefTyped(i, t[i]) BY <3>1, InsertedTyped
    <3> QED BY <1>1, <3>1, <3>2
  <2>3. ASSUME NEW e \in ToVisit(s), PersistModified(s, e) \/ PersistRemoved(s, e)
        PROVE  TablesInv'
    <3>1. e \in Entry BY VisitFacts DEF MemInv
    <3>2. PICK t \in [Id -> Row \union {NULL}], n \in Nat :
            /\ Execute(s, t, n)
            /\ t = IF Matches(s, e) THEN [View(s) EXCEPT ![e.key] = NULL] ELSE View(s)
      BY <2>3, <3>1, DeleteFacts DEF PersistModified, PersistRemoved
    <3>3. \A i \in Id : t[i] = NULL \/ RefTyped(i, t[i])
      <4>1. \A i \in Id : t[i] = NULL \/ t[i] = View(s)[i]
        BY <3>2, ViewType
      <4> QED BY <4>1 DEF View, TablesInv
    <3> QED BY <1>1, <3>2, <3>3
  <2>4. ASSUME CheckRemoved(s) \/ EndPersist(s) \/ EndCommit(s) PROVE TablesInv'
    <3>1. work' = work /\ (rows' = rows \/ rows' = work)
      BY <2>4 DEF CheckRemoved, EndPersist, EndCommit, End, store
    <3> QED BY <3>1 DEF TablesInv
  <2> QED BY <1>3, <1>5, <2>1, <2>2, <2>3, <2>4 DEF CommitStep, NoDefinition
<1> QED BY <1>2, <1>3, <1>4, <1>5 DEF Next, Crash

\* A session that has a connection of its own is inside a transaction only
\* while it writes.
LEMMA IdlingNext ==
  ASSUME TypeInv, TxInv, Idling, \A s \in Session : MemInv(s), [Next]_vars PROVE Idling'
<1>1. CASE UNCHANGED vars BY <1>1, AloneKept DEF vars, store, Idling, Conn
<1>2. ASSUME NEW c, Die(c) PROVE Idling'
  <2>1. setup' = setup /\ tx' = tx \ {c} BY <1>2 DEF Die
  <2>2. \A s \in Session : setup.conn[s] # c => pc'[s] = pc[s] BY <1>2 DEF Die
  <2> QED BY <2>1, <2>2, AloneKept DEF Idling, Conn
<1>3. ASSUME NEW s \in Session, SessionStep(s) \/ (CommitStep(s) /\ ~NoDefinition(s))
      PROVE  Idling'
  <2>1. setup' = setup BY <1>3, SetupKept DEF Next
  <2>2. \A t \in Session : t # s => pc'[t] = pc[t] BY <1>3, OthersKept DEF Locals
  <2>3. ASSUME Alone, Conn(s) \in tx' PROVE pc'[s] \in Writing
    <3>1. CASE SessionStep(s)
      <4>1. CASE Commit(s) BY <4>1 DEF Commit, Writing, TypeInv, TypeOK
      <4>2. CASE ~Commit(s)
        <5>1. /\ tx' = tx /\ pc[s] \notin Writing
          BY <3>1, <4>2 DEF SessionStep, OpenSession, CloseSession, Fetch, FetchObject,
             Resolve, Change, Delete, Unlink, Link, Create, Application, store, Writing
        <5> QED BY <2>3, <5>1 DEF Idling
      <4> QED BY <4>1, <4>2
    <3>2. CASE EndCommit(s)
      <4>1. tx' = tx \ {Conn(s)} BY <3>2 DEF EndCommit, End
      <4> QED BY <2>3, <4>1
    <3>3. CASE CommitStep(s) /\ ~EndCommit(s) /\ ~NoDefinition(s)
      BY <3>3 DEF CommitStep, PersistNew, PersistModified, PersistRemoved, Persist,
         InsertModified, CheckRemoved, AfterFailedRemoval, EndPersist, Writing, TypeInv, TypeOK
    <3> QED BY <1>3, <3>1, <3>2, <3>3
  <2>4. ASSUME Alone, NEW t \in Session, t # s, Conn(t) \in tx' PROVE Conn(t) \in tx
    <3>1. tx' \subseteq tx \union {Conn(s)}
      <4>1. CASE SessionStep(s)
        BY <4>1 DEF SessionStep, OpenSession, CloseSession, Fetch, FetchObject,
             Resolve, Change, Delete, Unlink, Link, Create, Application, store, Commit, Begin
      <4>2. CASE EndCommit(s) BY <4>2 DEF EndCommit, End
      <4>3. CASE CommitStep(s) /\ ~EndCommit(s) /\ ~NoDefinition(s)
        BY <2>4, <4>3, Statements DEF Stated
      <4> QED BY <1>3, <4>1, <4>2, <4>3
    <3>2. Conn(t) # Conn(s) BY <2>4 DEF Alone, Conn
    <3> QED BY <2>4, <3>1, <3>2
  <2>5. \A t : Conn(t)' = Conn(t) BY <2>1 DEF Conn
  <2> QED BY <2>1, <2>2, <2>3, <2>4, <2>5, AloneKept DEF Idling
<1> QED BY <1>1, <1>2, <1>3 DEF Next, Crash, NoDefinition
-----------------------------------------------------------------------------
(* What a commit has done so far, seen from its session and from others.   *)

\* Nobody else can write while a session does, and what becomes of the tables
\* while it has not written is no concern of it.
LEMMA StoreOfOther ==
  ASSUME NEW u \in Session, StoreInv(u), setup' = setup, UNCHANGED Locals(u),
         \/ writer = Conn(u) /\ UNCHANGED <<rows, work, writer>>
         \/ writer # Conn(u) /\ writer' # Conn(u)
  PROVE  StoreInv(u)'
<1>1. /\ pc'[u] = pc[u] /\ entries'[u] = entries[u] /\ master'[u] = master[u]
      /\ data'[u] = data[u] /\ disordered'[u] = disordered[u] /\ current'[u] = current[u]
      /\ stopped'[u] = stopped[u] /\ seen'[u] = seen[u] /\ asked'[u] = asked[u]
      /\ late'[u] = late[u]
  BY DEF Locals
<1>2. Conn(u)' = Conn(u) /\ (Alone' <=> Alone) BY AloneKept DEF Conn
<1>3. CASE writer = Conn(u) /\ UNCHANGED <<rows, work, writer>>
  <2>1. View(u)' = View(u) /\ Drawn(u)' = Drawn(u) BY <1>1, <1>2, <1>3 DEF View, Drawn
  <2>2. \A i : /\ Pending(u, i)' <=> Pending(u, i)
               /\ Unwanted(u, i)' <=> Unwanted(u, i)
    BY <1>1 DEF Pending, Unwanted, Kept, LostReference
  <2>3. \A e : /\ Written(u, e)' <=> Written(u, e)
               /\ LostReference(u, e.ptr)' <=> LostReference(u, e.ptr)
               /\ Shared(u, e)' <=> Shared(u, e)
    BY <1>1, <2>1 DEF Written, LostReference, Shared
  <2>4. \A e : Wrote(u, e)' <=> Wrote(u, e)
    BY <1>1, <2>3 DEF Wrote, Verdict
  <2>5. /\ \A e : Outnamed(u, e)' <=> Outnamed(u, e)
        /\ \A k, t, n : Puts(u, k, t, n)' <=> Puts(u, k, t, n)
    BY <1>1, <2>4 DEF Outnamed, Puts
  <2>6. \A i : Taken(u, i)' <=> Taken(u, i) BY <1>3, <2>5 DEF Taken
  <2>7. GrowInv(u)' BY <1>1, <1>2, <1>3, <2>1 DEF StoreInv, GrowInv
  <2>8. ChangedInv(u)' BY <1>1, <1>2, <1>3, <2>1, <2>2 DEF StoreInv, ChangedInv
  <2>9. NamedInv(u)' BY <1>1, <1>2, <1>3, <2>1, <2>5 DEF StoreInv, NamedInv
  <2>10. GoneInv(u)' BY <1>1, <1>2, <1>3, <2>1, <2>2, <2>6 DEF StoreInv, GoneInv
  <2>11. WrittenInv(u)' BY <1>1, <1>2, <1>3, <2>3, <2>5 DEF StoreInv, WrittenInv
  <2> QED BY <2>7, <2>8, <2>9, <2>10, <2>11 DEF StoreInv
<1>4. CASE writer # Conn(u) /\ writer' # Conn(u)
  <2>1. View(u)' = rows' BY <1>2, <1>4 DEF View
  <2>2. GrowInv(u)' /\ ChangedInv(u)' /\ NamedInv(u)' /\ GoneInv(u)'
    BY <2>1 DEF GrowInv, ChangedInv, NamedInv, GoneInv
  <2>3. WrittenInv(u)' BY <1>1, <1>2, <1>4 DEF StoreInv, WrittenInv
  <2> QED BY <2>2, <2>3 DEF StoreInv
<1> QED BY <1>3, <1>4

\* A session that does not write has done nothing.
LEMMA StoreOfIdle ==
  ASSUME NEW u, pc'[u] \notin Writing PROVE StoreInv(u)'
BY DEF StoreInv, GrowInv, ChangedInv, NamedInv, GoneInv, WrittenInv

\* The begin of a commit.
LEMMA CommitStore ==
  ASSUME TypeInv, Idling, NEW s \in Session, MemInv(s), Commit(s) PROVE StoreInv(s)'
<1>1. /\ pc[s] = "have" /\ setup' = setup /\ rows' = rows /\ work' = work /\ writer' = writer
  BY DEF Commit
<1>2. pc[s] \notin Writing BY <1>1 DEF Writing
<1>3. ASSUME Alone' PROVE writer' # Conn(s)'
  <2>1. Conn(s) \notin tx BY <1>1, <1>2, <1>3, AloneKept DEF Idling
  <2>2. Conn(s) # NULL BY ViewType, DbAssumption
  <2> QED BY <1>1, <2>1, <2>2 DEF TypeInv, TypeOK, Conn
<1>4. Alone' => View(s)' = rows' BY <1>3 DEF View
<1>5. GrowInv(s)' /\ ChangedInv(s)' /\ NamedInv(s)' /\ GoneInv(s)'
  BY <1>4 DEF GrowInv, ChangedInv, NamedInv, GoneInv
<1>6. \A e \in entries'[s] : e.filed # 0
  <2>1. PICK found \in SUBSET entries[s], rest \in SUBSET Reachable(s) :
            entries'[s] = (entries[s] \ found) \union {Found(e) : e \in found}
                                                 \union {Anew(p) : p \in rest}
    BY CommitEntries
  <2>2. \A e \in entries[s] : e.filed # 0 /\ e \in Entry
    BY <1>2, EntryFields DEF MemInv, EarlyInv, TypeInv, TypeOK
  <2>3. \A e \in found : Found(e).filed # 0 BY <2>2, FoundFields DEF Same
  <2>4. \A p \in rest : Anew(p).filed # 0 BY DEF Anew, Unregistered
  <2> QED BY <2>1, <2>2, <2>3, <2>4
<1>7. WrittenInv(s)' BY <1>6 DEF WrittenInv
<1> QED BY <1>5, <1>7 DEF StoreInv

\* The row of the object that was inserted, and those that had its name.
LEMMA InsertedRow ==
  ASSUME TypeInv, NEW s \in Session, NEW e \in entries[s], e.ptr \in Ptr,
         NEW f, Successor(e, f), f.key \in Id, NEW more,
         NEW t \in [Id -> Row \union {NULL}], Inserted(s, e, f, t, more),
         entries'[s] = Replace(s, e, f) \union more
  PROVE  /\ \A i \in Id : i # f.key =>
               \/ t[i] = View(s)[i]
               \/ /\ t[i] = NULL /\ View(s)[i] # NULL /\ ~LostReference(s, e.ptr)
                  /\ TypeOf[i] = TypeOf[f.key] /\ TypeOf[i] \in Unique
                  /\ View(s)[i].name = data[s][e.ptr].name
         /\ \/ t = View(s) /\ LostReference(s, e.ptr)
            \/ /\ t[f.key] # NULL /\ t[f.key].rev = f.rev /\ ~LostReference(s, e.ptr)
               /\ t[f.key].val = data[s][e.ptr].val
               /\ t[f.key].name = data[s][e.ptr].name
               /\ \/ t[f.key].ref = data[s][e.ptr].ref
                  \/ \E g \in entries'[s] : g.ptr = data[s][e.ptr].ref
                                            /\ g.key # data[s][e.ptr].ref
<1>2. PICK p : p = data[s][e.ptr].ref OBVIOUS
<1>6. ASSUME NEW ref \in Id \union {NULL, Zero}, ~LostReference(s, e.ptr),
             t = InsertOrReplace(s, f.key, RowOf(s, e, f, ref))
      PROVE  /\ \A i \in Id : i # f.key =>
                   \/ t[i] = View(s)[i]
                   \/ /\ t[i] = NULL /\ View(s)[i] # NULL /\ ~LostReference(s, e.ptr)
                      /\ TypeOf[i] = TypeOf[f.key] /\ TypeOf[i] \in Unique
                      /\ View(s)[i].name = data[s][e.ptr].name
             /\ t[f.key] # NULL /\ t[f.key].rev = f.rev /\ t[f.key].ref = ref
             /\ t[f.key].val = data[s][e.ptr].val /\ t[f.key].name = data[s][e.ptr].name
  <2>1. PICK row : row = RowOf(s, e, f, ref) OBVIOUS
  <2>2. /\ row \in Row /\ row.rev = f.rev /\ row.ref = ref
        /\ row.val = data[s][e.ptr].val /\ row.name = data[s][e.ptr].name
    BY <2>1, RowOfFields
  <2>3. /\ t[f.key] = row
        /\ \A i \in Id : i # f.key =>
              \/ t[i] = View(s)[i]
              \/ t[i] = NULL /\ View(s)[i] # NULL /\ SameName(f.key, row, i, View(s)[i])
    BY <1>6, <2>1, <2>2, ReplaceFacts
  <2>4. row # NULL BY <2>2, RowFields
  <2> QED BY <1>6, <2>2, <2>3, <2>4 DEF SameName
<1>7. e \in entries[s] /\ f \in entries'[s] /\ f.ptr = e.ptr
  BY DEF Replace, Successor
<1>8. CASE p = NULL /\ LostReference(s, e.ptr) /\ t = View(s)
  BY <1>8
<1>9. CASE /\ p = NULL /\ ~LostReference(s, e.ptr)
           /\ t = InsertOrReplace(s, f.key, RowOf(s, e, f, NULL))
  BY <1>2, <1>6, <1>9
<1>10. CASE /\ p \in Ptr
            /\ t = InsertOrReplace(s, f.key, RowOf(s, e, f, Zero))
            /\ \E n \in {0, 1} : more = {Unregistered(p, FALSE, n)}
  <2>1. PICK n \in {0, 1} : more = {Unregistered(p, FALSE, n)} BY <1>10
  <2>2. PICK g : g = Unregistered(p, FALSE, n) OBVIOUS
  <2>3. g.ptr = p /\ g.key = Zero BY <2>2 DEF Unregistered
  <2>4. g \in entries'[s] /\ g.key # p BY <1>10, <2>1, <2>2, <2>3, DbAssumption
  <2>5. ~LostReference(s, e.ptr) BY <1>2, <1>10, DbAssumption DEF LostReference
  <2> QED BY <1>2, <1>6, <1>10, <2>3, <2>4, <2>5
<1>11. ASSUME NEW g \in entries[s], g.ptr = p, p \in Ptr,
              t = InsertOrReplace(s, f.key, RowOf(s, e, f, IF g = e THEN f.key ELSE g.key))
       PROVE  /\ \A i \in Id : i # f.key =>
                    \/ t[i] = View(s)[i]
                    \/ /\ t[i] = NULL /\ View(s)[i] # NULL /\ ~LostReference(s, e.ptr)
                       /\ TypeOf[i] = TypeOf[f.key] /\ TypeOf[i] \in Unique
                       /\ View(s)[i].name = data[s][e.ptr].name
              /\ t[f.key] # NULL /\ t[f.key].rev = f.rev /\ ~LostReference(s, e.ptr)
              /\ t[f.key].val = data[s][e.ptr].val /\ t[f.key].name = data[s][e.ptr].name
              /\ t[f.key].ref = p \/ \E h \in entries'[s] : h.ptr = p /\ h.key # p
  <2>1. PICK ref : ref = IF g = e THEN f.key ELSE g.key OBVIOUS
  <2>2. ref \in Id \union {NULL, Zero}
    <3>1. g \in Entry BY DEF TypeInv, TypeOK
    <3> QED BY <2>1, <3>1, EntryFields
  <2>3. t = InsertOrReplace(s, f.key, RowOf(s, e, f, ref)) BY <1>11, <2>1
  <2>4. PICK h : h = IF g = e THEN f ELSE g OBVIOUS
  <2>5. h \in entries'[s] /\ h.ptr = p /\ h.key = ref
    BY <1>7, <1>11, <2>1, <2>4 DEF Replace
  <2>6. ~LostReference(s, e.ptr) BY <1>2, <1>11, DbAssumption DEF LostReference
  <2> QED BY <1>6, <2>2, <2>3, <2>5, <2>6
<1>12. \/ p = NULL /\ LostReference(s, e.ptr) /\ t = View(s)
       \/ /\ p = NULL /\ ~LostReference(s, e.ptr)
          /\ t = InsertOrReplace(s, f.key, RowOf(s, e, f, NULL))
       \/ /\ p \in Ptr
          /\ t = InsertOrReplace(s, f.key, RowOf(s, e, f, Zero))
          /\ \E n \in {0, 1} : more = {Unregistered(p, FALSE, n)}
       \/ \E g \in entries[s] : /\ g.ptr = p /\ p \in Ptr
              /\ t = InsertOrReplace(s, f.key,
                                     RowOf(s, e, f, IF g = e THEN f.key ELSE g.key))
  BY <1>2 DEF Inserted
<1> QED BY <1>2, <1>8, <1>9, <1>10, <1>11, <1>12

\* The entry that takes the place of one that is inserted names the same row.
Heir(x, y) == /\ y.key = x.key /\ y.ptr = x.ptr /\ y.state = x.state
              /\ y.reached = x.reached /\ Settled(y)

\* What was written stays so, if each such entry has an heir.
LEMMA PutsKept ==
  ASSUME NEW s, setup' = setup, data'[s] = data[s], rows' = rows,
         \A x \in entries[s] : Settled(x) /\ Wrote(s, x) => \E y \in entries'[s] : Heir(x, y)
  PROVE  /\ \A k, t, n : Puts(s, k, t, n) => Puts(s, k, t, n)'
         /\ \A i : Taken(s, i) => Taken(s, i)'
<1>1. ASSUME NEW x, NEW y, Heir(x, y), Wrote(s, x) PROVE Wrote(s, y)'
  BY <1>1 DEF Heir, Wrote, Verdict, LostReference
<1>2. ASSUME NEW k, NEW t, NEW n, Puts(s, k, t, n) PROVE Puts(s, k, t, n)'
  <2>1. PICK x \in entries[s] : /\ x.key = k /\ Settled(x) /\ Wrote(s, x)
                               /\ TypeOf[x.ptr] = t /\ data[s][x.ptr].name = n
    BY <1>2 DEF Puts
  <2>2. PICK y \in entries'[s] : Heir(x, y) BY <2>1
  <2>3. Wrote(s, y)' BY <1>1, <2>1, <2>2
  <2>4. y.key = k /\ y.ptr = x.ptr /\ Settled(y) BY <2>1, <2>2 DEF Heir
  <2> QED BY <2>1, <2>3, <2>4 DEF Puts
<1>3. ASSUME NEW i, Taken(s, i) PROVE Taken(s, i)'
  BY <1>2, <1>3 DEF Taken
<1> QED BY <1>2, <1>3

\* The insert of an object, new or modified.
LEMMA InsertStore ==
  ASSUME TypeInv, NEW s \in Session, MemInv(s), StoreInv(s), Alone, pc'[s] = "persist",
         data'[s] = data[s], master'[s] = master[s], disordered'[s] = disordered[s],
         seen'[s] = seen[s], asked'[s] = asked[s], stopped'[s] = stopped[s],
         late'[s] = late[s],
         NEW t \in [Id -> Row \union {NULL}], Stated(s, t),
         NEW e \in entries[s], e.ptr \in Ptr, e.filed > 0, NEW f, Successor(e, f),
         NEW more, Inserted(s, e, f, t, more), MoreIn(s, e, more),
         entries'[s] = Replace(s, e, f) \union more,
         \/ pc[s] = "persist" /\ e.state = "NEW"
         \/ pc[s] = "insert" /\ e.state = "MODIFIED" /\ Verdict(e) = "MODIFIED"
                             /\ current[s] = e
  PROVE  StoreInv(s)'
<1>1. /\ pc[s] \in Writing /\ pc'[s] \in Writing /\ setup' = setup /\ rows' = rows
      /\ writer' = Conn(s)
  BY DEF Writing, Stated
<1>2. (Alone' <=> Alone) /\ Conn(s)' = Conn(s)
  BY <1>1, AloneKept DEF Conn
<1>3. View(s)' = t BY <1>1, <1>2 DEF View, Stated
<1>4. /\ e \in Entry /\ f \in Entry /\ e.filed \in 0..2 /\ f.filed \in 0..2 /\ e.rev \in Nat
      /\ e.filed # 0
  BY EntryFields DEF TypeInv, TypeOK, Successor
<1>5. Keyless \subseteq Id BY DbAssumption DEF Keyless
<1>6. \/ IsNew(e) /\ e.state = "NEW" /\ f.key \in Id \ Keyless /\ f.rev = 1
      \/ IsKeyless(e) /\ e.state # "NEW" /\ f.key = e.key /\ f.rev = e.rev + 1
      \/ IsRow(s, e) /\ e.state # "NEW" /\ f.key = e.key /\ f.rev = e.rev + 1
  BY DEF MemInv, OriginInv, Successor, IsNew, IsKeyless, IsRow
<1>7. f.key \in Id BY <1>5, <1>6 DEF IsKeyless, IsRow
<1>8. /\ \A i \in Id : i # f.key =>
            \/ t[i] = View(s)[i]
            \/ /\ t[i] = NULL /\ View(s)[i] # NULL /\ ~LostReference(s, e.ptr)
               /\ TypeOf[i] = TypeOf[f.key] /\ TypeOf[i] \in Unique
               /\ View(s)[i].name = data[s][e.ptr].name
      /\ \/ t = View(s) /\ LostReference(s, e.ptr)
         \/ /\ t[f.key] # NULL /\ t[f.key].rev = f.rev /\ ~LostReference(s, e.ptr)
            /\ t[f.key].val = data[s][e.ptr].val
            /\ t[f.key].name = data[s][e.ptr].name
            /\ \/ t[f.key].ref = data[s][e.ptr].ref
               \/ \E g \in entries'[s] : g.ptr = data[s][e.ptr].ref
                                         /\ g.key # data[s][e.ptr].ref
  BY <1>7, InsertedRow
<1>9. /\ f \in entries'[s]
      /\ \A x \in entries[s] : x # e => x \in entries'[s]
      /\ \A x \in entries'[s] : x = f \/ x \in more \/ (x \in entries[s] /\ x # e)
  BY DEF Replace
<1>10. \A x \in more : ~x.reached /\ x.state = "NEW" BY DEF MoreIn, Unregistered
<1>11. f.ptr = e.ptr /\ f.state = e.state /\ f.reached = e.reached /\ f.filed = e.filed - 1
  BY DEF Successor
\* A new key is one that was drawn, and others stay so.
<1>12. /\ \A i \in Id : i \in Drawn(s) => i \in Drawn(s)'
       /\ e.state = "NEW" => f.key \in Drawn(s)'
  <2>1. e.state = "NEW" => e.key \in Keyless \union {Zero}
    BY <1>4, <1>6 DEF IsNew, IsKeyless, IsRow
  <2>2. Zero \notin Id BY DbAssumption DEF Ptr
  <2>3. ASSUME NEW i \in Id, i \in Drawn(s), i \notin Keyless PROVE i \in Drawn(s)'
    <3>1. PICK x \in entries[s] : x.state = "NEW" /\ x.key = i BY <2>3 DEF Drawn
    <3>2. x # e BY <2>1, <2>2, <2>3, <3>1
    <3> QED BY <1>9, <3>1, <3>2 DEF Drawn
  <2> QED BY <1>9, <1>11, <2>3 DEF Drawn
<1>13. \A i : Unwanted(s, i)' <=> Unwanted(s, i) BY DEF Unwanted, Kept, LostReference
<1>14. Settled(f)
  <2>1. CASE e.state = "NEW"
    <3>1. e.filed <= 1 BY <1>6, <2>1 DEF IsNew
    <3>2. f.filed = 0 BY <1>4, <1>11, <3>1
    <3> QED BY <3>2 DEF Settled
  <2>2. CASE e.state # "NEW" BY <1>11, <2>2 DEF Settled
  <2> QED BY <2>1, <2>2
<1>15. TypeOf[f.ptr] = TypeOf[f.key] /\ f.ptr # NULL
  <2>1. e.ptr # NULL BY DbAssumption
  <2> QED BY <1>7, <1>11, <2>1 DEF Successor, MemInv, TypedInv
<1>16. ~LostReference(s, e.ptr) => Wrote(s, f)'
  <2>1. Verdict(e) \in {"NEW", "MODIFIED"} BY DEF Verdict
  <2>2. Verdict(f)' = Verdict(e) BY <1>1, <1>11 DEF Verdict
  <2>3. LostReference(s, f.ptr)' <=> LostReference(s, e.ptr) BY <1>11 DEF LostReference
  <2> QED BY <1>7, <1>15, <2>1, <2>2, <2>3 DEF Wrote
<1>17. ~LostReference(s, e.ptr) => Puts(s, f.key, TypeOf[f.key], data[s][e.ptr].name)'
  BY <1>9, <1>11, <1>14, <1>15, <1>16 DEF Puts
\* What was written before stays so.
<1>18. /\ \A k, d, n : Puts(s, k, d, n) => Puts(s, k, d, n)'
       /\ \A i : Taken(s, i) => Taken(s, i)'
  <2>1. ASSUME NEW x \in entries[s], Settled(x) PROVE \E y \in entries'[s] : Heir(x, y)
    <3>1. CASE x # e BY <1>9, <2>1, <3>1 DEF Heir
    <3>2. CASE x = e
      <4>1. e.state # "NEW" BY <1>4, <2>1, <3>2 DEF Settled
      <4>2. f.key = e.key BY <1>6, <4>1
      <4> QED BY <1>9, <1>11, <1>14, <3>2, <4>2 DEF Heir
    <3> QED BY <3>1, <3>2
  <2> QED BY <1>1, <2>1, PutsKept
<1>20. GrowInv(s)'
  <2> SUFFICES ASSUME NEW i \in Id, rows[i] # NULL, t[i] \notin {NULL, rows[i]}
               PROVE  t[i].rev > rows[i].rev \/ seen[s][i] # rows[i] \/ i \in Drawn(s)'
    BY <1>1, <1>3 DEF GrowInv
  <2>1. CASE t[i] = View(s)[i] BY <1>1, <1>12, <2>1 DEF StoreInv, GrowInv
  <2>2. CASE t[i] # View(s)[i]
    <3>1. i = f.key /\ t[i].rev = f.rev BY <1>8, <2>2
    <3>2. CASE e.state = "NEW" BY <1>12, <3>1, <3>2
    <3>3. CASE IsKeyless(e) BY <1>6, <3>1, <3>3 DEF Drawn, IsKeyless
    <3>4. CASE IsRow(s, e) /\ f.key = e.key /\ f.rev = e.rev + 1 /\ seen[s][i] = rows[i]
      <4>1. seen[s][i] \in Row /\ seen[s][i].rev <= e.rev
        BY <3>1, <3>4 DEF IsRow, TypeInv
      <4>2. rows[i].rev \in Nat BY <3>4, <4>1, RowFields
      <4> QED BY <1>4, <3>1, <3>4, <4>1, <4>2
    <3> QED BY <1>6, <3>2, <3>3, <3>4
  <2> QED BY <2>1, <2>2
<1>21. ChangedInv(s)'
  <2> SUFFICES ASSUME ~late[s], NEW i \in Id, i \notin Drawn(s)', t[i] \notin {NULL, rows[i]}
               PROVE  \E x \in entries'[s] : x.state # "NEW" /\ x.key = i /\ x.filed = 0
    BY <1>1, <1>2, <1>3 DEF ChangedInv
  <2>1. CASE i = f.key
    <3>1. IsRow(s, e) /\ e.state # "NEW" /\ f.key = e.key
      BY <1>6, <1>12, <2>1 DEF Drawn, IsKeyless
    <3>2. f.filed = 0 BY <1>4, <1>11, <3>1 DEF IsRow
    <3> QED BY <1>9, <1>11, <2>1, <3>1, <3>2
  <2>2. CASE i # f.key
    <3>1. View(s)[i] \notin {NULL, rows[i]} /\ i \notin Drawn(s) BY <1>8, <1>12, <2>2
    <3>2. PICK x \in entries[s] : x.state # "NEW" /\ x.key = i /\ x.filed = 0
      BY <1>1, <3>1 DEF StoreInv, ChangedInv
    <3>3. x # e BY <1>4, <3>2
    <3> QED BY <1>9, <3>2, <3>3
  <2> QED BY <2>1, <2>2
<1>22. NamedInv(s)'
  <2> SUFFICES ASSUME NEW i \in Id, t[i] \notin {NULL, rows[i]}
               PROVE  Puts(s, i, TypeOf[i], t[i].name)'
    <3>1. ASSUME NEW i \in Id, Puts(s, i, TypeOf[i], t[i].name)'
          PROVE  Puts(s, i, TypeOf[i], View(s)[i].name)'
      BY <1>3, <3>1 DEF Puts
    <3> QED BY <1>1, <1>3, <3>1 DEF NamedInv
  <2>1. CASE t[i] = View(s)[i]
    <3>1. Puts(s, i, TypeOf[i], View(s)[i].name)
      BY <1>1, <2>1 DEF StoreInv, NamedInv
    <3>2. PICK n : n = t[i].name OBVIOUS
    <3>3. Puts(s, i, TypeOf[i], n)' BY <1>18, <2>1, <3>1, <3>2
    <3> QED BY <3>2, <3>3
  <2>2. CASE t[i] # View(s)[i]
    <3>1. /\ i = f.key /\ t[i].name = data[s][e.ptr].name /\ ~LostReference(s, e.ptr)
      BY <1>8, <2>2
    <3> QED BY <1>17, <3>1 DEF Puts
  <2> QED BY <2>1, <2>2
<1>23. GoneInv(s)'
  <2> SUFFICES ASSUME ~late[s], NEW i \in Id, rows[i] # NULL, t[i] = NULL
               PROVE  \/ Taken(s, i)'
                      \/ /\ Unwanted(s, i)
                         /\ \/ seen[s][i] # NULL /\ seen[s][i].rev = rows[i].rev
                            \/ i \in Drawn(s)'
    BY <1>1, <1>2, <1>3, <1>13 DEF GoneInv
  <2>1. CASE View(s)[i] = NULL
    <3>1. \/ Taken(s, i)
          \/ /\ Unwanted(s, i) \/ Pending(s, i)
             /\ (seen[s][i] # NULL /\ seen[s][i].rev = rows[i].rev) \/ i \in Drawn(s)
      BY <1>1, <2>1 DEF StoreInv, GoneInv
    <3>2. ASSUME Pending(s, i) PROVE Unwanted(s, i)
      <4>1. e.key = i /\ e.ptr = i /\ e.state = "MODIFIED" BY <3>2 DEF Pending
      <4>2. f.key = i BY <1>6, <4>1
      <4>3. LostReference(s, e.ptr) BY <1>8, <4>2
      <4> QED BY <4>1, <4>3 DEF Unwanted
    <3> QED BY <1>12, <1>18, <3>1, <3>2
  <2>2. CASE View(s)[i] # NULL
    <3>1. /\ i # f.key /\ ~LostReference(s, e.ptr)
          /\ TypeOf[i] = TypeOf[f.key] /\ TypeOf[i] \in Unique
          /\ View(s)[i].name = data[s][e.ptr].name
      BY <1>8, <2>2
    <3>2. PICK n : n = View(s)[i].name OBVIOUS
    <3>3. Puts(s, f.key, TypeOf[i], n)' BY <1>17, <3>1, <3>2 DEF Puts
    <3>4. n = rows[i].name \/ Puts(s, i, TypeOf[i], n)'
      <4>1. CASE View(s)[i] = rows[i] BY <3>2, <4>1
      <4>2. CASE View(s)[i] # rows[i]
        <5>1. Puts(s, i, TypeOf[i], n)
          BY <1>1, <2>2, <3>2, <4>2 DEF StoreInv, NamedInv
        <5> QED BY <1>18, <5>1
      <4> QED BY <4>1, <4>2
    <3>5. Taken(s, i)' BY <1>1, <1>7, <3>1, <3>3, <3>4 DEF Taken
    <3> QED BY <3>5
  <2> QED BY <2>1, <2>2
<1>24. WrittenInv(s)'
  <2> SUFFICES ASSUME ~stopped[s], NEW x \in entries'[s],
                      x.state \in {"NEW", "MODIFIED"}, x.ptr # NULL, x.reached, x.filed = 0
               PROVE  /\ x.key \in Id
                      /\ \/ Written(s, x)' \/ LostReference(s, x.ptr)
                         \/ Shared(s, x)' \/ Outnamed(s, x)'
    <3>1. \A p : LostReference(s, p)' <=> LostReference(s, p) BY DEF LostReference
    <3> QED BY <1>1, <1>2, <3>1 DEF WrittenInv
  <2>1. CASE x = f
    <3>1. CASE t = View(s) /\ LostReference(s, e.ptr) BY <1>7, <1>11, <2>1, <3>1
    <3>2. CASE /\ t[f.key] # NULL /\ t[f.key].rev = f.rev
               /\ t[f.key].val = data[s][e.ptr].val
               /\ t[f.key].name = data[s][e.ptr].name
               /\ \/ t[f.key].ref = data[s][e.ptr].ref
                  \/ \E g \in entries'[s] : g.ptr = data[s][e.ptr].ref
                                            /\ g.key # data[s][e.ptr].ref
      BY <1>3, <1>7, <1>11, <2>1, <3>2 DEF Written
    <3> QED BY <1>8, <3>1, <3>2
  <2>2. CASE x \in entries[s] /\ x # e /\ x # f
    <3>1. /\ x.key \in Id
          /\ \/ Written(s, x) \/ LostReference(s, x.ptr)
             \/ Shared(s, x) \/ Outnamed(s, x)
      BY <1>1, <2>2 DEF StoreInv, WrittenInv
    <3>2. ASSUME x.key = f.key PROVE Shared(s, x)'
      BY <1>9, <1>14, <2>2, <3>2 DEF Shared
    <3>3. ASSUME Shared(s, x) PROVE Shared(s, x)'
      <4>1. PICK y \in entries[s] \ {x} : y.key = x.key /\ Settled(y) BY <3>3 DEF Shared
      <4>2. CASE y # e BY <1>9, <4>1, <4>2 DEF Shared
      <4>3. CASE y = e
        <5>1. e.state # "NEW" BY <1>4, <4>1, <4>3 DEF Settled
        <5>2. f.key = x.key BY <1>6, <4>1, <4>3, <5>1
        <5> QED BY <3>2, <5>2
      <4> QED BY <4>2, <4>3
    <3>4. ASSUME ~LostReference(s, e.ptr), TypeOf[f.ptr] \in Unique,
                 TypeOf[f.ptr] = TypeOf[x.ptr], data[s][f.ptr].name = data[s][x.ptr].name
          PROVE  Outnamed(s, x)'
      BY <1>9, <1>14, <1>16, <2>2, <3>4 DEF Outnamed
    <3>5. ASSUME Outnamed(s, x) PROVE Outnamed(s, x)'
      <4>1. PICK y \in entries[s] \ {x} :
               /\ Settled(y) /\ Wrote(s, y) /\ TypeOf[y.ptr] \in Unique
               /\ TypeOf[y.ptr] = TypeOf[x.ptr]
               /\ data[s][y.ptr].name = data[s][x.ptr].name
        BY <3>5 DEF Outnamed
      <4>2. CASE y # e
        <5>1. Wrote(s, y)' BY <1>1, <4>1 DEF Wrote, Verdict, LostReference
        <5> QED BY <1>9, <4>1, <4>2, <5>1 DEF Outnamed
      <4>3. CASE y = e
        <5>1. ~LostReference(s, e.ptr) BY <4>1, <4>3 DEF Wrote
        <5> QED BY <1>11, <3>4, <4>1, <4>3, <5>1
      <4> QED BY <4>2, <4>3
    <3>6. ASSUME Written(s, x), x.key # f.key, t[x.key] = View(s)[x.key]
          PROVE  Written(s, x)'
      <4>2. PICK p : p = data[s][x.ptr].ref OBVIOUS
      <4>3. /\ View(s)[x.key] # NULL /\ View(s)[x.key].rev = x.rev
            /\ View(s)[x.key].val = data[s][x.ptr].val
            /\ View(s)[x.key].name = data[s][x.ptr].name
            /\ \/ View(s)[x.key].ref = p
               \/ disordered[s]
               \/ \E g \in entries[s] : g.ptr = p /\ g.key # p
        BY <3>6, <4>2 DEF Written
      <4>4. ASSUME NEW g \in entries[s], g.ptr = p, g.key # p, ~disordered[s]
            PROVE  \E h \in entries'[s] : h.ptr = p /\ h.key # p
        <5>1. CASE g # e BY <1>9, <4>4, <5>1
        <5>2. CASE g = e /\ e.state # "NEW"
          <6>1. f.key = e.key BY <1>6, <5>2
          <6> QED BY <1>9, <1>11, <4>4, <5>2, <6>1
        <5>3. CASE g = e /\ e.state = "NEW"
          <6>1. e.ptr \in Fresh BY <4>4, <5>3 DEF MemInv, InOrderInv
          <6>2. f.key # e.ptr BY <1>7, <6>1, DbAssumption
          <6> QED BY <1>9, <1>11, <4>4, <5>3, <6>2
        <5> QED BY <5>1, <5>2, <5>3
      <4>5. \/ t[x.key].ref = p
            \/ disordered[s]
            \/ \E g \in entries'[s] : g.ptr = p /\ g.key # p
        BY <3>6, <4>3, <4>4
      <4> QED BY <1>3, <3>6, <4>2, <4>3, <4>5 DEF Written
    <3>7. ASSUME Written(s, x), x.key # f.key, t[x.key] # View(s)[x.key]
          PROVE  Outnamed(s, x)'
      <4>1. /\ ~LostReference(s, e.ptr)
            /\ TypeOf[x.key] = TypeOf[f.key] /\ TypeOf[x.key] \in Unique
            /\ View(s)[x.key].name = data[s][e.ptr].name
        BY <1>8, <3>1, <3>7
      <4>2. View(s)[x.key].name = data[s][x.ptr].name BY <3>7 DEF Written
      <4>3. TypeOf[x.key] = TypeOf[x.ptr] BY <2>2, <3>1 DEF MemInv, TypedInv
      <4> QED BY <1>11, <1>15, <3>4, <4>1, <4>2, <4>3
    <3> QED BY <3>1, <3>2, <3>3, <3>5, <3>6, <3>7
  <2> QED BY <1>9, <1>10, <2>1, <2>2
<1> QED BY <1>20, <1>21, <1>22, <1>23, <1>24 DEF StoreInv

\* What a delete takes away.
LEMMA DeletedRow ==
  ASSUME TypeInv, NEW s \in Session, MemInv(s), StoreInv(s), Alone, ~late[s],
         pc[s] = "persist", NEW e \in entries[s], e.filed > 0, e.state # "NEW",
         Matches(s, e), rows[e.key] # NULL
  PROVE  /\ IsRow(s, e)
         /\ \/ seen[s][e.key] # NULL /\ seen[s][e.key].rev = rows[e.key].rev
            \/ e.key \in Drawn(s)
<1>1. View(s)[e.key] \in Row /\ View(s)[e.key].rev = e.rev /\ e.key \in Id
      /\ View(s)[e.key] # NULL
  BY ViewType DEF Matches
<1>2. IsRow(s, e)
  <2>1. e.rev \in Nat \ {0} BY <1>1, RowFields
  <2>2. ~IsKeyless(e) BY <2>1 DEF IsKeyless
  <2>3. ~IsNew(e) BY DEF IsNew
  <2> QED BY <2>2, <2>3 DEF MemInv, OriginInv
<1>3. seen[s][e.key] # NULL /\ e.rev = seen[s][e.key].rev
  BY <1>2 DEF IsRow
<1>4. ASSUME e.key \notin Drawn(s) PROVE View(s)[e.key] = rows[e.key]
  <2>1. SUFFICES ASSUME View(s)[e.key] # rows[e.key] PROVE FALSE OBVIOUS
  <2>2. pc[s] \in Writing BY DEF Writing
  <2>3. PICK x \in entries[s] : x.state # "NEW" /\ x.key = e.key /\ x.filed = 0
    BY <1>1, <1>4, <2>1, <2>2 DEF StoreInv, ChangedInv
  <2>4. e.key \notin Keyless BY <1>4 DEF Drawn
  <2>5. x = e BY <2>3, <2>4 DEF MemInv, OnceInv
  <2> QED BY <2>3, <2>5
<1> QED BY <1>1, <1>2, <1>3, <1>4

\* What a delete by key and revision leaves.
LEMMA DeletedView ==
  ASSUME TypeInv, NEW s \in Session, NEW e, NEW t,
         t = IF Matches(s, e) THEN [View(s) EXCEPT ![e.key] = NULL] ELSE View(s)
  PROVE  \A i \in Id : \/ t[i] = View(s)[i]
                       \/ t[i] = NULL /\ i = e.key /\ Matches(s, e)
BY ViewType

\* The delete before the insert of an object that was modified.
LEMMA ModifiedStore ==
  ASSUME TypeInv, NEW s \in Session, MemInv(s), StoreInv(s), Alone,
         NEW e \in ToVisit(s), PersistModified(s, e), NEW t, Stated(s, t),
         t = IF Matches(s, e) THEN [View(s) EXCEPT ![e.key] = NULL] ELSE View(s)
  PROVE  StoreInv(s)'
<1>1. /\ entries'[s] = entries[s] /\ master' = master /\ data' = data
      /\ disordered' = disordered /\ seen' = seen /\ asked' = asked /\ stopped' = stopped
      /\ late' = late
      /\ pc[s] = "persist" /\ pc'[s] = "insert" /\ current'[s] = e /\ e.ptr # NULL
  BY DEF PersistModified, Persist, trace, TypeInv, TypeOK
<1>2. setup' = setup /\ rows' = rows /\ writer' = Conn(s) BY DEF Stated
<1>3. (Alone' <=> Alone) /\ Conn(s)' = Conn(s)
  BY <1>2, AloneKept DEF Conn
<1>4. View(s)' = t BY <1>2, <1>3 DEF View, Stated
<1>5. /\ e \in entries[s] /\ e \in Entry /\ e.filed > 0 /\ e.state = "MODIFIED"
  BY VisitFacts DEF MemInv, PersistModified
<1>6. e.filed # 0 BY <1>5, EntryFields
<1>7. \A i \in Id : \/ t[i] = View(s)[i]
                    \/ t[i] = NULL /\ i = e.key /\ Matches(s, e)
  BY DeletedView
<1>8. pc[s] \in Writing /\ pc'[s] \in Writing BY <1>1 DEF Writing
<1>9. Drawn(s)' = Drawn(s) BY <1>1 DEF Drawn
<1>10. /\ \A i : Unwanted(s, i)' <=> Unwanted(s, i)
       /\ \A i : ~Pending(s, i)
       /\ \A i : e.key = i /\ e.ptr = i => Pending(s, i)'
  BY <1>1 DEF Unwanted, Kept, LostReference, Pending
<1>11. /\ \A k, d, n : Puts(s, k, d, n) => Puts(s, k, d, n)'
       /\ \A i : Taken(s, i) => Taken(s, i)'
  <2>1. \A x \in entries[s] : Settled(x) => Heir(x, x) BY DEF Heir
  <2> QED BY <1>1, <1>2, <2>1, PutsKept
<1>20. GrowInv(s)'
  <2> SUFFICES ASSUME NEW i \in Id, rows[i] # NULL, t[i] \notin {NULL, rows[i]}
               PROVE  t[i].rev > rows[i].rev \/ seen[s][i] # rows[i] \/ i \in Drawn(s)
    BY <1>1, <1>2, <1>4, <1>9 DEF GrowInv
  <2>1. t[i] = View(s)[i] BY <1>7
  <2> QED BY <1>8, <2>1 DEF StoreInv, GrowInv
<1>21. ChangedInv(s)'
  <2> SUFFICES ASSUME ~late[s], NEW i \in Id, i \notin Drawn(s), t[i] \notin {NULL, rows[i]}
               PROVE  \E x \in entries[s] : x.state # "NEW" /\ x.key = i /\ x.filed = 0
    BY <1>1, <1>2, <1>3, <1>4, <1>9 DEF ChangedInv
  <2>1. t[i] = View(s)[i] BY <1>7
  <2> QED BY <1>8, <2>1 DEF StoreInv, ChangedInv
<1>22. NamedInv(s)'
  <2> SUFFICES ASSUME NEW i \in Id, t[i] \notin {NULL, rows[i]}
               PROVE  Puts(s, i, TypeOf[i], t[i].name)'
    <3>1. ASSUME NEW i \in Id, Puts(s, i, TypeOf[i], t[i].name)'
          PROVE  Puts(s, i, TypeOf[i], View(s)[i].name)'
      BY <1>4, <3>1 DEF Puts
    <3> QED BY <1>2, <1>3, <1>4, <3>1 DEF NamedInv
  <2>1. PICK n : n = View(s)[i].name OBVIOUS
  <2>2. t[i] = View(s)[i] BY <1>7
  <2>3. Puts(s, i, TypeOf[i], n) BY <1>8, <2>1, <2>2 DEF StoreInv, NamedInv
  <2>4. Puts(s, i, TypeOf[i], n)' BY <1>11, <2>3
  <2>5. n = t[i].name BY <2>1, <2>2
  <2> QED BY <2>4, <2>5
<1>23. GoneInv(s)'
  <2> SUFFICES ASSUME ~late[s], NEW i \in Id, rows[i] # NULL, t[i] = NULL
               PROVE  \/ Taken(s, i)'
                      \/ /\ Unwanted(s, i) \/ Pending(s, i)'
                         /\ \/ seen[s][i] # NULL /\ seen[s][i].rev = rows[i].rev
                            \/ i \in Drawn(s)
    BY <1>1, <1>2, <1>3, <1>4, <1>9, <1>10 DEF GoneInv
  <2>1. CASE t[i] = View(s)[i] BY <1>8, <1>10, <1>11, <2>1 DEF StoreInv, GoneInv
  <2>2. CASE t[i] = NULL /\ i = e.key /\ Matches(s, e)
    <3>1. /\ IsRow(s, e)
          /\ \/ seen[s][i] # NULL /\ seen[s][i].rev = rows[i].rev
             \/ i \in Drawn(s)
      BY <1>1, <1>5, <2>2, DeletedRow
    <3>2. e.ptr = i BY <1>1, <2>2, <3>1 DEF IsRow
    <3> QED BY <1>10, <2>2, <3>1, <3>2
  <2> QED BY <1>7, <2>1, <2>2
<1>24. WrittenInv(s)'
  <2> SUFFICES ASSUME ~stopped[s], NEW x \in entries[s],
                      x.state \in {"NEW", "MODIFIED"}, x.ptr # NULL, x.reached, x.filed = 0
               PROVE  /\ x.key \in Id
                      /\ \/ Written(s, x)' \/ LostReference(s, x.ptr)
                         \/ Shared(s, x)' \/ Outnamed(s, x)'
    <3>1. \A p : LostReference(s, p)' <=> LostReference(s, p) BY <1>1 DEF LostReference
    <3> QED BY <1>1, <1>2, <1>3, <3>1 DEF WrittenInv
  <2>1. /\ x.key \in Id
        /\ \/ Written(s, x) \/ LostReference(s, x.ptr)
           \/ Shared(s, x) \/ Outnamed(s, x)
    BY <1>8 DEF StoreInv, WrittenInv
  <2>2. /\ Shared(s, x)' <=> Shared(s, x)
        /\ Outnamed(s, x) => Outnamed(s, x)'
    <3>1. \A y : Wrote(s, y)' <=> Wrote(s, y)
      BY <1>1, <1>2 DEF Wrote, Verdict, LostReference
    <3> QED BY <1>1, <3>1 DEF Shared, Outnamed
  <2>3. CASE x.key = e.key BY <1>5, <1>6, <2>1, <2>2, <2>3 DEF Shared, Settled
  <2>4. CASE x.key # e.key
    <3>1. t[x.key] = View(s)[x.key] BY <1>7, <2>1, <2>4
    <3>2. Written(s, x)' <=> Written(s, x) BY <1>1, <1>4, <3>1 DEF Written
    <3> QED BY <2>1, <2>2, <3>2
  <2> QED BY <2>3, <2>4
<1> QED BY <1>20, <1>21, <1>22, <1>23, <1>24 DEF StoreInv

\* The delete of an object that was removed, and its entry.
LEMMA RemovedStore ==
  ASSUME TypeInv, NEW s \in Session, MemInv(s), StoreInv(s), Alone,
         NEW e \in ToVisit(s), PersistRemoved(s, e), NEW t, Stated(s, t),
         t = IF Matches(s, e) THEN [View(s) EXCEPT ![e.key] = NULL] ELSE View(s)
  PROVE  StoreInv(s)'
<1>1. PICK f : f = [Visited(e) EXCEPT !.ptr = NULL, !.state = "REMOVED"] OBVIOUS
<1>2. /\ e \in entries[s] /\ e \in Entry /\ e.filed > 0
      /\ e.ptr = NULL => e.state = "REMOVED"
      /\ Verdict(e) = "NEW" <=> e.state = "NEW"
  BY VisitFacts DEF MemInv
<1>3. /\ f \in Entry /\ f.key = e.key /\ f.filed = e.filed - 1
      /\ f.ptr = NULL /\ f.state = "REMOVED"
  BY <1>1, <1>2, StoredRemoved
<1>4. e.state # "NEW" BY <1>2 DEF PersistRemoved
<1>5. /\ entries'[s] = (entries[s] \ {e}) \union {f}
      /\ master' = master /\ data' = data /\ seen' = seen /\ asked' = asked
      /\ stopped' = stopped /\ late' = late /\ disordered'[s] = TRUE
      /\ pc[s] = "persist" /\ pc'[s] = "removed"
  BY <1>1 DEF PersistRemoved, Persist, Replace, trace, TypeInv, TypeOK
<1>6. setup' = setup /\ rows' = rows /\ writer' = Conn(s) BY DEF Stated
<1>7. (Alone' <=> Alone) /\ Conn(s)' = Conn(s)
  BY <1>6, AloneKept DEF Conn
<1>8. View(s)' = t BY <1>6, <1>7 DEF View, Stated
<1>9. \A i \in Id : \/ t[i] = View(s)[i]
                    \/ t[i] = NULL /\ i = e.key /\ Matches(s, e)
  BY DeletedView
<1>10. pc[s] \in Writing /\ pc'[s] \in Writing BY <1>5 DEF Writing
<1>11. Drawn(s)' = Drawn(s) BY <1>3, <1>4, <1>5 DEF Drawn
<1>12. /\ \A i : Unwanted(s, i)' <=> Unwanted(s, i)
       /\ \A i : ~Pending(s, i)
  BY <1>5 DEF Unwanted, Kept, LostReference, Pending
<1>13. f \in entries'[s] /\ \A x \in entries[s] : x # e => x \in entries'[s] BY <1>5
<1>14. e.filed \in 0..2 /\ e.filed # 0 BY <1>2, EntryFields
\* If no object was referred to too early, a row has one entry, to be visited once.
<1>15. ASSUME ~late[s], Matches(s, e), rows[e.key] # NULL
       PROVE  /\ IsRow(s, e) /\ f.filed = 0 /\ e.ptr = e.key
              /\ \/ seen[s][e.key] # NULL /\ seen[s][e.key].rev = rows[e.key].rev
                 \/ e.key \in Drawn(s)
  <2>1. /\ IsRow(s, e)
        /\ \/ seen[s][e.key] # NULL /\ seen[s][e.key].rev = rows[e.key].rev
           \/ e.key \in Drawn(s)
    BY <1>2, <1>4, <1>5, <1>15, DeletedRow
  <2>2. f.filed = 0 BY <1>3, <1>14, <1>15, <2>1 DEF IsRow
  <2>3. e.ptr # NULL BY <1>2, <1>14, <1>15 DEF MemInv, RemovedInv
  <2> QED BY <2>1, <2>2, <2>3 DEF IsRow
<1>16. /\ \A k, d, n : Puts(s, k, d, n) => Puts(s, k, d, n)'
       /\ \A i : Taken(s, i) => Taken(s, i)'
  <2>1. ~Wrote(s, e) BY DEF Wrote, PersistRemoved
  <2>2. ASSUME NEW x \in entries[s], Settled(x), Wrote(s, x)
        PROVE  \E y \in entries'[s] : Heir(x, y)
    BY <1>13, <2>1, <2>2 DEF Heir
  <2> QED BY <1>5, <1>6, <2>2, PutsKept
<1>20. GrowInv(s)'
  <2> SUFFICES ASSUME NEW i \in Id, rows[i] # NULL, t[i] \notin {NULL, rows[i]}
               PROVE  t[i].rev > rows[i].rev \/ seen[s][i] # rows[i] \/ i \in Drawn(s)
    BY <1>5, <1>6, <1>8, <1>11 DEF GrowInv
  <2>1. t[i] = View(s)[i] BY <1>9
  <2> QED BY <1>10, <2>1 DEF StoreInv, GrowInv
<1>21. ChangedInv(s)'
  <2> SUFFICES ASSUME ~late[s], NEW i \in Id, i \notin Drawn(s), t[i] \notin {NULL, rows[i]}
               PROVE  \E x \in entries'[s] : x.state # "NEW" /\ x.key = i /\ x.filed = 0
    BY <1>5, <1>6, <1>7, <1>8, <1>11 DEF ChangedInv
  <2>1. t[i] = View(s)[i] BY <1>9
  <2>2. PICK x \in entries[s] : x.state # "NEW" /\ x.key = i /\ x.filed = 0
    BY <1>10, <2>1 DEF StoreInv, ChangedInv
  <2> QED BY <1>13, <1>14, <2>2
<1>22. NamedInv(s)'
  <2> SUFFICES ASSUME NEW i \in Id, t[i] \notin {NULL, rows[i]}
               PROVE  Puts(s, i, TypeOf[i], t[i].name)'
    <3>1. ASSUME NEW i \in Id, Puts(s, i, TypeOf[i], t[i].name)'
          PROVE  Puts(s, i, TypeOf[i], View(s)[i].name)'
      BY <1>8, <3>1 DEF Puts
    <3> QED BY <1>6, <1>7, <1>8, <3>1 DEF NamedInv
  <2>1. PICK n : n = View(s)[i].name OBVIOUS
  <2>2. t[i] = View(s)[i] BY <1>9
  <2>3. Puts(s, i, TypeOf[i], n) BY <1>10, <2>1, <2>2 DEF StoreInv, NamedInv
  <2>4. Puts(s, i, TypeOf[i], n)' BY <1>16, <2>3
  <2>5. n = t[i].name BY <2>1, <2>2
  <2> QED BY <2>4, <2>5
<1>23. GoneInv(s)'
  <2> SUFFICES ASSUME ~late[s], NEW i \in Id, rows[i] # NULL, t[i] = NULL
               PROVE  \/ Taken(s, i)'
                      \/ /\ Unwanted(s, i)
                         /\ \/ seen[s][i] # NULL /\ seen[s][i].rev = rows[i].rev
                            \/ i \in Drawn(s)
    BY <1>5, <1>6, <1>7, <1>8, <1>11, <1>12 DEF GoneInv
  <2>1. CASE t[i] = View(s)[i] BY <1>10, <1>12, <1>16, <2>1 DEF StoreInv, GoneInv
  <2>2. CASE t[i] = NULL /\ i = e.key /\ Matches(s, e)
    <3>1. CASE e.state = "REMOVED"
      BY <1>2, <1>15, <2>2, <3>1, DbAssumption DEF Unwanted, MemInv, RemovedInv, IsRow
    <3>2. CASE e.state # "REMOVED"
      <4>1. e.ptr = i BY <1>15, <2>2
      <4>2. Verdict(e) = "REMOVED" BY <1>2, <3>2 DEF PersistRemoved
      <4>3. ~e.reached BY <3>2, <4>2 DEF Verdict
      <4>4. e.ptr # NULL BY <1>2, <3>2
      <4>5. ~Kept(s, i) BY <1>2, <1>4, <1>10, <4>1, <4>3, <4>4 DEF MemInv, ReachedInv
      <4> QED BY <1>15, <2>2, <4>5 DEF Unwanted
    <3> QED BY <3>1, <3>2
  <2> QED BY <1>9, <2>1, <2>2
<1>24. WrittenInv(s)'
  <2> SUFFICES ASSUME ~stopped[s], NEW x \in entries'[s],
                      x.state \in {"NEW", "MODIFIED"}, x.ptr # NULL, x.reached, x.filed = 0
               PROVE  /\ x.key \in Id
                      /\ \/ Written(s, x)' \/ LostReference(s, x.ptr)
                         \/ Shared(s, x)' \/ Outnamed(s, x)'
    <3>1. \A p : LostReference(s, p)' <=> LostReference(s, p) BY <1>5 DEF LostReference
    <3> QED BY <1>5, <1>6, <1>7, <3>1 DEF WrittenInv
  <2>1. x \in entries[s] /\ x # e /\ x # f BY <1>3, <1>5
  <2>2. /\ x.key \in Id
        /\ \/ Written(s, x) \/ LostReference(s, x.ptr)
           \/ Shared(s, x) \/ Outnamed(s, x)
    BY <1>10, <2>1 DEF StoreInv, WrittenInv
  <2>3. ASSUME x.key = e.key PROVE Shared(s, x)'
    BY <1>3, <1>13, <2>1, <2>3 DEF Shared, Settled
  <2>4. ASSUME Shared(s, x) PROVE Shared(s, x)'
    <3>1. PICK y \in entries[s] \ {x} : y.key = x.key /\ Settled(y) BY <2>4 DEF Shared
    <3>2. CASE y # e BY <1>13, <3>1, <3>2 DEF Shared
    <3>3. CASE y = e BY <2>3, <3>1, <3>3
    <3> QED BY <3>2, <3>3
  <2>5. ASSUME Written(s, x), x.key # e.key PROVE Written(s, x)'
    <3>1. t[x.key] = View(s)[x.key] BY <1>9, <2>2, <2>5
    <3>2. /\ View(s)[x.key] # NULL /\ View(s)[x.key].rev = x.rev
          /\ View(s)[x.key].val = data[s][x.ptr].val
          /\ View(s)[x.key].name = data[s][x.ptr].name
      BY <2>5 DEF Written
    <3> QED BY <1>5, <1>8, <3>1, <3>2 DEF Written
  <2>6. ASSUME Outnamed(s, x) PROVE Outnamed(s, x)'
    <3>1. PICK y \in entries[s] \ {x} :
             /\ Settled(y) /\ Wrote(s, y) /\ TypeOf[y.ptr] \in Unique
             /\ TypeOf[y.ptr] = TypeOf[x.ptr]
             /\ data[s][y.ptr].name = data[s][x.ptr].name
      BY <2>6 DEF Outnamed
    <3>2. y # e BY <3>1 DEF Wrote, PersistRemoved
    <3>3. Wrote(s, y)' BY <1>5, <1>6, <3>1 DEF Wrote, Verdict, LostReference
    <3> QED BY <1>5, <1>13, <3>1, <3>2, <3>3 DEF Outnamed
  <2> QED BY <2>2, <2>3, <2>4, <2>5, <2>6
<1> QED BY <1>20, <1>21, <1>22, <1>23, <1>24 DEF StoreInv

\* The tables are not touched between the statements.
LEMMA BetweenStore ==
  ASSUME TypeInv, NEW s \in Session, MemInv(s), StoreInv(s), CheckRemoved(s) \/ EndPersist(s)
  PROVE  StoreInv(s)'
<1>1. /\ setup' = setup /\ rows' = rows /\ work' = work /\ writer' = writer /\ data' = data
      /\ master' = master /\ disordered' = disordered /\ seen' = seen /\ asked' = asked
      /\ late' = late
      /\ pc[s] \in {"removed", "persist"} /\ pc'[s] \in {"persist", "commit"}
      /\ \/ entries'[s] = entries[s] /\ stopped' = stopped
         \/ entries'[s] = {Dismissed(e) : e \in entries[s]} /\ stopped'[s]
  BY DEF CheckRemoved, EndPersist, AfterFailedRemoval, store, memory, trace, TypeInv, TypeOK,
     Dismissed
<1>2. (Alone' <=> Alone) /\ Conn(s)' = Conn(s)
  BY <1>1, AloneKept DEF Conn
<1>3. View(s)' = View(s) BY <1>1, <1>2 DEF View
<1>4. pc[s] \in Writing /\ pc'[s] \in Writing BY <1>1 DEF Writing
<1>5. /\ \A i : Unwanted(s, i)' <=> Unwanted(s, i)
      /\ \A i : ~Pending(s, i)
  BY <1>1 DEF Unwanted, Kept, LostReference, Pending
<1>6. ASSUME NEW e \in entries[s]
      PROVE  LET f == Dismissed(e)
             IN  /\ f.key = e.key /\ f.state = e.state /\ f.filed = 0
                 /\ f.ptr = e.ptr /\ f.reached = e.reached
  <2>1. e \in Entry BY DEF TypeInv, TypeOK
  <2> QED BY <2>1 DEF Entry, Dismissed
<1>7. /\ \A e \in entries[s] : \E f \in entries'[s] :
            f.key = e.key /\ f.state = e.state /\ (f.filed = e.filed \/ f.filed = 0)
      /\ \A f \in entries'[s] : \E e \in entries[s] : f.key = e.key /\ f.state = e.state
  BY <1>1, <1>6
<1>8. Drawn(s)' = Drawn(s) BY <1>7 DEF Drawn
<1>9. GrowInv(s)' BY <1>1, <1>2, <1>3, <1>4, <1>8 DEF StoreInv, GrowInv
<1>10. ChangedInv(s)'
  <2> SUFFICES ASSUME Alone, ~late[s], NEW i \in Id, i \notin Drawn(s),
                      View(s)[i] \notin {NULL, rows[i]}
               PROVE  \E x \in entries'[s] : x.state # "NEW" /\ x.key = i /\ x.filed = 0
    BY <1>1, <1>2, <1>3, <1>8 DEF ChangedInv
  <2>1. PICK x \in entries[s] : x.state # "NEW" /\ x.key = i /\ x.filed = 0
    BY <1>4 DEF StoreInv, ChangedInv
  <2> QED BY <1>7, <2>1
<1>11. /\ \A k, d, n : Puts(s, k, d, n) => Puts(s, k, d, n)'
       /\ \A i : Taken(s, i) => Taken(s, i)'
  <2>1. ASSUME NEW x \in entries[s], Settled(x) PROVE \E y \in entries'[s] : Heir(x, y)
    <3>1. CASE entries'[s] = entries[s] BY <2>1, <3>1 DEF Heir
    <3>2. CASE entries'[s] = {Dismissed(e) : e \in entries[s]}
      <4>1. Heir(x, Dismissed(x)) BY <1>6 DEF Heir, Settled
      <4> QED BY <3>2, <4>1
    <3> QED BY <1>1, <3>1, <3>2
  <2> QED BY <1>1, <2>1, PutsKept
<1>12. NamedInv(s)'
  <2> SUFFICES ASSUME Alone, NEW i \in Id, View(s)[i] \notin {NULL, rows[i]}
               PROVE  Puts(s, i, TypeOf[i], View(s)[i].name)'
    BY <1>1, <1>2, <1>3 DEF NamedInv
  <2>1. PICK n : n = View(s)[i].name OBVIOUS
  <2>2. Puts(s, i, TypeOf[i], n) BY <1>4, <2>1 DEF StoreInv, NamedInv
  <2>3. Puts(s, i, TypeOf[i], n)' BY <1>11, <2>2
  <2>4. n = View(s)'[i].name BY <1>3, <2>1
  <2> QED BY <2>3, <2>4
<1>13. GoneInv(s)' BY <1>1, <1>2, <1>3, <1>4, <1>5, <1>8, <1>11 DEF StoreInv, GoneInv
<1>14. WrittenInv(s)'
  <2>1. CASE stopped'[s] BY <2>1 DEF WrittenInv
  <2>2. CASE entries'[s] = entries[s] /\ stopped' = stopped
    <3>1. \A e : /\ Written(s, e)' <=> Written(s, e)
                 /\ LostReference(s, e.ptr)' <=> LostReference(s, e.ptr)
                 /\ Shared(s, e)' <=> Shared(s, e)
      BY <1>1, <1>3, <2>2 DEF Written, LostReference, Shared
    <3>2. \A e : Wrote(s, e)' <=> Wrote(s, e)
      BY <1>1, <3>1 DEF Wrote, Verdict
    <3>3. \A e : Outnamed(s, e)' <=> Outnamed(s, e) BY <1>1, <2>2, <3>2 DEF Outnamed
    <3> QED BY <1>1, <1>2, <1>4, <2>2, <3>1, <3>3 DEF StoreInv, WrittenInv
  <2> QED BY <1>1, <2>1, <2>2
<1> QED BY <1>9, <1>10, <1>12, <1>13, <1>14 DEF StoreInv

\* What a commit has done holds from its one statement to the next.
LEMMA CommitsStore ==
  ASSUME TypeInv, TxInv, NEW s \in Session, MemInv(s), StoreInv(s), CommitStep(s),
         ~NoDefinition(s)
  PROVE  StoreInv(s)'
<1>1. setup' = setup BY SetupKept DEF Next
<1>2. CASE ~Alone
  BY <1>1, <1>2, AloneKept
  DEF StoreInv, GrowInv, ChangedInv, NamedInv, GoneInv, WrittenInv
<1>3. ASSUME Alone, NEW t, NEW n, Execute(s, t, n), WriteLock(s), pc[s] \in Writing
      PROVE  Stated(s, t)
  BY <1>1, <1>3 DEF Execute, TxInv, InTransaction, Stated
<1>4. ASSUME Alone, NEW e \in ToVisit(s), PersistNew(s, e) PROVE StoreInv(s)'
  <2>1. PICK f \in Entry, t \in [Id -> Row \union {NULL}], n \in Nat, more \in SUBSET Entry :
            /\ Successor(e, f) /\ f.key \in Id \ Keyless /\ f.rev = 1 /\ e.state = "NEW"
            /\ e.ptr \in Ptr /\ e.filed > 0 /\ e \in entries[s]
            /\ Execute(s, t, n) /\ Inserted(s, e, f, t, more) /\ MoreIn(s, e, more)
            /\ entries'[s] = Replace(s, e, f) \union more
    BY <1>4, NewFacts
  <2>2. /\ master' = master /\ data' = data /\ disordered' = disordered /\ seen' = seen
        /\ asked' = asked /\ stopped' = stopped /\ pc[s] = "persist" /\ pc'[s] = "persist"
        /\ late' = late /\ WriteLock(s)
    BY <1>4 DEF PersistNew, Persist, trace
  <2>3. Stated(s, t) BY <1>3, <1>4, <2>1, <2>2 DEF Writing
  <2> QED BY <1>4, <2>1, <2>2, <2>3, InsertStore
<1>5. ASSUME Alone, InsertModified(s) PROVE StoreInv(s)'
  <2>1. PICK e \in entries[s], f \in Entry, t \in [Id -> Row \union {NULL}], n \in Nat,
            more \in SUBSET Entry :
            /\ e = current[s] /\ Successor(e, f) /\ f.key = e.key /\ f.rev = e.rev + 1
            /\ e.state = "MODIFIED" /\ Verdict(e) = "MODIFIED" /\ e.ptr \in Ptr /\ e.filed > 0
            /\ Execute(s, t, n) /\ Inserted(s, e, f, t, more) /\ MoreIn(s, e, more)
            /\ entries'[s] = Replace(s, e, f) \union more
    BY <1>5, ModifiedFacts
  <2>2. /\ master' = master /\ data' = data /\ disordered' = disordered /\ seen' = seen
        /\ asked' = asked /\ stopped' = stopped /\ pc[s] = "insert" /\ pc'[s] = "persist"
        /\ late' = late /\ WriteLock(s)
    BY <1>5 DEF InsertModified, trace, TypeInv, TypeOK
  <2>3. Stated(s, t) BY <1>3, <1>5, <2>1, <2>2 DEF Writing
  <2> QED BY <1>5, <2>1, <2>2, <2>3, InsertStore
<1>6. ASSUME Alone, NEW e \in ToVisit(s), PersistModified(s, e) \/ PersistRemoved(s, e)
      PROVE  StoreInv(s)'
  <2>1. e \in Entry BY VisitFacts DEF MemInv
  <2>2. PICK t \in [Id -> Row \union {NULL}], n \in Nat :
            /\ Execute(s, t, n)
            /\ t = IF Matches(s, e) THEN [View(s) EXCEPT ![e.key] = NULL] ELSE View(s)
    BY <1>6, <2>1, DeleteFacts DEF PersistModified, PersistRemoved
  <2>3. Stated(s, t)
    BY <1>3, <1>6, <2>2 DEF PersistModified, PersistRemoved, Persist, Writing
  <2> QED BY <1>6, <2>2, <2>3, ModifiedStore, RemovedStore
<1>7. CASE CheckRemoved(s) \/ EndPersist(s) BY <1>7, BetweenStore
<1>8. CASE EndCommit(s)
  <2>1. pc'[s] = "idle" BY <1>8 DEF EndCommit, TypeInv, TypeOK
  <2> QED BY <2>1, StoreOfIdle DEF Writing
<1> QED BY <1>2, <1>4, <1>5, <1>6, <1>7, <1>8 DEF CommitStep

\* The same, whatever step is taken, and by whom.
LEMMA StoreNext ==
  ASSUME TypeInv, TxInv, Idling, \A s \in Session : MemInv(s) /\ StoreInv(s), [Next]_vars,
         NEW u \in Session
  PROVE  StoreInv(u)'
<1>1. CASE UNCHANGED vars
  <2>1. UNCHANGED Locals(u) /\ setup' = setup /\ UNCHANGED <<rows, work, writer>>
    BY <1>1 DEF vars, store, memory, trace, Locals
  <2> QED BY <2>1, StoreOfOther
<1>2. ASSUME NEW c, Die(c) PROVE StoreInv(u)'
  <2>1. CASE setup.conn[u] = c
    <3>1. pc'[u] = "closed" BY <1>2, <2>1 DEF Die
    <3> QED BY <3>1, StoreOfIdle DEF Writing
  <2>2. CASE setup.conn[u] # c
    <3>1. setup' = setup BY <1>2 DEF Die
    <3>2. UNCHANGED Locals(u) BY <1>2, <2>2 DEF Die, Locals
    <3>3. CASE writer = Conn(u)
      <4>1. writer # c BY <2>2, <3>3 DEF Conn
      <4>2. UNCHANGED <<rows, work, writer>> BY <1>2, <4>1 DEF Die
      <4> QED BY <3>1, <3>2, <3>3, <4>2, StoreOfOther
    <3>4. CASE writer # Conn(u)
      <4>1. Conn(u) # NULL BY ViewType, DbAssumption
      <4>2. writer' # Conn(u) BY <1>2, <3>4, <4>1 DEF Die
      <4> QED BY <3>1, <3>2, <3>4, <4>2, StoreOfOther
    <3> QED BY <3>3, <3>4
  <2> QED BY <2>1, <2>2
<1>3. ASSUME NEW s \in Session, SessionStep(s) \/ (CommitStep(s) /\ ~NoDefinition(s)), u # s
      PROVE  StoreInv(u)'
  <2>1. setup' = setup BY <1>3, SetupKept DEF Next
  <2>2. UNCHANGED Locals(u) BY <1>3, OthersKept
  <2>3. CASE ~Alone
    BY <2>1, <2>3, AloneKept
    DEF StoreInv, GrowInv, ChangedInv, NamedInv, GoneInv, WrittenInv
  <2>4. CASE Alone /\ UNCHANGED <<rows, work, writer>> BY <2>1, <2>2, <2>4, StoreOfOther
  <2>5. CASE Alone /\ ~UNCHANGED <<rows, work, writer>>
    <3>1. Conn(u) # Conn(s) BY <1>3, <2>5 DEF Alone, Conn
    <3>2. Conn(u) # NULL BY ViewType, DbAssumption
    <3>3. ~SessionStep(s)
      BY <2>5 DEF SessionStep, OpenSession, CloseSession, Fetch, FetchObject, Resolve,
         Change, Delete, Unlink, Link, Create, Application, Commit, store
    <3>4. CASE EndCommit(s)
      BY <2>1, <2>2, <2>5, <3>1, <3>2, <3>4, StoreOfOther DEF EndCommit, End
    <3>5. CASE ~EndCommit(s)
      <4>1. PICK t : Stated(s, t) BY <1>3, <2>5, <3>3, <3>5, Statements
      <4> QED BY <2>1, <2>2, <3>1, <3>2, <4>1, StoreOfOther DEF Stated, WriteLock
    <3> QED BY <3>4, <3>5
  <2> QED BY <2>3, <2>4, <2>5
<1>4. ASSUME SessionStep(u) PROVE StoreInv(u)'
  <2>1. CASE Commit(u) BY <2>1, CommitStore
  <2>2. CASE ~Commit(u)
    <3>1. pc'[u] \notin Writing
      BY <1>4, <2>2 DEF SessionStep, OpenSession, CloseSession, Fetch, FetchObject, Resolve,
         Change, Delete, Unlink, Link, Create, Application, Writing, TypeInv, TypeOK
    <3> QED BY <3>1, StoreOfIdle
  <2> QED BY <2>1, <2>2
<1>5. ASSUME CommitStep(u), ~NoDefinition(u) PROVE StoreInv(u)'
  BY <1>5, CommitsStore
<1> QED BY <1>1, <1>2, <1>3, <1>4, <1>5 DEF Next, Crash, NoDefinition
-----------------------------------------------------------------------------
(* The theorems.                                                           *)

\* What the proofs need of the whole.
DbIndInv == TypeInv /\ TxInv /\ SessionsInv

\* Sessions start closed, and the tables as they are.
LEMMA DbInit == Init => DbIndInv
<1> SUFFICES ASSUME Init PROVE DbIndInv OBVIOUS
<1>1. TypeInv
  <2>1. setup \in Setup BY DbAssumption DEF Init
  <2>2. Nothing \in [Ptr -> Object] BY DEF Nothing, Object
  <2>3. TypeOK BY <2>2, DbAssumption DEF Init, TypeOK
  <2>4. /\ at \in [Session -> Nat \ {0}] /\ master \in [Session -> SUBSET Ptr]
        /\ disordered \in [Session -> BOOLEAN] /\ stopped \in [Session -> BOOLEAN]
        /\ seen \in [Session -> [Id -> Row \union {NULL}]]
        /\ asked \in [Session -> SUBSET (Id \union {Zero})]
        /\ late \in [Session -> BOOLEAN]
        /\ changes \in [Connection -> Nat]
    BY DEF Init
  <2> QED BY <2>1, <2>3, <2>4 DEF TypeInv
<1>2. TxInv BY DEF Init, TxInv, InTransaction, Writing
<1>3. TablesInv BY DbAssumption DEF Init, TablesInv
<1>4. Idling BY DEF Init, Idling
<1>5. ASSUME NEW t \in Session PROVE MemInv(t) /\ StoreInv(t)
  <2>1. /\ pc[t] = "closed" /\ pc[t] \notin Having /\ pc[t] \notin Writing
        /\ entries[t] = {} /\ unknown[t] = {} /\ master[t] = {} /\ ~disordered[t]
        /\ ~late[t]
        /\ \A i \in Id : seen[t][i] = NULL
        /\ \A p \in Ptr : data[t][p].val = NULL /\ data[t][p].ref = NULL
    BY DEF Init, Nothing, Having, Writing
  <2>2. /\ SeenInv(t) /\ FetchingInv(t) /\ OriginInv(t) /\ EarlyInv(t) /\ RemovedInv(t)
        /\ CurrentInv(t) /\ AwaitedInv(t) /\ OnceInv(t) /\ ReachedInv(t) /\ DoneInv(t)
    BY <2>1 DEF SeenInv, FetchingInv, OriginInv, EarlyInv, RemovedInv, CurrentInv,
       AwaitedInv, OnceInv, ReachedInv, DoneInv
  <2>3. InOrderInv(t) BY <2>1 DEF InOrderInv, Ptr
  <2>4. TypedInv(t) BY <2>1, DbAssumption DEF TypedInv, Ptr
  <2>5. StoreInv(t)
    BY <2>1 DEF StoreInv, GrowInv, ChangedInv, NamedInv, GoneInv, WrittenInv
  <2> QED BY <2>2, <2>3, <2>4, <2>5 DEF MemInv
<1> QED BY <1>1, <1>2, <1>3, <1>4, <1>5 DEF DbIndInv, SessionsInv

\* The types, what a session has in memory and what its commit has done to the
\* tables, for any program and any number of sessions.
THEOREM Sessions == Spec => []DbIndInv
<1>1. DbIndInv /\ [Next]_vars => DbIndInv'
  <2> SUFFICES ASSUME DbIndInv, [Next]_vars PROVE DbIndInv' OBVIOUS
  <2>1. /\ TypeInv /\ TxInv /\ TablesInv /\ Idling
        /\ \A s \in Session : MemInv(s)
        /\ \A s \in Session : MemInv(s) /\ StoreInv(s)
    BY DEF DbIndInv, SessionsInv
  <2>2. TypeInv' BY <2>1, TypeNext
  <2>3. TxInv' BY <2>1, TxNext
  <2>4. TablesInv' BY <2>1, TablesNext
  <2>5. Idling' BY <2>1, IdlingNext
  <2>6. ASSUME NEW s \in Session PROVE MemInv(s)' /\ StoreInv(s)'
    BY <2>1, MemNext, StoreNext
  <2> QED BY <2>2, <2>3, <2>4, <2>5, <2>6 DEF DbIndInv, SessionsInv
<1> QED BY <1>1, DbInit, PTL DEF Spec

\* When a commit is through, each change is in the tables (DbInv: commitobject,
\* persistobject), with the exceptions that ChangesWritten names.
THEOREM ChangesAreWritten == Spec => []DbInv
<1>1. DbIndInv => DbInv
  <2> SUFFICES ASSUME DbIndInv PROVE DbInv OBVIOUS
  <2>1. TypeOK BY DEF DbIndInv, TypeInv
  <2>2. ASSUME Alone, NEW s \in Session, pc[s] = "commit", ~stopped[s],
               NEW e \in entries[s], e.state \in {"NEW", "MODIFIED"}, e.ptr # NULL, e.reached
        PROVE  \/ Written(s, e) \/ LostReference(s, e.ptr) \/ Namesake(s, e)
               \/ \E f \in entries[s] \ {e} : f.key = e.key
    <3>1. MemInv(s) /\ StoreInv(s) BY DEF DbIndInv, SessionsInv
    <3>2. e \notin ToVisit(s) BY <2>2, <3>1 DEF MemInv, DoneInv
    <3>3. Verdict(e) # "CLEAN" BY <2>2 DEF Verdict
    <3>4. ~(e.filed > 0) BY <2>2, <3>2, <3>3 DEF ToVisit
    <3>5. e.filed \in 0..2
      <4>1. e \in Entry BY <2>1 DEF TypeOK
      <4> QED BY <4>1, EntryFields
    <3>6. e.filed = 0 BY <3>4, <3>5
    <3>7. \/ Written(s, e) \/ LostReference(s, e.ptr)
          \/ Shared(s, e) \/ Outnamed(s, e)
      BY <2>2, <3>1, <3>6 DEF StoreInv, WrittenInv, Writing
    <3>8. Outnamed(s, e) => Namesake(s, e) BY DEF Outnamed, Namesake, WroteName
    <3> QED BY <3>7, <3>8 DEF Shared
  <2>3. ChangesWritten BY <2>2 DEF ChangesWritten
  <2> QED BY <2>1, <2>3 DEF DbInv
<1> QED BY <1>1, Sessions, PTL

\* The COMMIT at which a row changes is of the session that wrote it.
LEMMA CommittedBy ==
  ASSUME DbIndInv, Next, Alone, rows' # rows
  PROVE  \E s \in Session : /\ pc[s] = "commit" /\ pc'[s] = "idle" /\ View(s) = rows'
                            /\ MemInv(s) /\ StoreInv(s)
<1>1. PICK s \in Session : EndCommit(s) BY RowsChangeAtCommit DEF DbIndInv
<1>2. pc[s] = "commit" /\ pc'[s] = "idle"
  BY <1>1 DEF EndCommit, DbIndInv, TxInv
<1>3. View(s) = rows' BY <1>1 DEF EndCommit, End, View
<1> QED BY <1>2, <1>3 DEF DbIndInv, SessionsInv

\* The revision of a row grows with its content, unless somebody else's newer
\* change is overwritten, or the row of another object (RevisionsGrow:
\* persistobject, the delete by revision and INSERT OR REPLACE).
THEOREM RevisionsOfRowsGrow == Spec => RevisionsGrow
<1>1. ASSUME DbIndInv, Next, NEW i \in Id, Alone, rows[i] # NULL, rows'[i] \notin {NULL, rows[i]}
      PROVE  \/ rows'[i].rev > rows[i].rev
             \/ \E s \in Session : /\ pc[s] = "commit" /\ pc'[s] = "idle"
                                   /\ seen[s][i] # rows[i] \/ i \in Drawn(s)
  <2>1. PICK s \in Session : /\ pc[s] = "commit" /\ pc'[s] = "idle" /\ View(s) = rows'
                             /\ StoreInv(s)
    BY <1>1, CommittedBy
  <2>2. rows'[i].rev > rows[i].rev \/ seen[s][i] # rows[i] \/ i \in Drawn(s)
    BY <1>1, <2>1 DEF StoreInv, GrowInv, Writing
  <2> QED BY <2>1, <2>2
<1>2. DbIndInv /\ [Next]_vars
      => [\A i \in Id : /\ Alone /\ rows[i] # NULL /\ rows'[i] \notin {NULL, rows[i]}
                     => \/ rows'[i].rev > rows[i].rev
                        \/ \E s \in Session : /\ pc[s] = "commit" /\ pc'[s] = "idle"
                                              /\ seen[s][i] # rows[i] \/ i \in Drawn(s)]_vars
  BY <1>1
<1> QED BY <1>2, Sessions, PTL DEF Spec, RevisionsGrow

\* A plan that names each definition after the one its foreign key is for refers
\* to no object before its row is fetched (fetchobject, dbsimple__getobject): for
\* such plans the exception late of RemovedOnlyOnPurpose is none.
THEOREM OrderedPlansAreInTime == Spec => [](Ordered => \A s \in Session : ~late[s])
<1>1. DbIndInv => (Ordered => \A s \in Session : ~late[s])
  BY DEF DbIndInv, SessionsInv, MemInv, AwaitedInv
<1> QED BY <1>1, Sessions, PTL

\* A row disappears at the COMMIT of a session that gave its name to another
\* object, or had fetched this revision of it and has a reason
\* (RemovedOnlyOnPurpose: commitobject, what is not reached is removed; INSERT
\* OR REPLACE, what has the same name is deleted).
THEOREM RowsGoOnPurpose == Spec => RemovedOnlyOnPurpose
<1>1. ASSUME DbIndInv, Next, NEW i \in Id, Alone, rows[i] # NULL, rows'[i] = NULL
      PROVE  \E s \in Session :
                /\ pc[s] = "commit" /\ pc'[s] = "idle"
                /\ \/ late[s]
                   \/ NameTaken(s, i)
                   \/ /\ i \in asked[s] \/ ~Kept(s, i) \/ LostReference(s, i)
                      /\ \/ seen[s][i] # NULL /\ seen[s][i].rev = rows[i].rev
                         \/ i \in Drawn(s)
  <2>1. PICK s \in Session : /\ pc[s] = "commit" /\ pc'[s] = "idle" /\ View(s) = rows'
                             /\ StoreInv(s)
    BY <1>1, CommittedBy
  <2>2. ~Pending(s, i) BY <2>1 DEF Pending
  <2>3. \/ late[s]
        \/ Taken(s, i)
        \/ /\ Unwanted(s, i)
           /\ \/ seen[s][i] # NULL /\ seen[s][i].rev = rows[i].rev
              \/ i \in Drawn(s)
    BY <1>1, <2>1, <2>2 DEF StoreInv, GoneInv, Writing
  <2>4. ASSUME Taken(s, i) PROVE NameTaken(s, i)
    <3>0. PICK k \in Id \ {i} : \E m :
             Puts(s, k, TypeOf[i], m) /\ (m = rows[i].name \/ Puts(s, i, TypeOf[i], m))
      BY <2>4 DEF Taken
    <3>1. PICK n : /\ Puts(s, k, TypeOf[i], n)
                   /\ n = rows[i].name \/ Puts(s, i, TypeOf[i], n)
                   /\ TypeOf[i] \in Unique
      BY <2>4, <3>0 DEF Taken
    <3>2. PICK e \in entries[s] : e.key = k /\ WroteName(s, e, TypeOf[i], n)
      BY <3>1 DEF Puts, WroteName
    <3>3. CASE n = rows[i].name BY <3>1, <3>2, <3>3 DEF NameTaken
    <3>4. CASE Puts(s, i, TypeOf[i], n)
      <4>1. PICK g \in entries[s] : g.key = i /\ Wrote(s, g) /\ data[s][g.ptr].name = n
        BY <3>4 DEF Puts
      <4> QED BY <3>1, <3>2, <4>1 DEF NameTaken
    <3> QED BY <3>1, <3>3, <3>4
  <2> QED BY <2>1, <2>3, <2>4 DEF Unwanted
<1>2. DbIndInv /\ [Next]_vars
      => [\A i \in Id : Alone /\ rows[i] # NULL /\ rows'[i] = NULL
                     => \E s \in Session :
                           /\ pc[s] = "commit" /\ pc'[s] = "idle"
                           /\ \/ late[s]
                              \/ NameTaken(s, i)
                              \/ /\ i \in asked[s] \/ ~Kept(s, i) \/ LostReference(s, i)
                                 /\ \/ seen[s][i] # NULL /\ seen[s][i].rev = rows[i].rev
                                    \/ i \in Drawn(s)]_vars
  BY <1>1
<1> QED BY <1>2, Sessions, PTL DEF Spec, RemovedOnlyOnPurpose
=============================================================================
