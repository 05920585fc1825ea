--------------------------- MODULE DatabaseStart ---------------------------
(***************************************************************************)
(* Processes that start on one PostgreSQL database.  Each one prepares its *)
(* schemas under advisory locks on a connection of its own (components     *)
(* governedpostgres and postgres), then applies the migrations its release *)
(* declares (internal/databasecontrol).  Releases are rolled out, rolled   *)
(* back and edited; processes die at any point.                            *)
(*                                                                         *)
(* A profile names an application schema and, for governedpostgres, a      *)
(* queue schema; with queue = None it is the postgres component.  One      *)
(* Module with migrations stands for each application schema.              *)
(***************************************************************************)
EXTENDS Naturals, SequencesExt

CONSTANTS
    Procs,                  \* processes
    Schemas,                \* PostgreSQL schemas
    Key,                    \* SchemaAdvisoryLockKey: schema -> number
    Profiles,               \* the configured pairs [app, queue]
    Releases,               \* versions of the application
    Declared,               \* release -> its migrations [id, sum], by id
    MaxStarts,              \* bound on starts
    None

ASSUME ProfilesAssumption ==
    \A f \in Profiles : f.app \in Schemas /\ f.queue \in Schemas \cup {None} /\ f.app # f.queue
ASSUME DeclaredAssumption ==
    \A r \in Releases : \A i, j \in 1 .. Len(Declared[r]) : i < j => Declared[r][i].id < Declared[r][j].id

VARIABLES
    bind,                   \* modary_schema_profile of each schema, committed
    log,                    \* modary_module_migration of each schema, as committed
    pc,                     \* where each process is
    conf,                   \* its release and its profile
    held,                   \* the advisory locks its sessions hold
    seen,                   \* the rows its transaction has read
    starts

db == <<bind, log>>
vars == <<bind, log, pc, conf, held, seen, starts>>

Row(role, peer) == [role |-> role, peer |-> peer]
Rows == [role : {"application", "queue"}, peer : Schemas \cup {None}]
Preparing == {"create", "bindRead", "bindCommit", "queue"}
Migrating == {"read", "apply"}
Labels == {"off", "lock", "unlock", "migrate", "running"} \cup Preparing \cup Migrating

TypeOK ==
    /\ bind \in [Schemas -> Rows \cup {None}]
    /\ \A s \in Schemas : \A i \in DOMAIN log[s] : \E r \in Releases : log[s][i] \in Range(Declared[r])
    /\ pc \in [Procs -> Labels]
    /\ conf \in [Procs -> [release : Releases, profile : Profiles] \cup {None}]
    /\ held \in [Procs -> SUBSET Range(Key)]
    /\ starts \in 0 .. MaxStarts

(* A database that is empty, or was used by the postgres component, whose  *)
(* binding has no peer.                                                    *)
Init ==
    /\ \E used \in SUBSET {f.app : f \in Profiles} :
        /\ Cardinality(used) <= 1
        /\ bind = [s \in Schemas |-> IF s \in used THEN Row("application", None) ELSE None]
    /\ log = [s \in Schemas |-> <<>>]
    /\ pc = [p \in Procs |-> "off"]
    /\ conf = [p \in Procs |-> None]
    /\ held = [p \in Procs |-> {}]
    /\ seen = [p \in Procs |-> <<>>]
    /\ starts = 0

-----------------------------------------------------------------------------
App(p) == conf[p].profile.app
Queue(p) == conf[p].profile.queue
Current(p) == Declared[conf[p].release]
Own(p) == {App(p), Queue(p)} \ {None}

Goto(p, l) == pc' = [pc EXCEPT ![p] = l]

(* A process that fails, or is killed, closes its connections: the server  *)
(* rolls back and frees its locks.                                         *)
Ends(p) ==
    /\ Goto(p, "off")
    /\ conf' = [conf EXCEPT ![p] = None]
    /\ held' = [held EXCEPT ![p] = {}]
    /\ seen' = [seen EXCEPT ![p] = <<>>]

Start(p, r, f) ==
    /\ pc[p] = "off" /\ starts < MaxStarts
    /\ starts' = starts + 1
    /\ Goto(p, "lock")
    /\ conf' = [conf EXCEPT ![p] = [release |-> r, profile |-> f]]
    /\ UNCHANGED <<db, held, seen>>

FreeFor(p, k) == \A o \in Procs \ {p} : k \notin held[o]

(* Mutant: the keys in the order of the options. *)
LockKeysAsGiven(p) ==
    IF Queue(p) = None \/ Key[App(p)] = Key[Queue(p)] THEN <<Key[App(p)]>> ELSE <<Key[App(p)], Key[Queue(p)]>>

(* orderedSchemaLockKeys *)
LockKeys(p) == SetToSortSeq({Key[s] : s \in Own(p)}, <)

(* pg_advisory_lock waits until no other session holds the key. *)
Lock(p) ==
    /\ pc[p] = "lock"
    /\ LET todo == SelectSeq(LockKeys(p), LAMBDA k : k \notin held[p])
       IN  IF todo = <<>>
           THEN Goto(p, "create") /\ UNCHANGED held
           ELSE /\ FreeFor(p, Head(todo))
                /\ held' = [held EXCEPT ![p] = @ \cup {Head(todo)}]
                /\ UNCHANGED pc
    /\ UNCHANGED <<db, conf, seen, starts>>

(* createSchemas: afterwards the schemas exist and are owned. *)
Create(p) ==
    /\ pc[p] = "create"
    /\ Goto(p, "bindRead")
    /\ UNCHANGED <<db, conf, held, seen, starts>>

(* bindSchemaPair and bindApplicationSchema: the row a transaction leaves  *)
(* behind for what it read, and whether that is what the profile needs.    *)
BoundRow(row, role, peer) ==
    CASE row = None -> Row(role, peer)
      [] row = Row("application", None) /\ role = "application" -> Row(role, peer)
      [] OTHER -> row

Fits(row, role, peer) == row.role = role /\ (peer # None => row.peer = peer)

(* The bindings of a profile, in the order they are visited. *)
Bindings(p) ==
    LET app == [schema |-> App(p), role |-> "application", peer |-> Queue(p)]
        queue == [schema |-> Queue(p), role |-> "queue", peer |-> App(p)]
    IN  IF Queue(p) = None THEN <<app>> ELSE <<app, queue>>

(* The transaction reads one row after the other. *)
BindRead(p) ==
    /\ pc[p] = "bindRead"
    /\ LET b == Bindings(p)[Len(seen[p]) + 1]
       IN  IF Fits(BoundRow(bind[b.schema], b.role, b.peer), b.role, b.peer)
           THEN /\ seen' = [seen EXCEPT ![p] = Append(@, bind[b.schema])]
                /\ Goto(p, IF Len(seen'[p]) = Len(Bindings(p)) THEN "bindCommit" ELSE "bindRead")
                /\ UNCHANGED <<held, conf>>
           ELSE Ends(p)
    /\ UNCHANGED <<db, starts>>

(* It commits the rows it inserted or updated, unless another transaction  *)
(* has committed one of them first.                                        *)
BindCommit(p) ==
    /\ pc[p] = "bindCommit"
    /\ LET bs == Bindings(p)
           after(i) == BoundRow(seen[p][i], bs[i].role, bs[i].peer)
           writes == {i \in DOMAIN bs : after(i) # seen[p][i]}
       IN  IF \A i \in writes : bind[bs[i].schema] = seen[p][i]
           THEN /\ bind' = [s \in Schemas |->
                               IF \E i \in writes : bs[i].schema = s
                               THEN after(CHOOSE i \in writes : bs[i].schema = s)
                               ELSE bind[s]]
                /\ Goto(p, IF Queue(p) = None THEN "unlock" ELSE "queue")
                /\ seen' = [seen EXCEPT ![p] = <<>>]
                /\ UNCHANGED <<held, conf>>
           ELSE Ends(p) /\ UNCHANGED bind
    /\ UNCHANGED <<log, starts>>

(* River's own migrations, on a connection of the pool, and the inspection *)
(* indexes.                                                                *)
MigrateQueue(p) ==
    /\ pc[p] = "queue"
    /\ Goto(p, "unlock")
    /\ UNCHANGED <<db, conf, held, seen, starts>>

Unlock(p) ==
    /\ pc[p] = "unlock"
    /\ LET left == SelectSeq(LockKeys(p), LAMBDA k : k \in held[p])
       IN  IF left = <<>>
           THEN Goto(p, "migrate") /\ UNCHANGED held
           ELSE held' = [held EXCEPT ![p] = @ \ {Last(left)}] /\ UNCHANGED pc
    /\ UNCHANGED <<db, conf, seen, starts>>

-----------------------------------------------------------------------------
(* ApplyMigrations: one transaction. *)

(* Mutant: the migrations are not serialized. *)
LockMigrationsSkipped(p) ==
    /\ pc[p] = "migrate"
    /\ Goto(p, "read")
    /\ UNCHANGED <<db, conf, held, seen, starts>>

(* LockMigrations: pg_advisory_xact_lock on the key of the schema, the     *)
(* same key that prepares it.                                              *)
LockMigrations(p) ==
    /\ pc[p] = "migrate"
    /\ FreeFor(p, Key[App(p)])
    /\ held' = [held EXCEPT ![p] = {Key[App(p)]}]
    /\ Goto(p, "read")
    /\ UNCHANGED <<db, conf, seen, starts>>

(* readAppliedMigrations: ORDER BY migration_id. *)
Applied(s) == SetToSortSeq(Range(log[s]), LAMBDA m, n : m.id < n.id)

(* Mutant: the checksums are not compared. *)
SameIDs(applied, current) ==
    Len(applied) <= Len(current) /\ \A i \in DOMAIN applied : applied[i].id = current[i].id

(* What has been applied is a prefix of what is declared, by identifier    *)
(* and by checksum.                                                        *)
CurrentPrefix(applied, current) ==
    Len(applied) <= Len(current) /\ \A i \in DOMAIN applied : applied[i] = current[i]

ReadApplied(p) ==
    /\ pc[p] = "read"
    /\ IF CurrentPrefix(Applied(App(p)), Current(p))
       THEN /\ seen' = [seen EXCEPT ![p] = Applied(App(p))]
            /\ Goto(p, "apply")
            /\ UNCHANGED <<held, conf>>
       ELSE Ends(p)
    /\ UNCHANGED <<db, starts>>

(* The rest is executed and recorded, and commits together; migration_id   *)
(* is a primary key.                                                       *)
Missing(p) ==
    SubSeq(Current(p), Len(seen[p]) + 1, Len(Current(p)))

Conflicts(p) ==
    \E m \in Range(Missing(p)), n \in Range(log[App(p)]) : m.id = n.id

CommitMigrations(p) ==
    /\ pc[p] = "apply"
    /\ IF Conflicts(p)
       THEN Ends(p) /\ UNCHANGED log
       ELSE /\ log' = [log EXCEPT ![App(p)] = @ \o Missing(p)]
            /\ Goto(p, "running")
            /\ UNCHANGED conf
            /\ held' = [held EXCEPT ![p] = {}]
            /\ seen' = [seen EXCEPT ![p] = <<>>]
    /\ UNCHANGED <<bind, starts>>

(* The commit is applied and its answer is lost: the start fails. *)
CommitUnanswered(p) ==
    /\ pc[p] = "apply" /\ ~Conflicts(p)
    /\ log' = [log EXCEPT ![App(p)] = @ \o Missing(p)]
    /\ Ends(p)
    /\ UNCHANGED <<bind, starts>>

(* A statement fails, the context ends, the process is stopped or killed.  *)
Exit(p) ==
    /\ pc[p] # "off"
    /\ Ends(p)
    /\ UNCHANGED <<db, starts>>

Step(p) ==
    \/ Lock(p) \/ Create(p) \/ BindRead(p) \/ BindCommit(p) \/ MigrateQueue(p)
    \/ Unlock(p) \/ LockMigrations(p) \/ ReadApplied(p) \/ CommitMigrations(p)

Next ==
    \E p \in Procs :
        \/ \E r \in Releases, f \in Profiles : Start(p, r, f)
        \/ Step(p)
        \/ CommitUnanswered(p)
        \/ Exit(p)

Spec == Init /\ [][Next]_vars

(* A process that can go on does; advisory locks are granted in turn. *)
FairSpec == Spec /\ \A p \in Procs : WF_vars(Step(p))

-----------------------------------------------------------------------------
(* The schemas a process changes outside a short statement. *)
Changing(p) ==
    IF pc[p] \in Preparing THEN Own(p) ELSE IF pc[p] \in Migrating THEN {App(p)} ELSE {}

(* No two processes work on one schema: neither two that prepare it, in    *)
(* whatever role, nor one that prepares and one that migrates it.          *)
PreparesAlone ==
    \A p, o \in Procs : p # o => Changing(p) \cap Changing(o) = {}

(* A process that reached its handlers runs on schemas bound to its        *)
(* profile, and its migrations are the first ones of the schema's history, *)
(* whatever other releases and profiles were started before or since.      *)
RunsOnItsSchemas ==
    \A p \in Procs : pc[p] = "running" =>
        /\ \A i \in DOMAIN Bindings(p) :
            LET b == Bindings(p)[i] IN bind[b.schema] # None /\ Fits(bind[b.schema], b.role, b.peer)
        /\ IsPrefix(Current(p), log[App(p)])

(* Profiles that name the same schemas in opposite roles do not block each *)
(* other: every start runs or fails.                                       *)
StartsEnd ==
    \A p \in Procs : (pc[p] = "lock") ~> (pc[p] \in {"running", "off"})
=============================================================================
