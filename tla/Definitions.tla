---------------------------- MODULE Definitions ----------------------------
(***************************************************************************)
(* The definition service (src/src/tools/application/definition-service.ts) *)
(* over the unit of work of src/src/tools/storage-transaction.ts.  Storage *)
(* changes one row at a time; an operation runs alone in the section of    *)
(* WriteCoordinator as a list of such changes, any of which may fail or be *)
(* followed by an abort, and is then compensated table by table, row by    *)
(* row.  An action completes one storage call, and starts the next one.    *)
(***************************************************************************)
EXTENDS DefinitionGraph, Sequences, SequencesExt

CONSTANTS
  Clients,         \* the callers of the service, one call at a time each
  Operations,      \* the operations that they may ask for
  Nothing,
  MaxOperations, MaxMishaps,       \* bounds of the exploration
  RestoreMayFail   \* whether a storage call of a compensation may be a fault

Operation ==
  [kind : {"createAgent", "updateAgent"}, agent : Agents, content : Contents]
    \union [kind : {"deleteAgent"}, agent : Agents]
    \union [kind : {"createSquad", "updateSquad"}, squad : Squads, record : SquadRecordSet]
    \union [kind : {"addMember", "removeMember"}, squad : Squads, agent : Agents]
    \union [kind : {"deleteSquad"}, squad : Squads]
    \union [kind : {"point"}, table : {"sessionModes", "nextModes"}, key : Sessions,
            squad : Squads \union {NoSquad, Nothing}]
    \union [kind : {"point"}, table : {"projectDefaults"}, key : Projects, squad : Squads \union {Nothing}]
    \union [kind : {"merge", "recipe", "replace"},
            document : [agents : FiniteTables(Agents, Contents), squads : FiniteTables(Squads, SquadRecordSet)]]
    \union [kind : {"restore"}, version : Squads \X (Nat \ {0})]

ASSUME OperationsAssumption == Operations \subseteq Operation
\* A squad record or a document that is written is one that a user may write.
ASSUME ChoicesAssumption ==
  \A op \in Operations :
    /\ op.kind \in {"createSquad", "updateSquad"} => op.record \in SquadRecords
    /\ op.kind \in {"merge", "recipe", "replace"} => op.document \in Documents
ASSUME BoundsAssumption == MaxOperations \in Nat /\ MaxMishaps \in Nat

VARIABLES
  db,              \* the tables
  tx,              \* the operation in the section, Free when there is none
  call,            \* call[c]: a preview shown to c, or a validation under way for c
  currentRevision, \* WriteCoordinator.currentRevision
  operations, mishaps,               \* used up of the bounds; a mishap is a fault or a crash
  process,         \* number of the host process
  damage           \* "none"; "history" or "graph" once an operation was cut short

definitionsVars == <<db, tx, call, currentRevision, operations, mishaps, process, damage>>

Idle == [stage |-> "idle"]
Free == [phase |-> "free"]

DefinitionsInit ==
  /\ db \in StartGraphs
  /\ tx = Free
  /\ call = [c \in Clients |-> Idle]
  /\ currentRevision = 0
  /\ operations = 0 /\ mishaps = 0
  /\ process = 1
  /\ damage = "none"

(***************************************************************************)
(* Storage calls.  A change is a table with rows to put or keys to delete, *)
(* one call per row, or squads for which to record a version.              *)
(***************************************************************************)
Put(table, rows) == IF rows = <<>> THEN <<>> ELSE <<[do |-> "put", table |-> table, rows |-> rows]>>
Delete(table, keys) == IF keys = {} THEN <<>> ELSE <<[do |-> "delete", table |-> table, keys |-> keys]>>
Record(squads) == IF squads = {} THEN <<>> ELSE <<[do |-> "record", squads |-> squads]>>
Throw == <<[do |-> "throw"]>>

\* The tables after one call of change s, and what is left of the change.
PutOne(s) ==
  {[db |-> [db EXCEPT ![s.table] = Laid(Row(k, s.rows[k]), @)],
    rest |-> Put(s.table, Without(s.rows, {k}))] : k \in DOMAIN s.rows}

DeleteOne(s) ==
  {[db |-> [db EXCEPT ![s.table] = Without(@, {k})],
    rest |-> Delete(s.table, s.keys \ {k})] : k \in s.keys}

\* Fault: the number of a version is one more than the versions that are kept.
CountVersions(s) == Cardinality({k \in DOMAIN db.squadVersions : k[1] = s}) + 1

NextVersion(s) == Latest(db, s) + 1

\* recordSquadVersion for one squad of s: the version, then what it pushes out.
RecordOne(s) ==
  {LET versions == Laid(Row(<<q, NextVersion(q)>>, Snapshot(db, q)), db.squadVersions)
   IN [db |-> [db EXCEPT !.squadVersions = versions],
       rest |-> Delete("squadVersions", Excess(versions, q)) \o Record(s.squads \ {q})] : q \in s.squads}

Outcomes(s) ==
  CASE s.do = "put" -> PutOne(s)
    [] s.do = "delete" -> DeleteOne(s)
    [] s.do = "record" -> RecordOne(s)

(***************************************************************************)
(* The operations: when they are admitted inside the section, the tables   *)
(* they capture, and their storage calls in order.                         *)
(***************************************************************************)
Plan(captured, changes) == [captured |-> captured, changes |-> changes]

CreateAgentPlan(op) == Plan(<<"agents">>, Put("agents", Row(op.agent, op.content)))

\* Fault: the squads of an updated agent get no new version.
UpdateAgentOnly(op) ==
  Plan(<<"agents", "squadVersions">>, Put("agents", Row(op.agent, op.content)))

UpdateAgentPlan(op) ==
  Plan(<<"agents", "squadVersions">>,
       Put("agents", Row(op.agent, op.content)) \o Record(MembersOf(db, op.agent)))

\* Fault: the agent goes first.
DeleteAgentFirst(op) ==
  LET Leave(s) == Put("squads", Row(s, DropMember(db.squads[s], op.agent))) \o Record({s})
  IN Plan(<<"agents", "squads", "squadVersions">>,
          Delete("agents", {op.agent})
          \o FlattenSeq([i \in 1..Cardinality(MembersOf(db, op.agent)) |->
                        Leave(SetToSeq(MembersOf(db, op.agent))[i])]))

\* Each affected squad is updated and recorded in turn, the agent goes last.
DeleteAgentPlan(op) ==
  LET Leave(s) == Put("squads", Row(s, DropMember(db.squads[s], op.agent))) \o Record({s})
  IN Plan(<<"agents", "squads", "squadVersions">>,
          FlattenSeq([i \in 1..Cardinality(MembersOf(db, op.agent)) |->
                        Leave(SetToSeq(MembersOf(db, op.agent))[i])])
          \o Delete("agents", {op.agent}))

PutSquadPlan(s, r) == Plan(<<"squads", "squadVersions">>, Put("squads", Row(s, r)) \o Record({s}))

\* A duplicate or invalid member is found by the update itself, inside the unit.
AddMemberPlan(op) ==
  LET r == AddTo(db.squads[op.squad], op.agent)
  IN IF op.agent \in db.squads[op.squad].members \/ ~ValidSquad(r, DOMAIN db.agents)
       THEN Plan(<<"squads", "squadVersions">>, Throw)
       ELSE PutSquadPlan(op.squad, r)

RemoveMemberPlan(op) ==
  LET r == DropMember(db.squads[op.squad], op.agent)
  IN IF ~ValidSquad(r, DOMAIN db.agents)
       THEN Plan(<<"squads", "squadVersions">>, Throw)
       ELSE PutSquadPlan(op.squad, r)

\* Fault: the one-shots that name the squad are left behind.
DeleteSquadKeepsNext(op) ==
  Plan(<<"squads", "sessionModes", "nextModes", "projectDefaults", "squadVersions">>,
       Delete("sessionModes", PointingInto(db.sessionModes, {op.squad}))
       \o Delete("projectDefaults", PointingInto(db.projectDefaults, {op.squad}))
       \o Delete("squadVersions", {k \in DOMAIN db.squadVersions : k[1] = op.squad})
       \o Delete("squads", {op.squad}))

DeleteSquadPlan(op) ==
  Plan(<<"squads", "sessionModes", "nextModes", "projectDefaults", "squadVersions">>,
       Delete("sessionModes", PointingInto(db.sessionModes, {op.squad}))
       \o Delete("nextModes", PointingInto(db.nextModes, {op.squad}))
       \o Delete("projectDefaults", PointingInto(db.projectDefaults, {op.squad}))
       \o Delete("squadVersions", {k \in DOMAIN db.squadVersions : k[1] = op.squad})
       \o Delete("squads", {op.squad}))

\* Session modes, one-shots and project defaults; op.squad = Nothing inherits.
PointPlan(op) ==
  Plan(<<op.table>>,
       IF op.squad = Nothing THEN Delete(op.table, {op.key}) ELSE Put(op.table, Row(op.key, op.squad)))

\* Each squad of a document is put and recorded in turn.
ImportSquads(d) ==
  LET names == SetToSeq(DOMAIN d.squads)
  IN FlattenSeq([i \in 1..Len(names) |->
                   Put("squads", Row(names[i], d.squads[names[i]])) \o Record({names[i]})])

AllTables == <<"agents", "squads", "sessionModes", "nextModes", "projectDefaults", "squadVersions">>

MergePlan(op) ==
  LET d == op.document
      others == Affected([db EXCEPT !.squads = Laid(d.squads, @)], Changed(db, d.agents), DOMAIN d.squads)
  IN Plan(IF op.kind = "recipe" THEN <<"agents", "squads", "squadVersions">> ELSE AllTables,
          Put("agents", d.agents) \o ImportSquads(d) \o Record(others))

ReplacePlan(op) ==
  LET d == op.document
      Dangling(table) == {k \in DOMAIN table : table[k] \notin DOMAIN d.squads \union {NoSquad}}
  IN Plan(AllTables,
          Delete("agents", DOMAIN db.agents) \o Delete("squads", DOMAIN db.squads)
          \o Delete("sessionModes", Dangling(db.sessionModes))
          \o Delete("nextModes", Dangling(db.nextModes))
          \o Delete("projectDefaults", Dangling(db.projectDefaults))
          \o Delete("squadVersions", {k \in DOMAIN db.squadVersions : k[1] \notin DOMAIN d.squads})
          \o Put("agents", d.agents) \o ImportSquads(d))

\* Fault: other squads with a restored member get no new version.
RestoreAlone(op) ==
  LET found == db.squadVersions[op.version]
      s == op.version[1]
  IN Plan(<<"agents", "squads", "squadVersions">>,
          Put("agents", found.members) \o Put("squads", Row(s, found.record)) \o Record({s}))

RestorePlan(op) ==
  LET found == db.squadVersions[op.version]
      s == op.version[1]
      changed == {a \in DOMAIN found.members : a \notin DOMAIN db.agents \/ db.agents[a] # found.members[a]}
      others == Affected(db, changed, {s})
  IN Plan(<<"agents", "squads", "squadVersions">>,
          Put("agents", found.members)
          \o (IF ValidSquad(found.record, DOMAIN db.agents \union DOMAIN found.members)
                THEN Put("squads", Row(s, found.record)) \o Record({s}) \o Record(others)
                ELSE Throw))

PlanOf(op) ==
  CASE op.kind = "createAgent" -> CreateAgentPlan(op)
    [] op.kind = "updateAgent" -> UpdateAgentPlan(op)
    [] op.kind = "deleteAgent" -> DeleteAgentPlan(op)
    [] op.kind \in {"createSquad", "updateSquad"} -> PutSquadPlan(op.squad, op.record)
    [] op.kind = "addMember" -> AddMemberPlan(op)
    [] op.kind = "removeMember" -> RemoveMemberPlan(op)
    [] op.kind = "deleteSquad" -> DeleteSquadPlan(op)
    [] op.kind = "point" -> PointPlan(op)
    [] op.kind \in {"merge", "recipe"} -> MergePlan(op)
    [] op.kind = "replace" -> ReplacePlan(op)
    [] op.kind = "restore" -> RestorePlan(op)

\* Operations that find nothing to delete return false and open no unit of work.
Vacuous(op) ==
  \/ op.kind = "deleteAgent" /\ op.agent \notin DOMAIN db.agents
  \/ op.kind = "deleteSquad" /\ op.squad \notin DOMAIN db.squads

\* What is checked in the section before the unit of work; a throw changes nothing.
Admitted(op) ==
  CASE op.kind = "createAgent" -> op.agent \notin DOMAIN db.agents
    [] op.kind = "updateAgent" -> op.agent \in DOMAIN db.agents
    [] op.kind = "deleteAgent" ->
         \A s \in MembersOf(db, op.agent) :
           db.squads[s].members # {op.agent} /\ op.agent \notin db.squads[s].gate
    [] op.kind = "createSquad" -> op.squad \notin DOMAIN db.squads /\ ValidSquad(op.record, DOMAIN db.agents)
    [] op.kind = "updateSquad" -> op.squad \in DOMAIN db.squads /\ ValidSquad(op.record, DOMAIN db.agents)
    [] op.kind = "addMember" -> op.agent \in DOMAIN db.agents /\ op.squad \in DOMAIN db.squads
    [] op.kind = "removeMember" ->
         /\ op.squad \in DOMAIN db.squads
         /\ db.squads[op.squad].members # {op.agent}
         /\ op.agent \notin db.squads[op.squad].gate
    [] op.kind = "point" -> op.squad \in DOMAIN db.squads \union {Nothing, NoSquad}
    [] op.kind = "merge" -> ValidDocument(op.document, DOMAIN db.agents)
    [] op.kind \in {"replace", "recipe"} -> ValidDocument(op.document, {})
    [] op.kind = "restore" -> op.version \in DOMAIN db.squadVersions
    [] OTHER -> TRUE

(***************************************************************************)
(* Before the section.  A restore or an import carries the revision of the *)
(* preview its user confirmed; it and every agent record wait for their    *)
(* model routes to be resolved, outside the section.                       *)
(***************************************************************************)
Previewed == {"restore", "merge", "replace", "recipe"}
Routed == {"createAgent", "updateAgent"}

MayAsk(c) == tx = Free /\ operations < MaxOperations /\ call[c] = Idle

\* The tables and the revision are read together, and what would change is shown.
Show(c, op) ==
  /\ MayAsk(c)
  /\ Admitted(op)
  /\ call' = [call EXCEPT ![c] = [stage |-> "previewed", op |-> op, revision |-> currentRevision,
                                  process |-> process, graph |-> db]]
  /\ operations' = operations + 1
  /\ UNCHANGED <<db, tx, currentRevision, mishaps, process, damage>>

PreviewImport(c, op) == op.kind \in {"merge", "replace"} /\ Show(c, op)
PreviewRecipe(c, op) == op.kind = "recipe" /\ Show(c, op)
PreviewRestore(c, op) == op.kind = "restore" /\ Show(c, op)
Preview(c, op) == PreviewImport(c, op) \/ PreviewRecipe(c, op) \/ PreviewRestore(c, op)

\* The user confirms: readVersioned and the first comparison of revisions.
ConfirmPreview(c) ==
  /\ tx = Free
  /\ call[c].stage = "previewed"
  /\ call' = [call EXCEPT ![c] = IF currentRevision = call[c].revision /\ Admitted(call[c].op)
                                   THEN [call[c] EXCEPT !.stage = "validating"] ELSE Idle]
  /\ UNCHANGED <<db, tx, currentRevision, operations, mishaps, process, damage>>

\* createAgent, updateAgent up to the wait for the routes.
Observe(c, op) ==
  /\ MayAsk(c)
  /\ op.kind \in Routed
  /\ Admitted(op)
  /\ call' = [call EXCEPT ![c] = [stage |-> "validating", op |-> op, revision |-> currentRevision,
                                  process |-> process, graph |-> db]]
  /\ operations' = operations + 1
  /\ UNCHANGED <<db, tx, currentRevision, mishaps, process, damage>>

\* A route does not resolve, or the caller aborts before the section.
GiveUp(c) ==
  /\ call[c].stage = "validating"
  /\ call' = [call EXCEPT ![c] = Idle]
  /\ UNCHANGED <<db, tx, currentRevision, operations, mishaps, process, damage>>

(***************************************************************************)
(* Inside the section.                                                     *)
(***************************************************************************)
\* A unit of work without a storage call (of an empty document) succeeds at once.
Run(op) ==
  IF Vacuous(op) \/ PlanOf(op).changes = <<>>
    THEN currentRevision' = currentRevision + 1 /\ UNCHANGED tx
    ELSE /\ tx' = [op |-> op, before |-> db, phase |-> "forward", aborted |-> FALSE, clearing |-> TRUE,
                   captured |-> PlanOf(op).captured, changes |-> PlanOf(op).changes]
         /\ UNCHANGED currentRevision

\* An operation without a preview or a route to validate.
Begin(c, op) ==
  /\ MayAsk(c)
  /\ op.kind \notin Previewed \union Routed
  /\ Vacuous(op) \/ Admitted(op)
  /\ Run(op)
  /\ operations' = operations + 1
  /\ UNCHANGED <<db, call, mishaps, process, damage>>

\* Fault: an import notices a changed squad only.
SameSquads(c) == DOMAIN call[c].graph.squads = DOMAIN db.squads

\* The second comparison of revisions, for what was previewed.
Unchanged(c) == call[c].op.kind \in Previewed => currentRevision = call[c].revision

EnterSection(c) ==
  /\ tx = Free
  /\ call[c].stage = "validating"
  /\ call' = [call EXCEPT ![c] = Idle]
  /\ IF Unchanged(c) /\ Admitted(call[c].op) THEN Run(call[c].op) ELSE UNCHANGED <<tx, currentRevision>>
  /\ UNCHANGED <<db, operations, mishaps, process, damage>>

Forward == tx.phase = "forward"
Blocked(s) ==
  \/ s.do = "throw"
  \/ s.do = "record" /\ \E q \in s.squads : ~(db.squads[q].members \subseteq DOMAIN db.agents)

Compensate == [tx EXCEPT !.phase = "rollback", !.changes = <<>>]

\* A storage call completes.  An abort that came meanwhile is seen now.
Step ==
  /\ Forward
  /\ ~Blocked(Head(tx.changes))
  /\ \E o \in Outcomes(Head(tx.changes)) :
       LET left == o.rest \o Tail(tx.changes)
       IN /\ db' = o.db
          /\ CASE tx.aborted -> tx' = Compensate /\ UNCHANGED currentRevision
               [] ~tx.aborted /\ left = <<>> -> tx' = Free /\ currentRevision' = currentRevision + 1
               [] OTHER -> tx' = [tx EXCEPT !.changes = left] /\ UNCHANGED currentRevision
  /\ UNCHANGED <<call, operations, mishaps, process, damage>>

\* The update or the recording of a version finds an invalid squad.
Refuse ==
  /\ Forward
  /\ Blocked(Head(tx.changes))
  /\ tx' = Compensate
  /\ UNCHANGED <<db, call, currentRevision, operations, mishaps, process, damage>>

\* The storage call rejects, before or after its row was written.
StepFails ==
  /\ Forward
  /\ ~Blocked(Head(tx.changes))
  /\ mishaps < MaxMishaps
  /\ mishaps' = mishaps + 1
  /\ db' \in {db} \union {o.db : o \in Outcomes(Head(tx.changes))}
  /\ tx' = Compensate
  /\ UNCHANGED <<call, currentRevision, operations, process, damage>>

AbortOperation ==
  /\ Forward
  /\ ~tx.aborted
  /\ tx' = [tx EXCEPT !.aborted = TRUE]
  /\ UNCHANGED <<db, call, currentRevision, operations, mishaps, process, damage>>

(***************************************************************************)
(* StorageUnitOfWork: the captured tables in reverse, every row deleted,   *)
(* then every row of the snapshot put back.                                *)
(***************************************************************************)
Rollback == tx.phase = "rollback"
Table == Last(tx.captured)

NextTable ==
  IF Len(tx.captured) = 1 THEN Free
  ELSE [tx EXCEPT !.captured = Front(@), !.clearing = TRUE]

\* Fault: a table is put back without its new rows being deleted.
RestoreOverwrites ==
  /\ Rollback
  /\ db' = [db EXCEPT ![Table] = Laid(tx.before[Table], @)]
  /\ tx' = NextTable
  /\ UNCHANGED <<call, currentRevision, operations, mishaps, process, damage>>

\* One storage call of restore(); an empty table takes none.
RestoreTable ==
  /\ Rollback
  /\ IF tx.clearing /\ db[Table] # <<>>
       THEN /\ \E k \in DOMAIN db[Table] : db' = [db EXCEPT ![Table] = Without(@, {k})]
            /\ UNCHANGED tx
       ELSE LET missing == DOMAIN tx.before[Table] \ DOMAIN db[Table]
            IN IF missing = {} THEN tx' = NextTable /\ UNCHANGED db
               ELSE \E k \in missing :
                      /\ db' = [db EXCEPT ![Table] = Laid(Row(k, tx.before[Table][k]), @)]
                      /\ tx' = [tx EXCEPT !.clearing = FALSE]
  /\ UNCHANGED <<call, currentRevision, operations, mishaps, process, damage>>

\* A call of restore() rejects: the rest of this table is not restored.
RestoreFails ==
  /\ Rollback
  /\ RestoreMayFail
  /\ mishaps < MaxMishaps
  /\ db[Table] # <<>> \/ tx.before[Table] # <<>>
  /\ mishaps' = mishaps + 1
  /\ tx' = NextTable
  /\ damage' = "graph"
  /\ UNCHANGED <<db, call, currentRevision, operations, process>>

\* The host dies: the tables stay as they are, the client's page keeps its preview.
Crash ==
  /\ mishaps < MaxMishaps
  /\ mishaps' = mishaps + 1
  /\ process' = process + 1
  /\ tx' = Free
  /\ currentRevision' = 0
  /\ call' = [c \in Clients |-> IF call[c].stage = "previewed" THEN call[c] ELSE Idle]
  /\ damage' = CASE tx = Free -> damage
                 [] Forward /\ tx.op.kind # "replace" /\ damage # "graph" -> "history"
                 [] OTHER -> "graph"
  /\ UNCHANGED <<db, operations>>

DefinitionsNext ==
  \/ \E c \in Clients, op \in Operations : Preview(c, op) \/ Observe(c, op) \/ Begin(c, op)
  \/ \E c \in Clients : ConfirmPreview(c) \/ GiveUp(c) \/ EnterSection(c)
  \/ Step \/ Refuse \/ StepFails \/ AbortOperation
  \/ RestoreTable \/ RestoreFails
  \/ Crash

DefinitionsSpec == DefinitionsInit /\ [][DefinitionsNext]_definitionsVars

(***************************************************************************)
(* Properties.                                                             *)
(***************************************************************************)
\* Every table holds rows of its type under keys of its type; a transaction
\* has calls left to make, or tables left to restore.
TablesOK ==
  /\ Typed(db)
  /\ Forward => tx.changes # <<>>
  /\ Forward \/ Rollback => tx.captured # <<>>
  /\ currentRevision \in 0..MaxOperations
  /\ damage \in {"none", "history", "graph"}

\* No squad names an unknown agent and no mode, one-shot, project default or
\* version an unknown squad, whatever failed or was aborted and whenever the host
\* died except while replacing or compensating.  Half done operations included:
\* the writes of all but a replacing import are ordered for it.  (With the type
\* invariant.)
GraphIsClosed ==
  /\ TablesOK
  /\ damage # "graph" /\ (tx = Free \/ (Forward /\ tx.op.kind # "replace")) => Closed(db)

\* The history of squads is right.  Between operations the newest version of
\* a squad is what it and its members are: no operation changes a squad or a
\* shared agent behind it.  And a version, once recorded, never changes: a number
\* is not used twice, also after older versions were pruned and after a
\* compensation (one that fails half way may lose the newest and its number).
HistoryIsCurrent == tx = Free /\ damage = "none" => HistoryCurrent(db)
VersionsKept ==
  damage # "graph" =>
    \A k \in DOMAIN db.squadVersions \intersect DOMAIN db'.squadVersions :
      db'.squadVersions[k] = db.squadVersions[k]
HistoryIsRight == []HistoryIsCurrent /\ [][VersionsKept]_definitionsVars

\* An import or a restore is applied to the definitions its preview showed,
\* as long as the process that showed it lives and no compensation failed.
AppliedAsPreviewed ==
  [][\A c \in Clients :
       EnterSection(c) /\ tx' # Free /\ call[c].op.kind \in Previewed
         /\ call[c].process = process /\ damage # "graph"
         => db = call[c].graph]_definitionsVars

\* Each operation takes effect on all of its tables in one step or on none,
\* until one was cut short by the death of the host or a second failure.
Committed == IF tx = Free THEN db ELSE tx.before
Atomic == INSTANCE AtomicDefinitions WITH graph <- Committed
ImplementsAtomicDefinitions ==
  /\ Atomic!AtomicInit
  /\ [][Atomic!AtomicNext \/ damage' # "none"]_Committed

=============================================================================
