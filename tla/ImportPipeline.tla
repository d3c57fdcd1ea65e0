--------------------------- MODULE ImportPipeline ---------------------------
(* The gated import pipeline (importService.ts, importActions.ts): a file  *)
(* is uploaded or fetched, mapped and validated, and approved or rejected. *)
(*                                                                         *)
(* A request is one server action.  What validating and approving decide   *)
(* from is read before their transactions begin, and the status they write *)
(* is not compared with the one there.  exclusive tells PGlite, where a    *)
(* transaction keeps every other statement out, from Postgres at READ      *)
(* COMMITTED.                                                              *)
EXTENDS ImportRows, Sequences

CONSTANTS
  Batches,     \* bound: sets of files of which all that are uploaded are from one
  Mappings,    \* assignments of a file's columns to the fields
  Identity1,   \* the mapping that every connector dataset has
  Clerks,      \* requests at work at one time that may approve
  Reviewers,   \* requests that only upload, validate, reject and edit by hand
  Databases,   \* the values of exclusive to run with
  FirstRecords,\* the records there to begin with
  HandNames,   \* bound: names of players entered by hand
  MaxImports,  \* bound: files ever uploaded
  MaxWrites    \* bound: commits and edits by hand

(* rows[m] is None where mapping m leaves a required field unmapped.       *)
FileOK(file) ==
  /\ file.kind \in Kinds
  /\ file.bundle \in BOOLEAN
  /\ \A m \in Mappings : file.rows[m] # None =>
       /\ file.rows[m] \in Seq(Rows)
       /\ \A n \in DOMAIN file.rows[m] : file.rows[m][n].sound => Complete(file.kind, file.rows[m][n])
Files == UNION Batches
Imports == 1..MaxImports
Slots == Clerks \cup Reviewers

ASSUME FilesAssumption == \A file \in Files : FileOK(file)
ASSUME MappingsAssumption == None \notin Mappings /\ Identity1 \in Mappings
ASSUME SlotsAssumption == Clerks \cap Reviewers = {}
ASSUME DatabasesAssumption == Databases \subseteq BOOLEAN
ASSUME BoundsAssumption == HandNames \subseteq Names /\ MaxImports \in Nat /\ MaxWrites \in Nat
ASSUME RecordsAssumption ==
  /\ FirstRecords \in Records
  /\ FirstRecords.imported = [kind \in NamedKinds |-> [name \in Names |-> 0]]
  /\ FirstRecords.contracts = {}
  /\ FirstRecords.ext = [key \in Keys |-> None]

VARIABLES
  exclusive,  \* does a transaction exclude other statements?
  imports,    \* the rows of imports, in the order they were made
  errors,     \* the rows of import_errors of each: row number and mapping
  records,    \* what the imports are about
  writes,     \* how often records were written
  pc,         \* where each request stands
  task        \* what each request has read and goes on with

vars == <<exclusive, imports, errors, records, writes, pc, task>>

Init ==
  /\ exclusive \in Databases
  /\ imports = <<>>
  /\ errors = [i \in Imports |-> {}]
  /\ records = FirstRecords
  /\ writes = 0
  /\ pc = [r \in Slots |-> "idle"]
  /\ task = [r \in Slots |-> None]

MayRun(r) == exclusive => \A q \in Slots \ {r} : pc[q] # "clearing"

Goto(r, label, data) ==
  /\ pc' = [pc EXCEPT ![r] = label]
  /\ task' = [task EXCEPT ![r] = data]

Finish(r) == Goto(r, "idle", None)

FromConnector(i) == imports[i].file.kind \in ConnectorKinds
RowsUnder(i, m) == imports[i].file.rows[m]
Outcome(i, m) == ValidRows(imports[i].file.kind, RowsUnder(i, m), records)

-----------------------------------------------------------------------------
(* createImport and createConnectorImport: the second goes on to validate. *)
Upload(r, file) ==
  /\ pc[r] = "idle"
  /\ MayRun(r)
  /\ Len(imports) < MaxImports
  /\ \E batch \in Batches : {file} \cup {imports[i].file : i \in DOMAIN imports} \subseteq batch
  /\ imports' = Append(imports, [file |-> file, status |-> "pending", mapping |-> None])
  /\ IF file.kind \in ConnectorKinds
     THEN Goto(r, "uploaded", [import |-> Len(imports')])
     ELSE Finish(r)
  /\ UNCHANGED <<exclusive, errors, records, writes>>

(* Fault: rows are numbered from zero.                                     *)
Numbered_FromZero(numbers, m) == {<<n - 1, m>> : n \in numbers}

Numbered(numbers, m) == {<<n, m>> : n \in numbers}

(* validateImport, before its transaction: the status is checked and the   *)
(* rows are validated against the records as they are.                     *)
ValidateRead(r, i, m) ==
  /\ \/ pc[r] = "idle"
     \/ pc[r] = "uploaded" /\ task[r].import = i
  /\ MayRun(r)
  /\ imports[i].status \notin {"committed", "rejected"}
  /\ FromConnector(i) => m = Identity1
  /\ RowsUnder(i, m) # None
  /\ Goto(r, "validating",
          [import |-> i, mapping |-> m,
           issues |-> Numbered(DOMAIN RowsUnder(i, m) \ Outcome(i, m), m)])
  /\ UNCHANGED <<exclusive, imports, errors, records, writes>>

(* Fault: the errors of an earlier mapping are left.                       *)
Cleared_None(i) == {}

Cleared(i) == errors[i]

(* Its transaction deletes the errors it sees, which on Postgres are those *)
(* committed before, even if it has to wait for another's delete, ...      *)
ClearErrors(r) ==
  /\ pc[r] = "validating"
  /\ MayRun(r)
  /\ Goto(r, "clearing", [import |-> task[r].import, mapping |-> task[r].mapping,
                          issues |-> task[r].issues, cleared |-> Cleared(task[r].import)])
  /\ UNCHANGED <<exclusive, imports, errors, records, writes>>

(* ... inserts its own, and sets the mapping and the status.               *)
StoreErrors(r) ==
  LET i == task[r].import
  IN  /\ pc[r] = "clearing"
      /\ MayRun(r)
      /\ errors' = [errors EXCEPT ![i] = (@ \ task[r].cleared) \cup task[r].issues]
      /\ imports' = [imports EXCEPT ![i].mapping = task[r].mapping,
                                    ![i].status = "awaiting_approval"]
      /\ Finish(r)
      /\ UNCHANGED <<exclusive, records, writes>>

-----------------------------------------------------------------------------
(* approveImportAction and approveBundleAction: one import, or those of a  *)
(* bundle that await approval, oldest first, committed one by one.         *)
Awaiting(i) == imports[i].status = "awaiting_approval"

Approve(r, queue) ==
  /\ pc[r] = "idle"
  /\ MayRun(r)
  /\ queue # {}
  /\ Goto(r, "approving", [queue |-> queue])
  /\ UNCHANGED <<exclusive, imports, errors, records, writes>>

Bundle == {i \in DOMAIN imports : imports[i].file.bundle /\ Awaiting(i)}

(* Fault: the rows that validation found good are trusted.                 *)
Approved_Trusting(i) ==
  {n \in DOMAIN RowsUnder(i, imports[i].mapping) : <<n, imports[i].mapping>> \notin errors[i]}

Approved(i) == Outcome(i, imports[i].mapping)

(* commitImport, before its transaction: the status is checked and the     *)
(* rows are validated once more.                                           *)
CommitRead(r) ==
  /\ pc[r] = "approving"
  /\ MayRun(r)
  /\ \E i \in Foremost(task[r].queue) :
       /\ Awaiting(i)
       /\ Goto(r, "committing", [queue |-> task[r].queue, import |-> i,
                                 mapping |-> imports[i].mapping, valid |-> Approved(i)])
  /\ UNCHANGED <<exclusive, imports, errors, records, writes>>

(* Its transaction writes the rows found valid and sets the status.        *)
CommitWrite(r) ==
  LET i == task[r].import
  IN  /\ pc[r] = "committing"
      /\ MayRun(r)
      /\ writes < MaxWrites
      /\ writes' = writes + 1
      /\ records' = Written(i, imports[i].file.kind, RowsUnder(i, task[r].mapping),
                            task[r].valid, records)
      /\ imports' = [imports EXCEPT ![i].status = "committed"]
      /\ IF task[r].queue = {i}
         THEN Finish(r)
         ELSE Goto(r, "approving", [queue |-> task[r].queue \ {i}])
      /\ UNCHANGED <<exclusive, errors>>

RejectRead(r, i) ==
  /\ pc[r] = "idle"
  /\ MayRun(r)
  /\ imports[i].status # "committed"
  /\ Goto(r, "rejecting", [import |-> i])
  /\ UNCHANGED <<exclusive, imports, errors, records, writes>>

RejectWrite(r) ==
  /\ pc[r] = "rejecting"
  /\ MayRun(r)
  /\ imports' = [imports EXCEPT ![task[r].import].status = "rejected"]
  /\ Finish(r)
  /\ UNCHANGED <<exclusive, errors, records, writes>>

(* A refusal, an error or a crash: an open transaction is rolled back, and *)
(* the rest of a bundle is left.                                           *)
Abort(r) ==
  /\ pc[r] # "idle"
  /\ Finish(r)
  /\ UNCHANGED <<exclusive, imports, errors, records, writes>>

(* createPlayerAction and terminateContractAction, each one write.         *)
AddPlayer(r, name) ==
  /\ pc[r] = "idle"
  /\ MayRun(r)
  /\ writes < MaxWrites
  /\ writes' = writes + 1
  /\ records' = [records EXCEPT !.others["players"][name] = @ + 1]
  /\ UNCHANGED <<exclusive, imports, errors, pc, task>>

Terminate(r, c) ==
  /\ pc[r] = "idle"
  /\ MayRun(r)
  /\ writes < MaxWrites
  /\ writes' = writes + 1
  /\ records' = [records EXCEPT !.contracts = (@ \ {c}) \cup {[c EXCEPT !.active = FALSE]}]
  /\ UNCHANGED <<exclusive, imports, errors, pc, task>>

-----------------------------------------------------------------------------
ClerkStep(r) ==
  \/ \E i \in DOMAIN imports : Approve(r, {i})
  \/ Approve(r, Bundle) \/ CommitRead(r) \/ CommitWrite(r)

ReviewerStep(r) ==
  \/ \E file \in Files : Upload(r, file)
  \/ \E i \in DOMAIN imports, m \in Mappings : ValidateRead(r, i, m)
  \/ ClearErrors(r) \/ StoreErrors(r)
  \/ \E i \in DOMAIN imports : RejectRead(r, i)
  \/ RejectWrite(r)
  \/ \E name \in HandNames : AddPlayer(r, name)
  \/ \E c \in records.contracts : Terminate(r, c)

Next ==
  \/ \E r \in Clerks : ClerkStep(r)
  \/ \E r \in Slots : ReviewerStep(r)
  \/ \E r \in Slots : Abort(r)

Spec == Init /\ [][Next]_vars

-----------------------------------------------------------------------------
Statuses == {"pending", "awaiting_approval", "committed", "rejected"}
ImportRecords == [file : Files, status : Statuses, mapping : Mappings \cup {None}]
RowNumbers == Nat \ {0}
IssueSet == RowNumbers \X Mappings
Queues == (SUBSET DOMAIN imports) \ {{}}

(* What a request holds while it stands at a label.                        *)
TasksAt(label) ==
  CASE label \in {"uploaded", "rejecting"} -> [import : DOMAIN imports]
    [] label = "validating" ->
         [import : DOMAIN imports, mapping : Mappings, issues : SUBSET IssueSet]
    [] label = "clearing" ->
         [import : DOMAIN imports, mapping : Mappings, issues : SUBSET IssueSet,
          cleared : SUBSET IssueSet]
    [] label = "approving" -> [queue : Queues]
    [] label = "committing" ->
         [queue : Queues, import : DOMAIN imports, mapping : Mappings, valid : SUBSET RowNumbers]

Labels == {"uploaded", "validating", "clearing", "approving", "committing", "rejecting"}

TypeOK ==
  /\ exclusive \in BOOLEAN
  /\ imports \in Seq(ImportRecords)
  /\ Len(imports) <= MaxImports
  /\ errors \in [Imports -> SUBSET IssueSet]
  /\ records \in Records
  /\ writes \in Nat
  /\ pc \in [Slots -> {"idle"} \cup Labels]
  /\ \A r \in Slots : pc[r] # "idle" => task[r] \in TasksAt(pc[r])

(* "A player with this exact name already exists": no two imports and no   *)
(* two rows of one add the same name, though both were validated before    *)
(* either was approved.                                                    *)
ImportedOnce ==
  \A kind \in NamedKinds, name \in Names : records.imported[kind][name] <= 1

(* "Player already has an active contract": imports never give a player a  *)
(* second active contract, whatever was approved, terminated by hand and   *)
(* validated again in between.                                             *)
OneActiveContract ==
  \A c, d \in records.contracts :
    c.active /\ d.active /\ c.player = d.player => c = d

(* "A group with any bad row is wholly skipped": a contract has every      *)
(* season its file gave the player under some mapping, each once and all   *)
(* sound, or it is not there.                                              *)
ContractsWhole ==
  \A c \in records.contracts : \E m \in Mappings :
    LET rows == RowsUnder(c.import, m)
    IN  /\ rows # None
        /\ LET about == {n \in DOMAIN rows : rows[n].name = c.player}
            IN  /\ c.seasons = {<<rows[n].key, rows[n].value>> : n \in about}
                /\ \A n \in about : rows[n].sound
                /\ \A n, k \in about : rows[n].key = rows[k].key => n = k

(* "Stamping every row with the import that produced it": a connector row  *)
(* says what the import it is stamped with says of its key, where a roster *)
(* may leave blank what was known before, and the source is on record.     *)
Provenance ==
  \A key \in Keys : records.ext[key] # None =>
    LET ext == records.ext[key]
        rows == RowsUnder(ext.import, Identity1)
        partial == imports[ext.import].file.kind = "ext_roster"
        Says(cell, known) == cell = known \/ (partial /\ cell = None)
    IN  /\ ext.import \in records.sources
        /\ \E n \in DOMAIN rows :
             /\ rows[n].key = key
             /\ Says(rows[n].value, ext.bio) /\ Says(rows[n].extra, ext.draft)

(* "Fill blanks, never erase": a roster erases nothing that another        *)
(* dataset supplied.                                                       *)
RosterErasesNothing ==
  [][\A key \in Keys :
       LET old == records.ext[key]
           new == records'.ext[key]
       IN  old # None /\ new # old /\ imports[new.import].file.kind = "ext_roster" =>
             /\ old.bio # None => new.bio # None
             /\ old.draft # None => new.draft # None]_vars

(* "Re-mapping replaces prior errors": on the embedded database the errors *)
(* on the approval page are those of the mapping that would be committed,  *)
(* though two mappings are validated at a time.                            *)
ErrorsOfItsMapping ==
  exclusive => \A i \in DOMAIN imports : \A issue \in errors[i] : issue[2] = imports[i].mapping

(* A player has one active contract, and every contract is a whole one of  *)
(* the file it came from.                                                  *)
ContractsSound == OneActiveContract /\ ContractsWhole

(* What is on record says truly which import it came from, and the errors  *)
(* shown of an import are its own.                                         *)
RowsTraced == Provenance /\ ErrorsOfItsMapping
=============================================================================
