----------------------------- MODULE DraftBoard -----------------------------
(***************************************************************************)
(* One draft board: its entries, versions, snapshots and history           *)
(* (boardService.ts, boardActions.ts).                                     *)
(*                                                                         *)
(* Nothing here runs in a transaction.  A request reads, then sends its    *)
(* statements one by one, and those of other requests come in between.  An *)
(* editor's request ends with commitBoardVersion: read the version, store  *)
(* the next one, its row, the snapshot and the history.  A scout's stores  *)
(* a ranking and computes the prospect's consensus anew.                   *)
(***************************************************************************)
EXTENDS Integers, Sequences, FiniteSets, Functions, Consensus, Roles

CONSTANTS
  Prospects,    \* prospects of the organization
  Group,        \* Group[p]: p's position group
  RoleScore,    \* RoleScore[p]: p's best role score, None if it has none
  FitScore,     \* FitScore[p]: p's best fit score, None if it has none
  FirstOrder,   \* the prospects added when the board was made, one by one
  Users,        \* the users who edit the board
  Role,         \* Role[u]: u's role
  Editors,      \* requests that edit the board, each one at a time
  Submitters,   \* requests that submit a ranking, each one at a time
  Scouts,       \* the users who submit rankings
  ScoutRanks,   \* the ranks a scout may give
  DirectorRanks, \* the ranks the director may give
  Forms,        \* what an editor may fill in of an entry: values by field
  Statuses,     \* the statuses an editor may set
  MaxFailures,  \* bound: requests that fail or die with their server
  MaxVersion    \* bound: versions of the board

ASSUME ProspectsAssumption ==
  /\ IsFiniteSet(Prospects)
  /\ FirstOrder \in Seq(Prospects) /\ IsInjective(FirstOrder)
  /\ \A p \in Prospects : RoleScore[p] \in Nat \cup {None} /\ FitScore[p] \in Nat \cup {None}
ASSUME UsersAssumption == \A u \in Users : Role[u] \in OrgRoles
ASSUME RequestsAssumption == Editors \cap Submitters = {} /\ IsFiniteSet(Scouts)
ASSUME ValuesAssumption ==
  /\ ScoutRanks \cup DirectorRanks \subseteq Nat \ {0} /\ None \notin Int
  /\ Statuses \subseteq {"active", "locked", "archived"}

(* The fields of an entry's form. A round stands for the expected round and*)
(* the risk, a floor for the floor, the ceiling and the expected range.    *)
ENTRY_FIELDS == {"round", "floor", "recommendation", "note"}
NOTE_FIELDS == {"note", "recommendation"}

ASSUME FormsAssumption ==
  \A form \in Forms : form = [f \in DOMAIN form |-> form[f]] /\ DOMAIN form \subseteq ENTRY_FIELDS

VARIABLES
  board,      \* the row of draft_boards: its status and version
  entries,    \* the rows of draft_board_entries by prospect
  versions,   \* the versions that have a row in draft_board_versions
  snapshots,  \* draft_board_snapshots by version
  history,    \* draft_board_rank_history
  rankings,   \* scout_rankings by prospect and scout
  consensus,  \* consensus_rankings by prospect, None where there is none
  pc,         \* where each request stands
  task,       \* what each request has read and goes on with
  failures    \* how many requests were cut short

rows == <<board, entries, versions, snapshots, history, rankings, consensus>>
vars == <<rows, pc, task, failures>>

Requests == Editors \cup Submitters
OnBoard == DOMAIN entries

(* A record with the fields of a change put in its place.                  *)
Changed(row, change) ==
  [f \in DOMAIN row |-> IF f \in DOMAIN change THEN change[f] ELSE row[f]]

-----------------------------------------------------------------------------
(* What is computed from a board's rows.                                   *)

(* The orders in which orderedEntries may return the rows b: by rank.      *)
Orders(b) ==
  {s \in [1..Cardinality(DOMAIN b) -> DOMAIN b] :
     /\ IsInjective(s)
     /\ \A i, j \in DOMAIN s : i < j => b[s[i]].rank <= b[s[j]].rank}

(* recomputePositionRanks: the rank of s[i] in its position group.         *)
PositionRank(s, i) == Cardinality({j \in 1..i : Group[s[j]] = Group[s[i]]})

(* Fault: a prospect without a score is taken for found, at -1.            *)
ScoreRank_Unscored(s, i, score) ==
  IF score[s[i]] = None THEN 0
  ELSE 1 + Cardinality({j \in DOMAIN s : /\ score[s[j]] # None
                                         /\ \/ score[s[j]] > score[s[i]]
                                            \/ score[s[j]] = score[s[i]] /\ j < i})

(* Fault: the lowest score comes first.                                    *)
ScoreRank_Ascending(s, i, score) ==
  IF score[s[i]] = None THEN None
  ELSE 1 + Cardinality({j \in DOMAIN s : /\ score[s[j]] # None
                                         /\ \/ score[s[j]] < score[s[i]]
                                            \/ score[s[j]] = score[s[i]] /\ j < i})

(* refreshBoardDerived: the rank of s[i] by a score, the board's order     *)
(* deciding between equals.                                                *)
ScoreRank(s, i, score) ==
  IF score[s[i]] = None THEN None
  ELSE 1 + Cardinality({j \in DOMAIN s : /\ score[s[j]] # None
                                         /\ \/ score[s[j]] > score[s[i]]
                                            \/ score[s[j]] = score[s[i]] /\ j < i})

(* The rank shown of a consensus: its mean.                                *)
Mean(c) == IF c = None THEN None ELSE c.mean

(* The row of a prospect that has just been added.                         *)
NewEntry(rank) ==
  [rank |-> rank, position |-> None, model |-> None, fit |-> None, consensus |-> None,
   director |-> None, round |-> None, floor |-> None, recommendation |-> None, note |-> None]

(* What a snapshot keeps of an entry, and its rows: the entries in order.  *)
SnapshotColumns == DOMAIN NewEntry(1) \ {"floor", "note"}
Snapshot(b, s) == [i \in DOMAIN s |-> [prospect |-> s[i], row |-> [f \in SnapshotColumns |-> b[s[i]][f]]]]

(* What the history keeps of a change: ranks, or other values.             *)
RankEvent(u, p, field, old, new) ==
  [user |-> u, prospect |-> p, field |-> field, oldRank |-> old, newRank |-> new,
   old |-> None, new |-> None]

ValueEvent(u, p, field, old, new) ==
  [user |-> u, prospect |-> p, field |-> field, oldRank |-> None, newRank |-> None,
   old |-> old, new |-> new]

(* A row of the history: an event under its version.                       *)
Logged(ev, version) ==
  [f \in DOMAIN ev \cup {"version"} |-> IF f = "version" THEN version ELSE ev[f]]

(* The board after its first prospects were added one after the other.     *)
FirstBoard(n) ==
  LET s == SubSeq(FirstOrder, 1, n) IN
  [p \in Range(s) |->
     LET i == CHOOSE j \in DOMAIN s : s[j] = p IN
     Changed(NewEntry(i), [position |-> PositionRank(s, i), model |-> ScoreRank(s, i, RoleScore),
                           fit |-> ScoreRank(s, i, FitScore)])]

Init ==
  LET n == Len(FirstOrder) IN
  /\ board = [status |-> "active", version |-> n + 1]
  /\ entries = FirstBoard(n)
  /\ versions = 1..(n + 1)
  /\ snapshots = [v \in 1..(n + 1) |-> Snapshot(FirstBoard(v - 1), SubSeq(FirstOrder, 1, v - 1))]
  /\ history = {Logged(RankEvent(None, FirstOrder[i], "added", None, i), i + 1) : i \in 1..n}
  /\ rankings = [p \in Prospects |-> [u \in Scouts |-> None]]
  /\ consensus = [p \in Prospects |-> None]
  /\ pc = [r \in Requests |-> "idle"]
  /\ task = [r \in Requests |-> None]
  /\ failures = 0

-----------------------------------------------------------------------------
(* Requests.  An editor's task is what it still has to write (todo), what  *)
(* comes next (next) and what it will log (events).                        *)

Goto(r, label, data) ==
  /\ pc' = [pc EXCEPT ![r] = label]
  /\ task' = [task EXCEPT ![r] = data]
  /\ UNCHANGED failures

Finish(r) == Goto(r, "idle", None)

(* Send the updates of todo, then go on with next.                         *)
Send(r, todo, next, events) ==
  Goto(r, IF todo = {} THEN next ELSE "update", [todo |-> todo, next |-> next, events |-> events])

(* Fault: only archived boards are refused.                                *)
Unlocked_Locked == board.status # "archived"

(* assertUnlocked                                                          *)
Unlocked == board.status = "active"

Begin(e) == pc[e] = "idle" /\ board.version < MaxVersion

(* One update of an entry: its row's place among those of the request, the *)
(* prospect and the columns it sets.                                       *)
Change(i, p, change) == [place |-> i, prospect |-> p, change |-> change]

(* The updates that bring column f of the rows in s to the values want.    *)
Updates(b, s, f, want) ==
  {Change(i, s[i], [c \in {f} |-> want[i]]) : i \in {j \in DOMAIN s : b[s[j]][f] # want[j]}}

Places(s) == [i \in DOMAIN s |-> i]

AddProspect(e, u, p) ==
  /\ Begin(e) /\ Unlocked
  /\ p \notin OnBoard
  /\ Goto(e, "insert", [user |-> u, prospect |-> p, rank |-> Cardinality(OnBoard) + 1])
  /\ UNCHANGED rows

(* The unique index refuses a second row of one prospect.                  *)
InsertEntry(e) ==
  /\ pc[e] = "insert"
  /\ LET p == task[e].prospect IN
     IF p \in OnBoard THEN Finish(e) /\ UNCHANGED entries
     ELSE /\ entries' = [q \in OnBoard \cup {p} |->
                           IF q = p THEN NewEntry(task[e].rank) ELSE entries[q]]
          /\ Send(e, {}, "positionThenDerive",
                  {RankEvent(task[e].user, p, "added", None, task[e].rank)})
  /\ UNCHANGED <<board, versions, snapshots, history, rankings, consensus>>

RemoveProspect(e, u, p) ==
  /\ Begin(e) /\ Unlocked
  /\ p \in OnBoard
  /\ Goto(e, "delete", [prospect |-> p,
                        events |-> {RankEvent(u, p, "removed", entries[p].rank, None)}])
  /\ UNCHANGED rows

DeleteEntry(e) ==
  /\ pc[e] = "delete"
  /\ entries' = [q \in OnBoard \ {task[e].prospect} |-> entries[q]]
  /\ Send(e, {}, "renumber", task[e].events)
  /\ UNCHANGED <<board, versions, snapshots, history, rankings, consensus>>

(* Fault: the ranks of those behind the removed one stay.                  *)
Renumber_Gap(e) ==
  /\ pc[e] = "renumber"
  /\ Send(e, {}, "position", task[e].events)
  /\ UNCHANGED rows

Renumber(e) ==
  /\ pc[e] = "renumber"
  /\ \E s \in Orders(entries) :
       Send(e, Updates(entries, s, "rank", Places(s)), "position", task[e].events)
  /\ UNCHANGED rows

(* Fault: the order may name an entry twice and leave another out.         *)
ReorderBoard_Subset(e, u, s) ==
  /\ Begin(e) /\ Unlocked
  /\ Range(s) \subseteq OnBoard
  /\ LET todo == Updates(entries, s, "rank", Places(s)) IN
     /\ todo # {}
     /\ Send(e, todo, "position",
             {RankEvent(u, t.prospect, "rank", entries[t.prospect].rank, t.change.rank) : t \in todo})
  /\ UNCHANGED rows

(* reorderBoard with the order s, which names every entry once.            *)
ReorderBoard(e, u, s) ==
  /\ Begin(e) /\ Unlocked
  /\ Range(s) = OnBoard
  /\ LET todo == Updates(entries, s, "rank", Places(s)) IN
     /\ todo # {}
     /\ Send(e, todo, "position",
             {RankEvent(u, t.prospect, "rank", entries[t.prospect].rank, t.change.rank) : t \in todo})
  /\ UNCHANGED rows

(* One update of one entry, and what it logs.                              *)
Store(e, p, change, events) ==
  /\ Send(e, {Change(1, p, change)}, "version", events)
  /\ UNCHANGED rows

SetDirectorRank(e, u, p, rank) ==
  /\ Begin(e) /\ Unlocked
  /\ p \in OnBoard
  /\ entries[p].director # rank
  /\ Store(e, p, [director |-> rank], {RankEvent(u, p, "director", entries[p].director, rank)})

(* The fields of a form that differ are stored at once, and each is logged.*)
(* A form of nothing but notes may be stored on a locked board.            *)
UpdateEntry(e, u, p, form) ==
  /\ Begin(e)
  /\ board.status # "archived"
  /\ DOMAIN form \subseteq NOTE_FIELDS \/ Unlocked
  /\ p \in OnBoard
  /\ LET set == {f \in DOMAIN form : entries[p][f] # form[f]} IN
     /\ set # {}
     /\ Store(e, p, [f \in set |-> form[f]], {ValueEvent(u, p, f, entries[p][f], form[f]) : f \in set})

SetStatus(e, u, status) ==
  /\ Begin(e)
  /\ board.status # status
  /\ Goto(e, "status", [status |-> status,
                        events |-> {ValueEvent(u, None, "status", board.status, status)}])
  /\ UNCHANGED rows

WriteStatus(e) ==
  /\ pc[e] = "status"
  /\ board' = [board EXCEPT !.status = task[e].status]
  /\ Send(e, {}, "version", task[e].events)
  /\ UNCHANGED <<entries, versions, snapshots, history, rankings, consensus>>

(* The first update left, of a row that may be gone by now.                *)
Update(e) ==
  /\ pc[e] = "update"
  /\ \E t \in task[e].todo :
       /\ \A x \in task[e].todo : t.place <= x.place
       /\ entries' = IF t.prospect \in OnBoard
                     THEN [entries EXCEPT ![t.prospect] = Changed(@, t.change)]
                     ELSE entries
       /\ Send(e, task[e].todo \ {t}, task[e].next, task[e].events)
  /\ UNCHANGED <<board, versions, snapshots, history, rankings, consensus>>

Reposition(e) ==
  /\ pc[e] \in {"position", "positionThenDerive"}
  /\ \E s \in Orders(entries) :
       Send(e, Updates(entries, s, "position", [i \in DOMAIN s |-> PositionRank(s, i)]),
            IF pc[e] = "position" THEN "version" ELSE "derive", task[e].events)
  /\ UNCHANGED rows

(* refreshBoardDerived: it reads the order and the consensus of all and    *)
(* updates every row.                                                      *)
Derive(e) ==
  /\ pc[e] = "derive"
  /\ \E s \in Orders(entries) :
       Send(e, {Change(i, s[i], [model |-> ScoreRank(s, i, RoleScore),
                                 fit |-> ScoreRank(s, i, FitScore),
                                 consensus |-> Mean(consensus[s[i]])]) : i \in DOMAIN s},
            "version", task[e].events)
  /\ UNCHANGED rows

-----------------------------------------------------------------------------
(* commitBoardVersion                                                      *)

NextVersion == board.version + 1

ReadVersion(e) ==
  /\ pc[e] = "version"
  /\ \E s \in Orders(entries) :
       Goto(e, "bump", [version |-> NextVersion, snapshot |-> Snapshot(entries, s),
                        events |-> task[e].events])
  /\ UNCHANGED rows

(* Fault: the version is stored of the board only as its rows are.         *)
BumpVersion_Forgotten(e) ==
  /\ pc[e] = "bump"
  /\ Goto(e, "stamp", task[e])
  /\ UNCHANGED rows

BumpVersion(e) ==
  /\ pc[e] = "bump"
  /\ board' = [board EXCEPT !.version = task[e].version]
  /\ Goto(e, "stamp", task[e])
  /\ UNCHANGED <<entries, versions, snapshots, history, rankings, consensus>>

(* The unique index refuses a second row of one version: the request ends. *)
InsertVersion(e) ==
  /\ pc[e] = "stamp"
  /\ IF task[e].version \in versions THEN Finish(e) /\ UNCHANGED versions
     ELSE versions' = versions \cup {task[e].version} /\ Goto(e, "snapshot", task[e])
  /\ UNCHANGED <<board, entries, snapshots, history, rankings, consensus>>

(* Fault: the history is stored first.                                     *)
InsertSnapshot_Late(e) ==
  /\ pc[e] = "snapshot"
  /\ history' = history \cup {Logged(ev, task[e].version) : ev \in task[e].events}
  /\ Goto(e, "log", task[e])
  /\ UNCHANGED <<board, entries, versions, snapshots, rankings, consensus>>

InsertSnapshot(e) ==
  /\ pc[e] = "snapshot"
  /\ task[e].version \notin DOMAIN snapshots
  /\ snapshots' = [v \in DOMAIN snapshots \cup {task[e].version} |->
                     IF v = task[e].version THEN task[e].snapshot ELSE snapshots[v]]
  /\ Goto(e, "log", task[e])
  /\ UNCHANGED <<board, entries, versions, history, rankings, consensus>>

(* Fault: what was there before is logged.                                 *)
InsertHistory_Old(e) ==
  /\ pc[e] = "log"
  /\ history' = history \cup {Logged([ev EXCEPT !.new = ev.old, !.old = ev.new,
                                          !.newRank = ev.oldRank], task[e].version) :
                                ev \in task[e].events}
  /\ Finish(e)
  /\ UNCHANGED <<board, entries, versions, snapshots, rankings, consensus>>

InsertHistory(e) ==
  /\ pc[e] = "log"
  /\ history' = history \cup {Logged(ev, task[e].version) : ev \in task[e].events}
  /\ Finish(e)
  /\ UNCHANGED <<board, entries, versions, snapshots, rankings, consensus>>

-----------------------------------------------------------------------------
(* Scouts.                                                                 *)

SubmitRanking(q, u, p, rank) ==
  /\ pc[q] = "idle"
  /\ Unlocked
  /\ p \in OnBoard
  /\ Goto(q, "rank", [scout |-> u, prospect |-> p, rank |-> rank])
  /\ UNCHANGED rows

StoreRanking(q) ==
  /\ pc[q] = "rank"
  /\ rankings' = [rankings EXCEPT ![task[q].prospect][task[q].scout] = task[q].rank]
  /\ Goto(q, "consensus", [scout |-> task[q].scout, prospect |-> task[q].prospect])
  /\ UNCHANGED <<board, entries, versions, snapshots, history, consensus>>

(* Fault: the ranking of the scout who submits is all that counts.         *)
RankingsOf_Own(q) == {task[q].scout}

(* The scouts whose rankings recomputeConsensus reads.                     *)
RankingsOf(q) == {u \in Scouts : rankings[task[q].prospect][u] # None}

ReadRankings(q) ==
  /\ pc[q] = "consensus"
  /\ LET p == task[q].prospect IN
     Goto(q, "upsert", [prospect |-> p, row |-> ConsensusOf(RankingsOf(q), rankings[p])])
  /\ UNCHANGED rows

UpsertConsensus(q) ==
  /\ pc[q] = "upsert"
  /\ consensus' = [consensus EXCEPT ![task[q].prospect] = task[q].row]
  /\ Goto(q, "cache", task[q])
  /\ UNCHANGED <<board, entries, versions, snapshots, history, rankings>>

CacheConsensus(q) ==
  /\ pc[q] = "cache"
  /\ entries' = IF task[q].prospect \in OnBoard
                THEN [entries EXCEPT ![task[q].prospect].consensus = task[q].row.mean]
                ELSE entries
  /\ Finish(q)
  /\ UNCHANGED <<board, versions, snapshots, history, rankings, consensus>>

(* A statement fails, or the server dies.                                  *)
Fail(r) ==
  /\ failures < MaxFailures
  /\ pc[r] # "idle"
  /\ pc' = [pc EXCEPT ![r] = "idle"]
  /\ task' = [task EXCEPT ![r] = None]
  /\ failures' = failures + 1
  /\ UNCHANGED rows

-----------------------------------------------------------------------------
(* The server actions: who may begin which request.                        *)

AddBoardProspectAction(e, u, p) ==
  Can(Role[u], "manage_draft_boards") /\ AddProspect(e, u, p)

RemoveBoardProspectAction(e, u, p) ==
  Can(Role[u], "manage_draft_boards") /\ RemoveProspect(e, u, p)

ReorderBoardAction(e, u, s) ==
  Can(Role[u], "manage_draft_boards") /\ ReorderBoard(e, u, s)

SetDirectorRankAction(e, u, p, rank) ==
  Can(Role[u], "finalize_boards") /\ SetDirectorRank(e, u, p, rank)

(* Fields left empty in the form stay; a field is never emptied.           *)
UpdateBoardEntryAction(e, u, p, form) ==
  Can(Role[u], "manage_draft_boards") /\ UpdateEntry(e, u, p, form)

(* Fault: whoever manages boards may unlock one.                           *)
StatusCapability_Manage(status) ==
  IF status = "locked" THEN "finalize_boards" ELSE "manage_draft_boards"

StatusCapability(status) ==
  CASE status = "locked" -> "finalize_boards"
    [] status = "active" -> "unlock_boards"
    [] OTHER -> "manage_draft_boards"

SetBoardStatusAction(e, u, status) ==
  Can(Role[u], StatusCapability(status)) /\ SetStatus(e, u, status)

Edit(e, u) ==
  \/ \E p \in Prospects :
       \/ AddBoardProspectAction(e, u, p)
       \/ RemoveBoardProspectAction(e, u, p)
       \/ \E rank \in DirectorRanks \cup {None} : SetDirectorRankAction(e, u, p, rank)
       \/ \E form \in Forms : UpdateBoardEntryAction(e, u, p, form)
  \/ \E s \in [1..Cardinality(OnBoard) -> OnBoard] : ReorderBoardAction(e, u, s)
  \/ \E status \in Statuses : SetBoardStatusAction(e, u, status)

Continue(e) ==
  \/ InsertEntry(e) \/ DeleteEntry(e) \/ Renumber(e) \/ Update(e) \/ Reposition(e) \/ Derive(e)
  \/ WriteStatus(e) \/ ReadVersion(e) \/ BumpVersion(e) \/ InsertVersion(e)
  \/ InsertSnapshot(e) \/ InsertHistory(e)

Rank(q) ==
  \/ \E u \in Scouts, p \in Prospects, rank \in ScoutRanks : SubmitRanking(q, u, p, rank)
  \/ StoreRanking(q) \/ ReadRankings(q) \/ UpsertConsensus(q) \/ CacheConsensus(q)

Next ==
  \/ \E e \in Editors : Continue(e) \/ \E u \in Users : Edit(e, u)
  \/ \E q \in Submitters : Rank(q)
  \/ \E r \in Requests : Fail(r)

Spec == Init /\ [][Next]_vars

-----------------------------------------------------------------------------
Columns == DOMAIN NewEntry(1)
Ranks == Nat \ {0}
OrNone(S) == S \cup {None}

BoardStatuses == {"active", "locked", "archived"}
BoardRows == [status : BoardStatuses, version : Ranks]

Texts == UNION {Range(form) : form \in Forms}

EntryRows ==
  [rank : Ranks, position : OrNone(Ranks), model : OrNone(Ranks), fit : OrNone(Ranks),
   consensus : OrNone(Nat), director : OrNone(DirectorRanks), round : OrNone(Texts),
   floor : OrNone(Texts), recommendation : OrNone(Texts), note : OrNone(Texts)]

SnapshotRows ==
  [prospect : Prospects,
   row : [rank : Ranks, position : OrNone(Ranks), model : OrNone(Ranks), fit : OrNone(Ranks),
          consensus : OrNone(Nat), director : OrNone(DirectorRanks), round : OrNone(Texts),
          recommendation : OrNone(Texts)]]

HistoryRows ==
  [user : OrNone(Users), prospect : OrNone(Prospects), version : Ranks,
   field : Columns \cup {"added", "removed", "status"},
   oldRank : OrNone(Ranks), newRank : OrNone(Ranks),
   old : OrNone(Texts \cup BoardStatuses), new : OrNone(Texts \cup BoardStatuses)]

RankingRows == OrNone(ScoutRanks)

ConsensusRows ==
  [submissions : 1..Cardinality(Scouts), mean : Nat, median : Nat, best : ScoutRanks,
   worst : ScoutRanks, spread : Nat, deviation : Nat, insufficient : BOOLEAN, disagree : BOOLEAN]

(* Rows and requests keep their types.                                     *)
TypeOK ==
  /\ board \in BoardRows
  /\ OnBoard \subseteq Prospects /\ entries \in [OnBoard -> EntryRows]
  /\ versions \subseteq Ranks
  /\ DOMAIN snapshots \subseteq versions
  /\ \A v \in DOMAIN snapshots : Range(snapshots[v]) \subseteq SnapshotRows
  /\ history \subseteq HistoryRows
  /\ rankings \in [Prospects -> [Scouts -> RankingRows]]
  /\ consensus \in [Prospects -> OrNone(ConsensusRows)]
  /\ DOMAIN pc = Requests /\ DOMAIN task = Requests
  /\ failures \in Nat

EditorsIdle == \A e \in Editors : pc[e] = "idle"
SubmittersIdle == \A q \in Submitters : pc[q] = "idle"

InOrder ==
  \E s \in Orders(entries) :
    \A i \in DOMAIN s : entries[s[i]].rank = i /\ entries[s[i]].position = PositionRank(s, i)

(* Between edits that went through, the ranks number the board's entries   *)
(* and the position ranks number each group along the same order.          *)
BoardInOrder == EditorsIdle /\ failures = 0 => InOrder

(* A reorder repairs what edits cut short have left: when its version is   *)
(* stored, ranks number the entries, in each position group as well.       *)
ReorderHeals ==
  \A e \in Editors :
    pc[e] = "version" /\ (\E ev \in task[e].events : ev.field = "rank") => InOrder

(* Between edits that went through, the snapshot of the board's version    *)
(* shows every rank and field of the board as it is that a snapshot keeps  *)
(* at all, but for the consensus, which scouts move: notes, floors and     *)
(* expected ranges are to be had of the history alone.                     *)
SnapshotShowsBoard ==
  EditorsIdle /\ failures = 0 =>
    /\ board.version \in DOMAIN snapshots
    /\ LET shown == snapshots[board.version] IN
       /\ {shown[i].prospect : i \in DOMAIN shown} = OnBoard
       /\ \A i \in DOMAIN shown :
            \A f \in {"rank", "position", "model", "fit", "director", "round", "recommendation"} :
              shown[i].row[f] = entries[shown[i].prospect][f]

(* However edits and failures interleave, what is logged under a version   *)
(* has that version's snapshot to be compared with.                        *)
HistoryHasSnapshot ==
  \A h \in history : h.version \in DOMAIN snapshots

(* However edits cross and fail, what is logged under one version is one   *)
(* user's one edit: a single change, the moves of one reorder, or the      *)
(* fields of one entry's form, each once.                                  *)
OneEditPerVersion ==
  \A g, h \in history :
    g.version = h.version /\ g # h =>
      /\ g.user = h.user
      /\ \/ g.field = "rank" /\ h.field = "rank" /\ g.prospect # h.prospect
         \/ {g.field, h.field} \subseteq ENTRY_FIELDS /\ g.field # h.field /\ g.prospect = h.prospect

(* However edits fail, the next version is free, so that the next edit can *)
(* be stored.                                                              *)
NextVersionFree ==
  \A v \in versions : v <= board.version

(* Between edits that went through, the last change logged of a column of  *)
(* an entry, since it was added, is what the entry holds.                  *)
HistoryExplains ==
  EditorsIdle /\ failures = 0 =>
    \A p \in OnBoard : \A f \in {"director"} \cup ENTRY_FIELDS :
      LET since == {h \in history : h.prospect = p /\ h.field \in {f, "added"}}
          last == CHOOSE h \in since : \A g \in since : g.version <= h.version
      IN  entries[p][f] = IF last.field = "added" THEN None
                          ELSE IF f = "director" THEN last.newRank ELSE last.new

(* A better score is a better derived rank, whichever prospects came and   *)
(* went. The scores are those of the start: ranks are derived anew only    *)
(* when a prospect is added, so later ones would not be seen.              *)
ScoresRank ==
  EditorsIdle /\ failures = 0 =>
    \A p, q \in OnBoard :
      /\ RoleScore[p] # None /\ RoleScore[q] # None /\ RoleScore[p] > RoleScore[q]
           => entries[p].model < entries[q].model
      /\ FitScore[p] # None /\ FitScore[q] # None /\ FitScore[p] > FitScore[q]
           => entries[p].fit < entries[q].fit

(* The stored consensus is that of the rankings stored, between rankings.  *)
ConsensusOfRankings ==
  SubmittersIdle /\ failures = 0 =>
    \A p \in Prospects :
      consensus[p] = ConsensusOf({u \in Scouts : rankings[p][u] # None}, rankings[p])

(* As long as edits go through, the history shows that what a locked board *)
(* ranks has changed only after someone who may unlock boards made it      *)
(* active again.                                                           *)
LockedUntilUnlocked ==
  failures = 0 =>
    \A lock, h \in history :
      /\ lock.field = "status" /\ lock.new = "locked"
      /\ h.version > lock.version
      /\ h.field \in {"rank", "added", "removed", "director", "round", "floor"}
      => \E open \in history :
           /\ open.field = "status" /\ open.new = "active"
           /\ lock.version < open.version /\ open.version < h.version
           /\ Can(Role[open.user], "unlock_boards")

(* What users read off a board, between edits that went through: the ranks *)
(* and position ranks number it along one order, and better scores have    *)
(* better derived ranks.                                                   *)
RanksTold == BoardInOrder /\ ScoresRank

(* What users read in a board's past when one edit follows another: its    *)
(* version's snapshot shows the board, its history explains every field,   *)
(* and a lock holds until someone unlocks the board.                       *)
HistoryTold == SnapshotShowsBoard /\ HistoryExplains /\ LockedUntilUnlocked

(* However edits cross and fail, a version has its snapshot once something *)
(* is logged under it, and logs one edit, of however many fields.          *)
VersionsTold == HistoryHasSnapshot /\ OneEditPerVersion

(* Requests may die between two statements: a reorder repairs the ranks    *)
(* that they leave behind, and the next edit can always be stored.         *)
FailuresHeal == ReorderHeals /\ NextVersionFree
=============================================================================
