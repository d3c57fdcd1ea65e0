---------------------------- MODULE OfficeProofs ----------------------------
(***************************************************************************)
(* Proofs about the scouting office: its draft board (DraftBoard), the     *)
(* scouts' desk (Scouting), the fit runs of a need (FitRuns) and the links *)
(* to frozen reports (SharedReports), for any prospects, users, roles,     *)
(* requests and values, and however requests cross and fail.               *)
(*                                                                         *)
(* The board, with any number of editors: what is logged under a version   *)
(* has its snapshot, and is one edit's.  The invariant is VersionInv: an   *)
(* edit past the unique index has its version to itself.                   *)
(*                                                                         *)
(* The board, with one editor, while scouts submit rankings: it is in      *)
(* order, its snapshot and its history show what it holds, its locks hold  *)
(* and its derived ranks are those of the scores, after edits that went    *)
(* through; and after edits cut short the next version is free and a       *)
(* reorder heals the order.  The invariants say of an edit under way what  *)
(* its updates will still bring about (Ranking, Positioning, Deriving) and *)
(* what its events will tell.  With one scout at a time, whatever editors  *)
(* do: the consensus is that of the rankings.                              *)
(*                                                                         *)
(* The desk: rows are of their prospect's organization, a list has a       *)
(* prospect once, and a role one score (DeskInv: who asks has been checked *)
(* and a list keeps its organization).  Fit runs: complete ones are whole, *)
(* and those that come one after the other leave breakdowns and links of   *)
(* one computation (FitInv, AloneInv).  Links: a report is of one request's*)
(* reads, in order, and stays as it is (SharedInv).                        *)
(***************************************************************************)
EXTENDS DraftBoard, BasicFacts, TLAPS

-----------------------------------------------------------------------------
(* However many edit the board at a time, and however requests fail.       *)

(* Labels at which an edit has its events, and its version.                *)
Logging == {"delete", "renumber", "update", "position", "positionThenDerive", "derive", "status",
            "version", "bump", "stamp", "snapshot", "log"}
Versioned == {"bump", "stamp", "snapshot", "log"}
Stored == {"snapshot", "log"}

(* What one edit tells: one change, the moves of a reorder, or the fields  *)
(* of one entry's form.                                                    *)
OneEdit(g, h) ==
  /\ g.user = h.user
  /\ \/ g.field = "rank" /\ h.field = "rank" /\ g.prospect # h.prospect
     \/ {g.field, h.field} \subseteq ENTRY_FIELDS /\ g.field # h.field /\ g.prospect = h.prospect

OneChange(S) == \A g, h \in S : g # h => OneEdit(g, h)

Events(S) == \A ev \in S : {"field", "user", "prospect", "new", "newRank"} \subseteq DOMAIN ev

EditShape(e) ==
  /\ pc[e] = "insert" => task[e].prospect \in Prospects
  /\ pc[e] = "status" => task[e].status \in BoardStatuses
  /\ pc[e] = "update" => task[e].next \in {"position", "derive", "version"}
  /\ pc[e] \in Logging => OneChange(task[e].events) /\ Events(task[e].events)
  /\ pc[e] \in Versioned => task[e].version \in Nat

Boards == [status : BoardStatuses, version : Nat]

ShapeInv ==
  /\ DOMAIN pc = Requests /\ DOMAIN task = Requests
  /\ board \in Boards /\ failures \in Nat /\ OnBoard \subseteq Prospects
  /\ versions \subseteq Nat /\ DOMAIN snapshots \subseteq versions
  /\ \A e \in Editors : EditShape(e)

(* An edit past the unique index has its version to itself.                *)
OwnVersion(e) ==
  pc[e] \in Stored =>
    /\ task[e].version \in versions
    /\ \A h \in history : h.version # task[e].version
    /\ \A d \in Editors \ {e} : pc[d] \in Stored => task[d].version # task[e].version
    /\ pc[e] = "log" => task[e].version \in DOMAIN snapshots

VersionInv ==
  /\ ShapeInv
  /\ \A e \in Editors : OwnVersion(e)
  /\ HistoryHasSnapshot
  /\ OneEditPerVersion

-----------------------------------------------------------------------------
(* One edit at a time.                                                     *)

(* Entries have their columns, and updates set some of them.               *)
RowsInv ==
  /\ \A p \in OnBoard : DOMAIN entries[p] = Columns
  /\ \A e \in Editors : pc[e] = "update" => \A t \in task[e].todo : DOMAIN t.change \subseteq Columns

Enumerations(D) == {s \in [1..Cardinality(D) -> D] : IsInjective(s)}

RankedBy(s) == \A i \in DOMAIN s : entries[s[i]].rank = i
PositionedBy(s) == \A i \in DOMAIN s : entries[s[i]].position = PositionRank(s, i)

(* The updates left will give the entries the ranks of s ...               *)
Ranking(s, todo) ==
  /\ \A i \in DOMAIN s : entries[s[i]].rank = i \/ \E t \in todo : t.prospect = s[i]
  /\ \A t \in todo : \E i \in DOMAIN s : t.prospect = s[i] /\ t.change = [c \in {"rank"} |-> i]

(* ... and their positions in s, and no other rank.                        *)
Positioning(s, todo) ==
  /\ \A i \in DOMAIN s :
       \/ entries[s[i]].position = PositionRank(s, i)
       \/ \E t \in todo : t.prospect = s[i] /\ "position" \in DOMAIN t.change
  /\ \A t \in todo :
       /\ "rank" \notin DOMAIN t.change
       /\ "position" \in DOMAIN t.change =>
            \E i \in DOMAIN s : t.prospect = s[i] /\ t.change.position = PositionRank(s, i)

Reorders(e) == \E ev \in task[e].events : ev.field = "rank"

Ordered == \E s \in Enumerations(OnBoard) : RankedBy(s) /\ PositionedBy(s)
Numbered == \E s \in Enumerations(OnBoard) : RankedBy(s)

(* What an edit has made of the order so far.                              *)
OrderSoFar(e) ==
  /\ pc[e] \in {"position", "positionThenDerive"} => Numbered
  /\ pc[e] = "update" /\ task[e].next = "position" => \E s \in Enumerations(OnBoard) : Ranking(s, task[e].todo)
  /\ pc[e] = "update" /\ task[e].next # "position" =>
       \E s \in Enumerations(OnBoard) : RankedBy(s) /\ Positioning(s, task[e].todo)
  /\ pc[e] \in {"derive", "status", "version", "bump", "stamp", "snapshot", "log"} => Ordered

(* It is so after edits that went through, and in a reorder anyway.        *)
OrderInv(e) ==
  /\ pc[e] \in {"idle", "insert"} /\ failures = 0 => Ordered
  /\ pc[e] = "insert" /\ failures = 0 => task[e].prospect \notin OnBoard /\ task[e].rank = Cardinality(OnBoard) + 1
  /\ pc[e] \in Logging /\ (failures = 0 \/ Reorders(e)) => OrderSoFar(e)
  /\ pc[e] \in Logging /\ Reorders(e) =>
       /\ pc[e] \in {"update", "position", "version"} \cup Versioned
       /\ pc[e] = "update" => task[e].next \in {"position", "version"}

(* The board's version, and the one an edit is about to store.             *)
FreeInv(e) ==
  /\ NextVersionFree
  /\ pc[e] = "bump" => task[e].version = board.version + 1
  /\ pc[e] \in {"stamp", "snapshot", "log"} => task[e].version = board.version
  /\ pc[e] = "stamp" => task[e].version \notin versions

(* A snapshot shows the board as it is, but for the consensus, and for the *)
(* fields it does not keep.                                                *)
Shown == {"rank", "position", "model", "fit", "director", "round", "recommendation"}

Shows(shown) ==
  /\ {shown[i].prospect : i \in DOMAIN shown} = OnBoard
  /\ \A i \in DOMAIN shown : \A f \in Shown : shown[i].row[f] = entries[shown[i].prospect][f]

ShowInv(e) ==
  failures = 0 =>
    /\ pc[e] = "idle" => board.version \in DOMAIN snapshots /\ Shows(snapshots[board.version])
    /\ pc[e] \in {"bump", "stamp", "snapshot"} => Shows(task[e].snapshot)
    /\ pc[e] = "log" => Shows(snapshots[board.version])

(* The columns whose changes the history tells, and what an event of one   *)
(* of them says it holds.                                                  *)
Told == {"director"} \cup ENTRY_FIELDS
Says(h, f) == IF h.field = "added" THEN None ELSE IF f = "director" THEN h.newRank ELSE h.new
About(H, p, f) == {h \in H : h.prospect = p /\ h.field \in {f, "added"}}

Explained(p, f) ==
  \E h \in About(history, p, f) :
    /\ \A g \in About(history, p, f) : g.version <= h.version
    /\ entries[p][f] = Says(h, f)

ExplainInv(e) ==
  failures = 0 =>
    /\ pc[e] \in {"idle", "insert"} => \A p \in OnBoard, f \in Told : Explained(p, f)
    /\ pc[e] \in Logging => \A p \in OnBoard, f \in Told :
         /\ About(task[e].events, p, f) = {} => Explained(p, f)
         /\ \A ev \in About(task[e].events, p, f) :
              \/ entries[p][f] = Says(ev, f)
              \/ pc[e] = "update" /\ \E t \in task[e].todo : t.prospect = p /\ f \in DOMAIN t.change
    /\ pc[e] = "update" => \A t \in task[e].todo : \A f \in Told \cap DOMAIN t.change :
         \E ev \in task[e].events : ev.prospect = t.prospect /\ ev.field = f /\ t.change[f] = Says(ev, f)

(* Locks and what opens them.                                              *)
RankingFields == {"rank", "added", "removed", "director", "round", "floor"}
Locks(h) == h.field = "status" /\ h.new = "locked"
Opens(h) == h.field = "status" /\ h.new = "active" /\ Can(Role[h.user], "unlock_boards")

LockInv(e) ==
  failures = 0 =>
    /\ pc[e] = "insert" => board.status = "active"
    /\ pc[e] \in Logging => \A ev \in task[e].events :
         /\ ev.field \in RankingFields => board.status = "active"
         /\ ev.field = "status" =>
              /\ ev.new = IF pc[e] = "status" THEN task[e].status ELSE board.status
              /\ ev.new = "active" => Can(Role[ev.user], "unlock_boards")
    /\ pc[e] = "status" => \E ev \in task[e].events : ev.field = "status"
    /\ board.status = "active" => \A lock \in history : Locks(lock) =>
         \/ \E open \in history : Opens(open) /\ lock.version < open.version
         \/ pc[e] \in Logging /\ pc[e] # "status" /\ \E ev \in task[e].events : Opens(ev)
    /\ LockedUntilUnlocked

(* The derived ranks.                                                      *)
Better(score, p, q) == score[p] # None /\ score[q] # None /\ score[p] > score[q]

ScoredOf(p, q) ==
  /\ Better(RoleScore, p, q) => entries[p].model < entries[q].model
  /\ Better(FitScore, p, q) => entries[p].fit < entries[q].fit

Adds(e) == pc[e] \in Logging /\ \E ev \in task[e].events : ev.field = "added"

(* The updates left will give the entries the derived ranks of the order s.*)
Deriving(s, todo) ==
  /\ \A i \in DOMAIN s :
       \/ entries[s[i]].model = ScoreRank(s, i, RoleScore) /\ entries[s[i]].fit = ScoreRank(s, i, FitScore)
       \/ \E t \in todo : t.prospect = s[i]
  /\ \A t \in todo :
       /\ {"model", "fit"} \subseteq DOMAIN t.change
       /\ \E i \in DOMAIN s :
            /\ t.prospect = s[i]
            /\ t.change.model = ScoreRank(s, i, RoleScore) /\ t.change.fit = ScoreRank(s, i, FitScore)

AllScored == \A p, q \in OnBoard : ScoredOf(p, q)

DeriveInv(e) ==
  failures = 0 =>
    /\ ~Adds(e) \/ pc[e] \in {"version"} \cup Versioned => AllScored
    /\ Adds(e) => pc[e] \in {"update", "positionThenDerive", "derive", "version"} \cup Versioned
    /\ pc[e] \in {"positionThenDerive", "derive"} => Adds(e)
    /\ pc[e] = "update" /\ ~Adds(e) =>
         task[e].next # "derive" /\ \A t \in task[e].todo : {"model", "fit"} \cap DOMAIN t.change = {}
    /\ pc[e] = "update" /\ Adds(e) =>
         \/ task[e].next = "derive"
         \/ task[e].next = "version" /\ \E s \in Enumerations(OnBoard) : Deriving(s, task[e].todo)

(* All that is kept of a board by its only editor.                         *)
EditInv(e) == OrderInv(e) /\ FreeInv(e) /\ ShowInv(e) /\ ExplainInv(e) /\ LockInv(e) /\ DeriveInv(e)
-----------------------------------------------------------------------------
(* Steps of requests.                                                      *)

(* Only r's request moves, and no failure is counted.                      *)
Moves(r) ==
  /\ DOMAIN pc' = Requests /\ DOMAIN task' = Requests /\ failures' = failures
  /\ \A d \in Requests \ {r} : pc'[d] = pc[d] /\ task'[d] = task[d]

LEMMA GotoFacts ==
  ASSUME DOMAIN pc = Requests, DOMAIN task = Requests, NEW r \in Requests, NEW label, NEW data, Goto(r, label, data)
  PROVE  Moves(r) /\ pc'[r] = label /\ task'[r] = data
BY DEF Goto, Moves

LEMMA SendFacts ==
  ASSUME DOMAIN pc = Requests, DOMAIN task = Requests, NEW r \in Requests, NEW todo, NEW next, NEW events,
         Send(r, todo, next, events)
  PROVE  /\ Moves(r)
         /\ pc'[r] = IF todo = {} THEN next ELSE "update"
         /\ task'[r].todo = todo /\ task'[r].next = next /\ task'[r].events = events
<1>1. Goto(r, IF todo = {} THEN next ELSE "update", [todo |-> todo, next |-> next, events |-> events])
  BY DEF Send
<1> DEFINE label == IF todo = {} THEN next ELSE "update"
           data == [todo |-> todo, next |-> next, events |-> events]
<1>2. data.todo = todo /\ data.next = next /\ data.events = events
  OBVIOUS
<1> HIDE DEF label, data
<1>3. Moves(r) /\ pc'[r] = label /\ task'[r] = data
  BY <1>1, GotoFacts DEF label, data
<1> QED BY <1>2, <1>3 DEF label

-----------------------------------------------------------------------------
(* Orders.                                                                 *)

(* An order that misses nobody names nobody twice, and the other way round.*)
LEMMA Covering ==
  ASSUME NEW D, IsFiniteSet(D), NEW s \in [1..Cardinality(D) -> D]
  PROVE  IsInjective(s) <=> \A p \in D : \E i \in 1..Cardinality(D) : s[i] = p
<1> DEFINE n == Cardinality(D)
           P == 1..n
<1>1. n \in Nat
  BY FS_CardinalityType
<1>2. IsFiniteSet(P) /\ Cardinality(P) = n
  <2> HIDE DEF n
  <2>1. IsFiniteSet(1..n) /\ Cardinality(1..n) = IF 1 > n THEN 0 ELSE n - 1 + 1
    BY <1>1, FS_Interval
  <2> QED BY <1>1, <2>1
<1>3. s \in [P -> D]
  OBVIOUS
<1>4. ASSUME IsInjective(s) PROVE \A p \in D : \E i \in P : s[i] = p
  <2>1. s \in Injection(P, D)
    BY <1>3, <1>4 DEF Injection, IsInjective
  <2> HIDE DEF P
  <2>2. s \in Surjection(P, D)
    BY <1>2, <2>1, FS_Injection
  <2> QED BY <2>2 DEF Surjection
<1>5. ASSUME \A p \in D : \E i \in P : s[i] = p PROVE IsInjective(s)
  <2>1. s \in Surjection(P, D)
    BY <1>3, <1>5 DEF Surjection
  <2> HIDE DEF P
  <2>2. s \in Injection(P, D)
    BY <1>2, <2>1, FS_Surjection
  <2> QED BY <1>3, <2>2 DEF Injection, IsInjective
<1> QED BY <1>4, <1>5

(* What an enumeration is.                                                 *)
LEMMA EnumerationFacts ==
  ASSUME NEW D, IsFiniteSet(D), NEW s \in Enumerations(D)
  PROVE  /\ Cardinality(D) \in Nat /\ DOMAIN s = 1..Cardinality(D)
         /\ \A i \in DOMAIN s : s[i] \in D
         /\ \A i, j \in DOMAIN s : s[i] = s[j] => i = j
         /\ \A p \in D : \E i \in DOMAIN s : s[i] = p
<1>1. s \in [1..Cardinality(D) -> D] /\ IsInjective(s)
  BY DEF Enumerations
<1>2. Cardinality(D) \in Nat
  BY FS_CardinalityType
<1>3. \A p \in D : \E i \in 1..Cardinality(D) : s[i] = p
  BY <1>1, Covering
<1> QED BY <1>1, <1>2, <1>3 DEF IsInjective

LEMMA OrderIsEnumeration ==
  ASSUME NEW s \in Orders(entries)
  PROVE  s \in Enumerations(OnBoard)
BY DEF Orders, Enumerations, OnBoard

(* If the ranks number the entries, every order is by these numbers.       *)
LEMMA OneOrder ==
  ASSUME IsFiniteSet(OnBoard), NEW t \in Enumerations(OnBoard), RankedBy(t), NEW s \in Orders(entries)
  PROVE  RankedBy(s)
<1> DEFINE n == Cardinality(OnBoard)
           rank(i) == entries[s[i]].rank
           Wrong == {i \in 1..n : rank(i) # i}
<1>1. n \in Nat /\ DOMAIN s = 1..n /\ DOMAIN t = 1..n
  BY OrderIsEnumeration, EnumerationFacts
<1>2. \A i \in 1..n : rank(i) \in 1..n
  <2> SUFFICES ASSUME NEW i \in 1..n PROVE rank(i) \in 1..n
    OBVIOUS
  <2>1. s[i] \in OnBoard
    BY <1>1, OrderIsEnumeration, EnumerationFacts
  <2>2. PICK j \in 1..n : t[j] = s[i]
    BY <1>1, <2>1, EnumerationFacts
  <2> QED BY <1>1, <2>2 DEF RankedBy
<1>3. \A i, j \in 1..n : rank(i) = rank(j) => i = j
  <2> SUFFICES ASSUME NEW i \in 1..n, NEW j \in 1..n, rank(i) = rank(j) PROVE i = j
    OBVIOUS
  <2>1. s[i] \in OnBoard /\ s[j] \in OnBoard
    BY <1>1, OrderIsEnumeration, EnumerationFacts
  <2>2. PICK k \in 1..n, m \in 1..n : t[k] = s[i] /\ t[m] = s[j]
    BY <1>1, <2>1, EnumerationFacts
  <2>3. k = rank(i) /\ m = rank(j)
    BY <1>1, <2>2 DEF RankedBy
  <2>4. s[i] = s[j]
    BY <2>2, <2>3
  <2> QED BY <1>1, <2>4, OrderIsEnumeration, EnumerationFacts
<1>4. \A r \in 1..n : \E i \in 1..n : rank(i) = r
  <2> SUFFICES ASSUME NEW r \in 1..n PROVE \E i \in 1..n : rank(i) = r
    OBVIOUS
  <2>1. t[r] \in OnBoard /\ entries[t[r]].rank = r
    BY <1>1, EnumerationFacts DEF RankedBy
  <2>2. PICK i \in 1..n : s[i] = t[r]
    BY <1>1, <2>1, OrderIsEnumeration, EnumerationFacts
  <2> QED BY <2>1, <2>2
<1>5. \A i, j \in 1..n : i < j => rank(i) <= rank(j)
  BY <1>1 DEF Orders
<1>6. Wrong = {}
  <2> SUFFICES ASSUME Wrong # {} PROVE FALSE
    OBVIOUS
  <2>1. PICK i \in Wrong : \A j \in Wrong : i <= j
    <3>1. Wrong \subseteq Nat
      BY <1>1
    <3> HIDE DEF Wrong
    <3> QED BY <3>1, LeastNumber
  <2>2. i \in 1..n /\ rank(i) # i
    BY <2>1
  <2> HIDE DEF rank
  <2>3. \A j \in 1..n : j < i => rank(j) = j
    BY <1>1, <2>1
  <2>4. PICK k \in 1..n : rank(k) = i
    BY <1>4, <2>2
  <2>5. rank(i) > i
    <3>1. rank(i) \in 1..n
      BY <1>2, <2>2
    <3>2. CASE rank(i) < i
      <4>1. rank(rank(i)) = rank(i)
        BY <2>3, <3>1, <3>2
      <4> QED BY <1>3, <2>2, <3>1, <4>1
    <3> QED BY <1>1, <2>2, <3>1, <3>2
  <2>6. k > i
    <3>1. ~(k < i)
      BY <2>3, <2>4, <1>1
    <3>2. k # i
      BY <2>2, <2>4
    <3> QED BY <1>1, <2>2, <3>1, <3>2
  <2>7. rank(i) <= rank(k)
    BY <1>5, <2>2, <2>6
  <2> QED BY <1>1, <1>2, <2>2, <2>4, <2>5, <2>7
<1> QED BY <1>1, <1>6 DEF RankedBy

(* Ranks that number the entries are an order's, and with the positions    *)
(* that go with them in order.                                             *)
LEMMA RankedIsAnOrder ==
  ASSUME IsFiniteSet(OnBoard), NEW s \in Enumerations(OnBoard), RankedBy(s)
  PROVE  s \in Orders(entries)
<1>1. DOMAIN s = 1..Cardinality(OnBoard) /\ Cardinality(OnBoard) \in Nat /\ s \in [1..Cardinality(OnBoard) -> OnBoard]
      /\ IsInjective(s)
  BY EnumerationFacts DEF Enumerations
<1>2. \A i, j \in DOMAIN s : i < j => entries[s[i]].rank <= entries[s[j]].rank
  BY <1>1 DEF RankedBy
<1> QED BY <1>1, <1>2 DEF Orders, OnBoard

LEMMA RankedIsInOrder ==
  ASSUME IsFiniteSet(OnBoard), NEW s \in Enumerations(OnBoard), RankedBy(s), PositionedBy(s)
  PROVE  InOrder
BY RankedIsAnOrder DEF InOrder, RankedBy, PositionedBy

-----------------------------------------------------------------------------
(* However many edit the board.                                            *)

LEMMA BoardIsFinite ==
  ASSUME ShapeInv
  PROVE  IsFiniteSet(OnBoard)
BY ProspectsAssumption, FS_Subset DEF ShapeInv

LEMMA EditorsRequest ==
  Editors \subseteq Requests /\ \A e \in Editors, q \in Submitters : e # q /\ q \in Requests
BY RequestsAssumption DEF Requests

(* An edit that is not about to store its version, and leaves what is      *)
(* stored of versions alone.                                               *)
LEMMA EditKeepsVersions ==
  ASSUME VersionInv, NEW e \in Editors,
         Moves(e), board' \in Boards, OnBoard' \subseteq Prospects,
         UNCHANGED <<versions, snapshots, history>>, EditShape(e)', pc'[e] \notin Stored
  PROVE  VersionInv'
<1>1. ASSUME NEW d \in Editors, d # e PROVE pc'[d] = pc[d] /\ task'[d] = task[d]
  BY <1>1, EditorsRequest DEF Moves
<1>2. ShapeInv'
  <2>1. ASSUME NEW d \in Editors PROVE EditShape(d)'
    <3>1. CASE d = e
      BY <3>1
    <3>2. CASE d # e
      <4>1. EditShape(d)
        BY DEF VersionInv, ShapeInv
      <4> QED BY <1>1, <3>2, <4>1 DEF EditShape, OneChange, Events
    <3> QED BY <3>1, <3>2
  <2> QED BY <2>1 DEF VersionInv, ShapeInv, Moves
<1>3. ASSUME NEW d \in Editors PROVE OwnVersion(d)'
  <2>1. CASE d = e
    BY <2>1 DEF OwnVersion
  <2>2. CASE d # e
    <3>1. pc'[d] = pc[d] /\ task'[d] = task[d]
      BY <1>1, <2>2
    <3>2. \A c \in Editors : pc'[c] \in Stored => pc'[c] = pc[c] /\ task'[c] = task[c]
      BY <1>1
    <3>3. OwnVersion(d)
      BY DEF VersionInv
    <3> QED BY <3>1, <3>2, <3>3 DEF OwnVersion
  <2> QED BY <2>1, <2>2
<1>4. HistoryHasSnapshot' /\ OneEditPerVersion'
  BY DEF VersionInv, HistoryHasSnapshot, OneEditPerVersion
<1> QED BY <1>2, <1>3, <1>4 DEF VersionInv

LEMMA OneEventIsOneChange ==
  ASSUME NEW ev
  PROVE  OneChange({ev})
BY DEF OneChange

LEMMA EventsAreEvents ==
  ASSUME NEW u, NEW p, NEW f, NEW old, NEW new
  PROVE  Events({RankEvent(u, p, f, old, new)}) /\ Events({ValueEvent(u, p, f, old, new)})
BY DEF Events, RankEvent, ValueEvent

-----------------------------------------------------------------------------
(* What the actions that begin an edit do.                                 *)
Begins(e) == pc[e] = "idle" /\ Moves(e) /\ UNCHANGED <<rows, OnBoard>>

LEMMA AddEffect ==
  ASSUME ShapeInv, NEW e \in Editors, NEW u, NEW p, AddProspect(e, u, p)
  PROVE  /\ Begins(e) /\ pc'[e] = "insert" /\ board.status = "active" /\ p \notin OnBoard
         /\ task'[e] = [user |-> u, prospect |-> p, rank |-> Cardinality(OnBoard) + 1]
<1>1. DOMAIN pc = Requests /\ DOMAIN task = Requests /\ e \in Requests
  BY EditorsRequest DEF ShapeInv
<1>2. Goto(e, "insert", [user |-> u, prospect |-> p, rank |-> Cardinality(OnBoard) + 1]) /\ UNCHANGED rows
  BY DEF AddProspect
<1>3. Moves(e) /\ pc'[e] = "insert" /\ task'[e] = [user |-> u, prospect |-> p, rank |-> Cardinality(OnBoard) + 1]
  BY <1>1, <1>2, GotoFacts
<1> QED BY <1>2, <1>3 DEF AddProspect, Begin, Unlocked, Begins, rows, OnBoard

LEMMA RemoveEffect ==
  ASSUME ShapeInv, NEW e \in Editors, NEW u, NEW p, RemoveProspect(e, u, p)
  PROVE  /\ Begins(e) /\ pc'[e] = "delete" /\ board.status = "active" /\ p \in OnBoard
         /\ task'[e] = [prospect |-> p, events |-> {RankEvent(u, p, "removed", entries[p].rank, None)}]
<1>1. DOMAIN pc = Requests /\ DOMAIN task = Requests /\ e \in Requests
  BY EditorsRequest DEF ShapeInv
<1> DEFINE data == [prospect |-> p, events |-> {RankEvent(u, p, "removed", entries[p].rank, None)}]
<1>2. Goto(e, "delete", data) /\ UNCHANGED rows
  BY DEF RemoveProspect
<1>3. Moves(e) /\ pc'[e] = "delete" /\ task'[e] = data
  <2> HIDE DEF data
  <2> QED BY <1>1, <1>2, GotoFacts
<1> QED BY <1>2, <1>3 DEF RemoveProspect, Begin, Unlocked, Begins, rows, OnBoard

(* An edit of one entry's fields, and what it tells: the director's rank,  *)
(* or some of its form.                                                    *)
EntryEvent(u, p, f, value) ==
  IF f = "director" THEN RankEvent(u, p, f, entries[p][f], value) ELSE ValueEvent(u, p, f, entries[p][f], value)

EntryEvents(u, p, change) == {EntryEvent(u, p, f, change[f]) : f \in DOMAIN change}

EditsEntry(e, u, p, change) ==
  /\ Begin(e) /\ p \in OnBoard
  /\ DOMAIN change = {"director"} \/ DOMAIN change \subseteq ENTRY_FIELDS
  /\ DOMAIN change \subseteq NOTE_FIELDS \/ Unlocked
  /\ Store(e, p, change, EntryEvents(u, p, change))

LEMMA StoreEffect ==
  ASSUME ShapeInv, NEW e \in Editors, NEW u, NEW p, NEW change, EditsEntry(e, u, p, change)
  PROVE  /\ Begins(e) /\ pc'[e] = "update" /\ p \in OnBoard
         /\ task'[e].todo = {Change(1, p, change)} /\ task'[e].next = "version"
         /\ task'[e].events = EntryEvents(u, p, change)
         /\ DOMAIN change \subseteq Told
<1>1. DOMAIN pc = Requests /\ DOMAIN task = Requests /\ e \in Requests
  BY EditorsRequest DEF ShapeInv
<1> DEFINE t == Change(1, p, change)
           S == EntryEvents(u, p, change)
<1>2. Send(e, {t}, "version", S) /\ UNCHANGED rows /\ p \in OnBoard
  BY DEF EditsEntry, Store
<1>3. Moves(e) /\ pc'[e] = "update" /\ task'[e].todo = {t} /\ task'[e].next = "version" /\ task'[e].events = S
  <2> HIDE DEF t, S
  <2>1. {t} # {}
    OBVIOUS
  <2> QED BY <1>1, <1>2, <2>1, SendFacts
<1>4. DOMAIN change \subseteq Told
  BY DEF EditsEntry, Told
<1> QED BY <1>2, <1>3, <1>4 DEF EditsEntry, Begin, Begins, rows, OnBoard

(* The updates and the events of a reorder.                                *)
Moved(s) == Updates(entries, s, "rank", Places(s))
MoveEvents(u, s) == {RankEvent(u, t.prospect, "rank", entries[t.prospect].rank, t.change.rank) : t \in Moved(s)}

LEMMA ReorderEffect ==
  ASSUME ShapeInv, NEW e \in Editors, NEW u, NEW s \in [1..Cardinality(OnBoard) -> OnBoard], ReorderBoard(e, u, s)
  PROVE  /\ Begins(e) /\ pc'[e] = "update" /\ board.status = "active" /\ s \in Enumerations(OnBoard)
         /\ task'[e].todo = Moved(s) /\ task'[e].next = "position" /\ task'[e].events = MoveEvents(u, s)
<1>1. DOMAIN pc = Requests /\ DOMAIN task = Requests /\ e \in Requests
  BY EditorsRequest DEF ShapeInv
<1>2. Send(e, Moved(s), "position", MoveEvents(u, s)) /\ Moved(s) # {} /\ UNCHANGED rows /\ Range(s) = OnBoard
  BY DEF ReorderBoard, Moved, MoveEvents
<1>3. Moves(e) /\ pc'[e] = "update" /\ task'[e].todo = Moved(s) /\ task'[e].next = "position"
      /\ task'[e].events = MoveEvents(u, s)
  BY <1>1, <1>2, SendFacts
<1>4. s \in Enumerations(OnBoard)
  <2>1. \A p \in OnBoard : \E i \in 1..Cardinality(OnBoard) : s[i] = p
    BY <1>2 DEF Range
  <2> QED BY <2>1, BoardIsFinite, Covering DEF Enumerations
<1> QED BY <1>2, <1>3, <1>4 DEF ReorderBoard, Begin, Unlocked, Begins, rows, OnBoard

LEMMA StatusEffect ==
  ASSUME ShapeInv, NEW e \in Editors, NEW u, NEW status, SetStatus(e, u, status)
  PROVE  /\ Begins(e) /\ pc'[e] = "status"
         /\ task'[e] = [status |-> status, events |-> {ValueEvent(u, None, "status", board.status, status)}]
<1>1. DOMAIN pc = Requests /\ DOMAIN task = Requests /\ e \in Requests
  BY EditorsRequest DEF ShapeInv
<1> DEFINE data == [status |-> status, events |-> {ValueEvent(u, None, "status", board.status, status)}]
<1>2. Goto(e, "status", data) /\ UNCHANGED rows
  BY DEF SetStatus
<1>3. Moves(e) /\ pc'[e] = "status" /\ task'[e] = data
  <2> HIDE DEF data
  <2> QED BY <1>1, <1>2, GotoFacts
<1> QED BY <1>2, <1>3 DEF SetStatus, Begin, Begins, rows, OnBoard

LEMMA EventFields ==
  ASSUME NEW u, NEW p, NEW f, NEW old, NEW new
  PROVE  /\ RankEvent(u, p, f, old, new).field = f /\ ValueEvent(u, p, f, old, new).field = f
         /\ RankEvent(u, p, f, old, new).prospect = p /\ ValueEvent(u, p, f, old, new).prospect = p
         /\ RankEvent(u, p, f, old, new).user = u /\ ValueEvent(u, p, f, old, new).user = u
         /\ RankEvent(u, p, f, old, new).newRank = new /\ ValueEvent(u, p, f, old, new).new = new
BY DEF RankEvent, ValueEvent

LEMMA EntryFields ==
  ASSUME NEW u, NEW p, NEW f, NEW value
  PROVE  /\ EntryEvent(u, p, f, value).field = f /\ EntryEvent(u, p, f, value).prospect = p
         /\ EntryEvent(u, p, f, value).user = u
         /\ f = "director" => EntryEvent(u, p, f, value).newRank = value
         /\ f # "director" => EntryEvent(u, p, f, value).new = value
BY EventFields DEF EntryEvent

(* The fields of a form are told one by one.                               *)
LEMMA EntryIsOneChange ==
  ASSUME NEW u, NEW p, NEW change, DOMAIN change = {"director"} \/ DOMAIN change \subseteq ENTRY_FIELDS
  PROVE  OneChange(EntryEvents(u, p, change)) /\ Events(EntryEvents(u, p, change))
<1> DEFINE Tells(f) == EntryEvent(u, p, f, change[f])
<1>1. ASSUME NEW f \in DOMAIN change, NEW g \in DOMAIN change, Tells(f) # Tells(g)
      PROVE  OneEdit(Tells(f), Tells(g))
  <2>1. f # g
    BY <1>1
  <2>2. {f, g} \subseteq ENTRY_FIELDS
    BY <2>1
  <2>3. \A x \in {f, g} : Tells(x).field = x /\ Tells(x).prospect = p /\ Tells(x).user = u
    BY EntryFields
  <2> HIDE DEF Tells
  <2> QED BY <2>1, <2>2, <2>3 DEF OneEdit
<1>2. \A f \in DOMAIN change : {"field", "user", "prospect", "new", "newRank"} \subseteq DOMAIN Tells(f)
  BY DEF EntryEvent, RankEvent, ValueEvent
<1> HIDE DEF Tells
<1>3. EntryEvents(u, p, change) = {Tells(f) : f \in DOMAIN change}
  BY DEF EntryEvents, Tells
<1> QED BY <1>1, <1>2, <1>3 DEF OneChange, Events

(* The moves of a reorder are of different entries.                        *)
LEMMA MovesAreOneChange ==
  ASSUME IsFiniteSet(OnBoard), NEW s \in Enumerations(OnBoard), NEW u
  PROVE  OneChange(MoveEvents(u, s))
<1> DEFINE Move(t) == RankEvent(u, t.prospect, "rank", entries[t.prospect].rank, t.change.rank)
<1>1. \A x, y \in Moved(s) : x.prospect = y.prospect => x = y
  <2> SUFFICES ASSUME NEW x \in Moved(s), NEW y \in Moved(s), x.prospect = y.prospect PROVE x = y
    OBVIOUS
  <2>1. PICK i \in DOMAIN s : x = Change(i, s[i], [c \in {"rank"} |-> Places(s)[i]])
    BY DEF Moved, Updates
  <2>2. PICK j \in DOMAIN s : y = Change(j, s[j], [c \in {"rank"} |-> Places(s)[j]])
    BY DEF Moved, Updates
  <2>3. s[i] = s[j]
    BY <2>1, <2>2 DEF Change
  <2>4. i = j
    BY <2>3, EnumerationFacts
  <2> QED BY <2>1, <2>2, <2>4
<1>2. \A t \in Moved(s) : Move(t).field = "rank" /\ Move(t).user = u /\ Move(t).prospect = t.prospect
  BY DEF RankEvent
<1>3. ASSUME NEW x \in Moved(s), NEW y \in Moved(s), Move(x) # Move(y)
      PROVE  OneEdit(Move(x), Move(y))
  <2>1. x # y
    BY <1>3
  <2> HIDE DEF Move
  <2> QED BY <1>1, <1>2, <2>1 DEF OneEdit
<1>4. OneChange({Move(t) : t \in Moved(s)})
  <2> HIDE DEF Move
  <2> QED BY <1>3 DEF OneChange
<1> QED BY <1>4 DEF MoveEvents

LEMMA MovesAreEvents ==
  ASSUME NEW s, NEW u
  PROVE  Events(MoveEvents(u, s))
BY DEF Events, MoveEvents, RankEvent

(* An edit adds, removes or edits an entry, reorders or sets the status.   *)
LEMMA EditCases ==
  ASSUME NEW e \in Editors, NEW u \in Users, Edit(e, u)
  PROVE  \/ \E p \in Prospects : AddProspect(e, u, p)
         \/ \E p \in Prospects : RemoveProspect(e, u, p)
         \/ \E change : \E p \in Prospects : EditsEntry(e, u, p, change)
         \/ \E s \in [1..Cardinality(OnBoard) -> OnBoard] : ReorderBoard(e, u, s)
         \/ \E status \in Statuses :
              SetStatus(e, u, status) /\ (status = "active" => Can(Role[u], "unlock_boards"))
<1>1. ASSUME NEW p \in Prospects, NEW rank, SetDirectorRank(e, u, p, rank)
      PROVE  EditsEntry(e, u, p, [director |-> rank])
  <2> DEFINE change == [director |-> rank]
  <2>1. DOMAIN change = {"director"} /\ change.director = rank
    OBVIOUS
  <2>2. EntryEvent(u, p, "director", rank) = RankEvent(u, p, "director", entries[p].director, rank)
    BY DEF EntryEvent
  <2>3. /\ Begin(e) /\ Unlocked /\ p \in OnBoard
        /\ Store(e, p, change, {EntryEvent(u, p, "director", rank)})
    BY <1>1, <2>2 DEF SetDirectorRank
  <2> HIDE DEF change
  <2>4. EntryEvents(u, p, change) = {EntryEvent(u, p, "director", rank)}
    BY <2>1 DEF EntryEvents
  <2>5. Store(e, p, change, EntryEvents(u, p, change))
    BY <2>3, <2>4
  <2> QED BY <2>1, <2>3, <2>5 DEF EditsEntry, change
<1>2. ASSUME NEW p \in Prospects, NEW form \in Forms, UpdateEntry(e, u, p, form)
      PROVE  \E change : EditsEntry(e, u, p, change)
  <2> DEFINE set == {f \in DOMAIN form : entries[p][f] # form[f]}
             change == [f \in set |-> form[f]]
             S == {ValueEvent(u, p, f, entries[p][f], form[f]) : f \in set}
  <2>1. /\ Begin(e) /\ p \in OnBoard /\ (DOMAIN form \subseteq NOTE_FIELDS \/ Unlocked)
        /\ Store(e, p, change, S)
    BY <1>2 DEF UpdateEntry
  <2>2. DOMAIN change \subseteq DOMAIN form /\ DOMAIN form \subseteq ENTRY_FIELDS /\ "director" \notin DOMAIN change
    BY FormsAssumption DEF ENTRY_FIELDS
  <2>3. S = EntryEvents(u, p, change)
    <3>1. \A f \in set : EntryEvent(u, p, f, change[f]) = ValueEvent(u, p, f, entries[p][f], form[f])
      BY <2>2 DEF EntryEvent
    <3>2. DOMAIN change = set
      OBVIOUS
    <3> HIDE DEF change, set
    <3> QED BY <3>1, <3>2 DEF EntryEvents
  <2> HIDE DEF change, S, set
  <2>4. Store(e, p, change, EntryEvents(u, p, change))
    BY <2>1, <2>3
  <2>5. EditsEntry(e, u, p, change)
    BY <2>1, <2>2, <2>4 DEF EditsEntry
  <2> QED BY <2>5
<1>3. CASE \E p \in Prospects : \E rank \in DirectorRanks \cup {None} : SetDirectorRankAction(e, u, p, rank)
  BY <1>1, <1>3 DEF SetDirectorRankAction
<1>4. CASE \E p \in Prospects : \E form \in Forms : UpdateBoardEntryAction(e, u, p, form)
  BY <1>2, <1>4 DEF UpdateBoardEntryAction
<1>5. CASE \E p \in Prospects : AddBoardProspectAction(e, u, p) \/ RemoveBoardProspectAction(e, u, p)
  BY <1>5 DEF AddBoardProspectAction, RemoveBoardProspectAction
<1>6. CASE \E s \in [1..Cardinality(OnBoard) -> OnBoard] : ReorderBoardAction(e, u, s)
  BY <1>6 DEF ReorderBoardAction
<1>7. CASE \E status \in Statuses : SetBoardStatusAction(e, u, status)
  BY <1>7 DEF SetBoardStatusAction, StatusCapability
<1> QED BY <1>3, <1>4, <1>5, <1>6, <1>7 DEF Edit

LEMMA BeginKeepsVersions ==
  ASSUME VersionInv, NEW e \in Editors, NEW u \in Users, Edit(e, u)
  PROVE  VersionInv'
<1>1. ShapeInv /\ board \in Boards /\ OnBoard \subseteq Prospects /\ IsFiniteSet(OnBoard)
  BY BoardIsFinite DEF VersionInv, ShapeInv
<1>2. ASSUME Begins(e), pc'[e] \in {"insert", "delete", "update", "status"},
             pc'[e] = "insert" => task'[e].prospect \in Prospects,
             pc'[e] = "status" => task'[e].status \in BoardStatuses,
             pc'[e] = "update" => task'[e].next \in {"position", "derive", "version"},
             pc'[e] # "insert" => OneChange(task'[e].events) /\ Events(task'[e].events)
      PROVE  VersionInv'
  <2>1. Moves(e) /\ UNCHANGED <<board, versions, snapshots, history>> /\ OnBoard' = OnBoard
    BY <1>2 DEF Begins, rows
  <2>2. pc'[e] \notin Versioned /\ pc'[e] \notin Stored /\ (pc'[e] \in Logging => pc'[e] # "insert")
    BY <1>2 DEF Versioned, Stored, Logging
  <2>3. EditShape(e)'
    BY <1>2, <2>2 DEF EditShape, OneChange, Events
  <2> QED BY <1>1, <2>1, <2>2, <2>3, EditKeepsVersions
<1>3. ASSUME NEW p \in Prospects, AddProspect(e, u, p) PROVE VersionInv'
  <2>1. Begins(e) /\ pc'[e] = "insert" /\ task'[e] = [user |-> u, prospect |-> p, rank |-> Cardinality(OnBoard) + 1]
    BY <1>1, <1>3, AddEffect
  <2>2. task'[e].prospect = p
    BY <2>1
  <2> QED BY <1>2, <2>1, <2>2
<1>4. ASSUME NEW p \in Prospects, RemoveProspect(e, u, p) PROVE VersionInv'
  <2> DEFINE ev == RankEvent(u, p, "removed", entries[p].rank, None)
  <2>1. Begins(e) /\ pc'[e] = "delete" /\ task'[e] = [prospect |-> p, events |-> {ev}]
    BY <1>1, <1>4, RemoveEffect
  <2>2. Events({ev})
    BY EventsAreEvents
  <2> HIDE DEF ev
  <2>3. OneChange(task'[e].events) /\ Events(task'[e].events)
    <3>1. task'[e].events = {ev}
      BY <2>1
    <3> QED BY <2>2, <3>1, OneEventIsOneChange
  <2> QED BY <1>2, <2>1, <2>3
<1>5. ASSUME NEW p, NEW change, EditsEntry(e, u, p, change) PROVE VersionInv'
  <2>1. Begins(e) /\ pc'[e] = "update" /\ task'[e].next = "version" /\ task'[e].events = EntryEvents(u, p, change)
    BY <1>1, <1>5, StoreEffect
  <2>2. OneChange(task'[e].events) /\ Events(task'[e].events)
    BY <1>5, <2>1, EntryIsOneChange DEF EditsEntry
  <2> QED BY <1>2, <2>1, <2>2
<1>6. ASSUME NEW s \in [1..Cardinality(OnBoard) -> OnBoard], ReorderBoard(e, u, s) PROVE VersionInv'
  <2>1. /\ Begins(e) /\ pc'[e] = "update" /\ s \in Enumerations(OnBoard) /\ task'[e].events = MoveEvents(u, s)
        /\ task'[e].next = "position"
    BY <1>1, <1>6, ReorderEffect
  <2>2. OneChange(task'[e].events) /\ Events(task'[e].events)
    BY <1>1, <2>1, MovesAreOneChange, MovesAreEvents
  <2> QED BY <1>2, <2>1, <2>2
<1>7. ASSUME NEW status \in Statuses, SetStatus(e, u, status) PROVE VersionInv'
  <2> DEFINE ev == ValueEvent(u, None, "status", board.status, status)
  <2>1. Begins(e) /\ pc'[e] = "status" /\ task'[e] = [status |-> status, events |-> {ev}]
    BY <1>1, <1>7, StatusEffect
  <2>2. Events({ev})
    BY EventsAreEvents
  <2> HIDE DEF ev
  <2>3. OneChange(task'[e].events) /\ Events(task'[e].events)
    <3>1. task'[e].events = {ev}
      BY <2>1
    <3> QED BY <2>2, <3>1, OneEventIsOneChange
  <2>4. task'[e].status \in BoardStatuses
    <3>1. task'[e].status = status
      BY <2>1
    <3> QED BY <3>1, ValuesAssumption DEF BoardStatuses
  <2> QED BY <1>2, <2>1, <2>3, <2>4
<1> QED
  BY <1>3, <1>4, <1>5, <1>6, <1>7, EditCases

-----------------------------------------------------------------------------
(* What the steps of an edit do.                                           *)
(* What is stored of the board but for its entries.                         *)
Stamps == <<board, versions, snapshots, history>>

LEMMA InsertEntryEffect ==
  ASSUME ShapeInv, NEW e \in Editors, InsertEntry(e)
  PROVE  /\ pc[e] = "insert" /\ Moves(e) /\ UNCHANGED <<Stamps, rankings, consensus>>
         /\ \/ task[e].prospect \in OnBoard /\ pc'[e] = "idle" /\ UNCHANGED <<entries, OnBoard>>
            \/ /\ task[e].prospect \notin OnBoard /\ pc'[e] = "positionThenDerive"
               /\ task'[e].events = {RankEvent(task[e].user, task[e].prospect, "added", None, task[e].rank)}
               /\ OnBoard' = OnBoard \cup {task[e].prospect}
               /\ entries' = [q \in OnBoard \cup {task[e].prospect} |->
                               IF q = task[e].prospect THEN NewEntry(task[e].rank) ELSE entries[q]]
<1>1. DOMAIN pc = Requests /\ DOMAIN task = Requests /\ e \in Requests
  BY EditorsRequest DEF ShapeInv
<1>2. pc[e] = "insert" /\ UNCHANGED <<Stamps, rankings, consensus>>
  BY DEF InsertEntry, Stamps
<1>3. CASE task[e].prospect \in OnBoard
  <2>1. Goto(e, "idle", None) /\ UNCHANGED entries
    BY <1>3 DEF InsertEntry, Finish
  <2>2. Moves(e) /\ pc'[e] = "idle"
    BY <1>1, <2>1, GotoFacts
  <2> QED BY <1>2, <1>3, <2>1, <2>2 DEF OnBoard
<1>4. CASE task[e].prospect \notin OnBoard
  <2> DEFINE ev == RankEvent(task[e].user, task[e].prospect, "added", None, task[e].rank)
             added == [q \in OnBoard \cup {task[e].prospect} |->
                         IF q = task[e].prospect THEN NewEntry(task[e].rank) ELSE entries[q]]
  <2>1. Send(e, {}, "positionThenDerive", {ev}) /\ entries' = added
    BY <1>4 DEF InsertEntry
  <2>2. Moves(e) /\ pc'[e] = "positionThenDerive" /\ task'[e].events = {ev}
    <3> HIDE DEF ev, added
    <3> QED BY <1>1, <2>1, SendFacts
  <2>3. OnBoard' = OnBoard \cup {task[e].prospect}
    BY <2>1 DEF OnBoard
  <2> QED BY <1>2, <1>4, <2>1, <2>2, <2>3
<1> QED BY <1>3, <1>4

LEMMA DeleteEntryEffect ==
  ASSUME ShapeInv, NEW e \in Editors, DeleteEntry(e)
  PROVE  /\ pc[e] = "delete" /\ Moves(e) /\ UNCHANGED <<Stamps, rankings, consensus>>
         /\ pc'[e] = "renumber" /\ task'[e].events = task[e].events
         /\ OnBoard' = OnBoard \ {task[e].prospect}
         /\ entries' = [q \in OnBoard \ {task[e].prospect} |-> entries[q]]
<1>1. DOMAIN pc = Requests /\ DOMAIN task = Requests /\ e \in Requests
  BY EditorsRequest DEF ShapeInv
<1>2. pc[e] = "delete" /\ UNCHANGED <<Stamps, rankings, consensus>> /\ Send(e, {}, "renumber", task[e].events)
      /\ entries' = [q \in OnBoard \ {task[e].prospect} |-> entries[q]]
  BY DEF DeleteEntry, Stamps
<1>3. Moves(e) /\ pc'[e] = "renumber" /\ task'[e].events = task[e].events
  BY <1>1, <1>2, SendFacts
<1>4. OnBoard' = OnBoard \ {task[e].prospect}
  BY <1>2 DEF OnBoard
<1> QED BY <1>2, <1>3, <1>4

LEMMA RenumberEffect ==
  ASSUME ShapeInv, NEW e \in Editors, Renumber(e)
  PROVE  /\ pc[e] = "renumber" /\ Moves(e) /\ UNCHANGED <<rows, OnBoard>>
         /\ task'[e].events = task[e].events /\ task'[e].next = "position"
         /\ \E s \in Orders(entries) :
              task'[e].todo = Moved(s) /\ pc'[e] = IF Moved(s) = {} THEN "position" ELSE "update"
<1>1. DOMAIN pc = Requests /\ DOMAIN task = Requests /\ e \in Requests
  BY EditorsRequest DEF ShapeInv
<1>2. PICK s \in Orders(entries) : Send(e, Moved(s), "position", task[e].events)
  BY DEF Renumber, Moved
<1>3. Moves(e) /\ task'[e].events = task[e].events /\ task'[e].next = "position" /\ task'[e].todo = Moved(s)
      /\ pc'[e] = IF Moved(s) = {} THEN "position" ELSE "update"
  BY <1>1, <1>2, SendFacts
<1> QED BY <1>3 DEF Renumber, rows, OnBoard

LEMMA UpdateEffect ==
  ASSUME ShapeInv, NEW e \in Editors, Update(e)
  PROVE  /\ pc[e] = "update" /\ Moves(e) /\ UNCHANGED <<Stamps, rankings, consensus, OnBoard>>
         /\ task'[e].events = task[e].events /\ task'[e].next = task[e].next
         /\ \E t \in task[e].todo :
              /\ entries' = IF t.prospect \in OnBoard
                            THEN [entries EXCEPT ![t.prospect] = Changed(entries[t.prospect], t.change)] ELSE entries
              /\ task'[e].todo = task[e].todo \ {t}
              /\ pc'[e] = IF task[e].todo \ {t} = {} THEN task[e].next ELSE "update"
<1>1. DOMAIN pc = Requests /\ DOMAIN task = Requests /\ e \in Requests
  BY EditorsRequest DEF ShapeInv
<1>2. PICK t \in task[e].todo :
        /\ entries' = IF t.prospect \in OnBoard
                      THEN [entries EXCEPT ![t.prospect] = Changed(entries[t.prospect], t.change)] ELSE entries
        /\ Send(e, task[e].todo \ {t}, task[e].next, task[e].events)
  BY DEF Update
<1>3. /\ Moves(e) /\ task'[e].events = task[e].events /\ task'[e].next = task[e].next
      /\ task'[e].todo = task[e].todo \ {t}
      /\ pc'[e] = IF task[e].todo \ {t} = {} THEN task[e].next ELSE "update"
  BY <1>1, <1>2, SendFacts
<1>4. OnBoard' = OnBoard
  BY <1>2 DEF OnBoard
<1> QED BY <1>2, <1>3, <1>4 DEF Update, Stamps

(* The updates of a step that recomputes positions, or the derived ranks.  *)
Positions(s) == Updates(entries, s, "position", [i \in DOMAIN s |-> PositionRank(s, i)])
Derived(s) ==
  {Change(i, s[i], [model |-> ScoreRank(s, i, RoleScore), fit |-> ScoreRank(s, i, FitScore),
                    consensus |-> Mean(consensus[s[i]])]) : i \in DOMAIN s}

LEMMA RepositionEffect ==
  ASSUME ShapeInv, NEW e \in Editors, Reposition(e)
  PROVE  /\ pc[e] \in {"position", "positionThenDerive"} /\ Moves(e) /\ UNCHANGED <<rows, OnBoard>>
         /\ task'[e].events = task[e].events
         /\ task'[e].next = IF pc[e] = "position" THEN "version" ELSE "derive"
         /\ \E s \in Orders(entries) :
              task'[e].todo = Positions(s) /\ pc'[e] = IF Positions(s) = {} THEN task'[e].next ELSE "update"
<1>1. DOMAIN pc = Requests /\ DOMAIN task = Requests /\ e \in Requests
  BY EditorsRequest DEF ShapeInv
<1> DEFINE next == IF pc[e] = "position" THEN "version" ELSE "derive"
<1>2. PICK s \in Orders(entries) : Send(e, Positions(s), next, task[e].events)
  BY DEF Reposition, Positions
<1>3. /\ Moves(e) /\ task'[e].events = task[e].events /\ task'[e].next = next /\ task'[e].todo = Positions(s)
      /\ pc'[e] = IF Positions(s) = {} THEN next ELSE "update"
  <2> HIDE DEF next
  <2> QED BY <1>1, <1>2, SendFacts
<1> QED BY <1>3 DEF Reposition, rows, OnBoard

LEMMA DeriveEffect ==
  ASSUME ShapeInv, NEW e \in Editors, Derive(e)
  PROVE  /\ pc[e] = "derive" /\ Moves(e) /\ UNCHANGED <<rows, OnBoard>>
         /\ task'[e].events = task[e].events /\ task'[e].next = "version"
         /\ \E s \in Orders(entries) :
              task'[e].todo = Derived(s) /\ pc'[e] = IF Derived(s) = {} THEN "version" ELSE "update"
<1>1. DOMAIN pc = Requests /\ DOMAIN task = Requests /\ e \in Requests
  BY EditorsRequest DEF ShapeInv
<1>2. PICK s \in Orders(entries) : Send(e, Derived(s), "version", task[e].events)
  BY DEF Derive, Derived
<1>3. /\ Moves(e) /\ task'[e].events = task[e].events /\ task'[e].next = "version" /\ task'[e].todo = Derived(s)
      /\ pc'[e] = IF Derived(s) = {} THEN "version" ELSE "update"
  BY <1>1, <1>2, SendFacts
<1> QED BY <1>3 DEF Derive, rows, OnBoard

LEMMA WriteStatusEffect ==
  ASSUME ShapeInv, NEW e \in Editors, WriteStatus(e)
  PROVE  /\ pc[e] = "status" /\ Moves(e) /\ UNCHANGED <<entries, versions, snapshots, history, OnBoard>>
         /\ board' = [board EXCEPT !.status = task[e].status]
         /\ pc'[e] = "version" /\ task'[e].events = task[e].events
<1>1. DOMAIN pc = Requests /\ DOMAIN task = Requests /\ e \in Requests
  BY EditorsRequest DEF ShapeInv
<1>2. Send(e, {}, "version", task[e].events)
  BY DEF WriteStatus
<1>3. Moves(e) /\ pc'[e] = "version" /\ task'[e].events = task[e].events
  BY <1>1, <1>2, SendFacts
<1> QED BY <1>3 DEF WriteStatus, OnBoard

LEMMA ReadVersionEffect ==
  ASSUME ShapeInv, NEW e \in Editors, ReadVersion(e)
  PROVE  /\ pc[e] = "version" /\ Moves(e) /\ UNCHANGED <<rows, OnBoard>>
         /\ pc'[e] = "bump" /\ task'[e].version = board.version + 1 /\ task'[e].events = task[e].events
         /\ \E s \in Orders(entries) : task'[e].snapshot = Snapshot(entries, s)
<1>1. DOMAIN pc = Requests /\ DOMAIN task = Requests /\ e \in Requests
  BY EditorsRequest DEF ShapeInv
<1>2. PICK s \in Orders(entries) :
        Goto(e, "bump", [version |-> NextVersion, snapshot |-> Snapshot(entries, s), events |-> task[e].events])
  BY DEF ReadVersion
<1> DEFINE data == [version |-> NextVersion, snapshot |-> Snapshot(entries, s), events |-> task[e].events]
<1>3. Moves(e) /\ pc'[e] = "bump" /\ task'[e] = data
  <2> HIDE DEF data
  <2> QED BY <1>1, <1>2, GotoFacts DEF data
<1>4. data.version = board.version + 1 /\ data.snapshot = Snapshot(entries, s) /\ data.events = task[e].events
  BY DEF NextVersion
<1> HIDE DEF data
<1>5. pc[e] = "version" /\ UNCHANGED <<rows, OnBoard>>
  BY DEF ReadVersion, rows, OnBoard
<1> QED BY <1>3, <1>4, <1>5

LEMMA BumpEffect ==
  ASSUME ShapeInv, NEW e \in Editors, BumpVersion(e)
  PROVE  /\ pc[e] = "bump" /\ Moves(e) /\ UNCHANGED <<entries, versions, snapshots, history, OnBoard>>
         /\ board' = [board EXCEPT !.version = task[e].version] /\ pc'[e] = "stamp" /\ task'[e] = task[e]
<1>1. DOMAIN pc = Requests /\ DOMAIN task = Requests /\ e \in Requests
  BY EditorsRequest DEF ShapeInv
<1>2. Goto(e, "stamp", task[e])
  BY DEF BumpVersion
<1>3. Moves(e) /\ pc'[e] = "stamp" /\ task'[e] = task[e]
  BY <1>1, <1>2, GotoFacts
<1> QED BY <1>3 DEF BumpVersion, OnBoard

LEMMA InsertVersionEffect ==
  ASSUME ShapeInv, NEW e \in Editors, InsertVersion(e)
  PROVE  /\ pc[e] = "stamp" /\ Moves(e) /\ UNCHANGED <<board, entries, snapshots, history, OnBoard>>
         /\ \/ task[e].version \in versions /\ pc'[e] = "idle" /\ versions' = versions
            \/ /\ task[e].version \notin versions /\ pc'[e] = "snapshot" /\ task'[e] = task[e]
               /\ versions' = versions \cup {task[e].version}
<1>1. DOMAIN pc = Requests /\ DOMAIN task = Requests /\ e \in Requests
  BY EditorsRequest DEF ShapeInv
<1>2. pc[e] = "stamp" /\ UNCHANGED <<board, entries, snapshots, history, OnBoard>>
  BY DEF InsertVersion, OnBoard
<1>3. CASE task[e].version \in versions
  <2>1. Goto(e, "idle", None) /\ versions' = versions
    BY <1>3 DEF InsertVersion, Finish
  <2> QED BY <1>1, <1>2, <1>3, <2>1, GotoFacts
<1>4. CASE task[e].version \notin versions
  <2>1. Goto(e, "snapshot", task[e]) /\ versions' = versions \cup {task[e].version}
    BY <1>4 DEF InsertVersion
  <2> QED BY <1>1, <1>2, <1>4, <2>1, GotoFacts
<1> QED BY <1>3, <1>4

LEMMA InsertSnapshotEffect ==
  ASSUME ShapeInv, NEW e \in Editors, InsertSnapshot(e)
  PROVE  /\ pc[e] = "snapshot" /\ Moves(e) /\ UNCHANGED <<board, entries, versions, history, OnBoard>>
         /\ task[e].version \notin DOMAIN snapshots /\ pc'[e] = "log" /\ task'[e] = task[e]
         /\ DOMAIN snapshots' = DOMAIN snapshots \cup {task[e].version}
         /\ snapshots'[task[e].version] = task[e].snapshot
<1>1. DOMAIN pc = Requests /\ DOMAIN task = Requests /\ e \in Requests
  BY EditorsRequest DEF ShapeInv
<1>2. Goto(e, "log", task[e])
  BY DEF InsertSnapshot
<1>3. Moves(e) /\ pc'[e] = "log" /\ task'[e] = task[e]
  BY <1>1, <1>2, GotoFacts
<1> QED BY <1>3 DEF InsertSnapshot, OnBoard

LEMMA InsertHistoryEffect ==
  ASSUME ShapeInv, NEW e \in Editors, InsertHistory(e)
  PROVE  /\ pc[e] = "log" /\ Moves(e) /\ UNCHANGED <<board, entries, versions, snapshots, OnBoard>>
         /\ pc'[e] = "idle"
         /\ history' = history \cup {Logged(ev, task[e].version) : ev \in task[e].events}
<1>1. DOMAIN pc = Requests /\ DOMAIN task = Requests /\ e \in Requests
  BY EditorsRequest DEF ShapeInv
<1>2. Goto(e, "idle", None)
  BY DEF InsertHistory, Finish
<1>3. Moves(e) /\ pc'[e] = "idle"
  BY <1>1, <1>2, GotoFacts
<1> QED BY <1>3 DEF InsertHistory, OnBoard

(* What is logged is what was to be logged, and its version.               *)
LEMMA LoggedFields ==
  ASSUME NEW ev, "field" \in DOMAIN ev, "user" \in DOMAIN ev, "prospect" \in DOMAIN ev, NEW v
  PROVE  /\ Logged(ev, v).version = v
         /\ Logged(ev, v).field = ev.field /\ Logged(ev, v).user = ev.user
         /\ Logged(ev, v).prospect = ev.prospect
BY DEF Logged

LEMMA ContinueKeepsVersions ==
  ASSUME VersionInv, NEW e \in Editors, Continue(e)
  PROVE  VersionInv'
<1>1. /\ ShapeInv /\ board \in Boards /\ OnBoard \subseteq Prospects /\ IsFiniteSet(OnBoard)
      /\ OwnVersion(e) /\ EditShape(e)
  BY BoardIsFinite DEF VersionInv, ShapeInv
<1>2. ASSUME Moves(e), UNCHANGED Stamps, OnBoard' \subseteq Prospects,
             pc'[e] \in {"idle", "renumber", "update", "position", "positionThenDerive", "derive", "version"},
             pc'[e] = "update" => task'[e].next \in {"position", "derive", "version"},
             pc'[e] \in Logging => OneChange(task'[e].events) /\ Events(task'[e].events)
      PROVE  VersionInv'
  <2>1. pc'[e] \notin Stored
    BY <1>2 DEF Stored
  <2>2. EditShape(e)'
    BY <1>2 DEF EditShape, Versioned, OneChange, Events
  <2> QED BY <1>1, <1>2, <2>1, <2>2, EditKeepsVersions DEF Stamps
<1>l. pc[e] \in Logging => OneChange(task[e].events) /\ Events(task[e].events)
  BY <1>1 DEF EditShape
<1>3. ASSUME InsertEntry(e) PROVE VersionInv'
  <2>1. /\ pc[e] = "insert" /\ Moves(e) /\ UNCHANGED <<Stamps, rankings, consensus>>
        /\ \/ task[e].prospect \in OnBoard /\ pc'[e] = "idle" /\ UNCHANGED <<entries, OnBoard>>
           \/ /\ task[e].prospect \notin OnBoard /\ pc'[e] = "positionThenDerive"
              /\ task'[e].events = {RankEvent(task[e].user, task[e].prospect, "added", None, task[e].rank)}
              /\ OnBoard' = OnBoard \cup {task[e].prospect}
    BY <1>1, <1>3, InsertEntryEffect
  <2>2. task[e].prospect \in Prospects
    BY <1>1, <2>1 DEF EditShape
  <2>3. pc'[e] \in Logging => OneChange(task'[e].events) /\ Events(task'[e].events)
    <3>1. CASE pc'[e] = "idle"
      BY <3>1 DEF Logging
    <3>2. CASE pc'[e] = "positionThenDerive"
      <4> DEFINE ev == RankEvent(task[e].user, task[e].prospect, "added", None, task[e].rank)
      <4>1. task'[e].events = {ev} /\ Events({ev})
        BY <2>1, <3>2, EventsAreEvents
      <4> HIDE DEF ev
      <4> QED BY <4>1, OneEventIsOneChange
    <3> QED BY <2>1, <3>1, <3>2
  <2>4. OnBoard' \subseteq Prospects
    BY <1>1, <2>1, <2>2
  <2> QED BY <1>2, <2>1, <2>3, <2>4
<1>4. ASSUME DeleteEntry(e) PROVE VersionInv'
  <2>1. /\ pc[e] = "delete" /\ Moves(e) /\ UNCHANGED Stamps /\ pc'[e] = "renumber" /\ task'[e].events = task[e].events
        /\ OnBoard' = OnBoard \ {task[e].prospect}
    BY <1>1, <1>4, DeleteEntryEffect
  <2>2. OnBoard' \subseteq Prospects
    BY <1>1, <2>1
  <2>3. OneChange(task'[e].events) /\ Events(task'[e].events)
    BY <1>l, <2>1 DEF Logging
  <2> QED BY <1>2, <2>1, <2>2, <2>3
<1>5. ASSUME Moves(e), UNCHANGED <<Stamps, OnBoard>>, pc[e] \in Logging, task'[e].events = task[e].events,
             pc'[e] \in {"update", "position", "derive", "version"},
             pc'[e] = "update" => task'[e].next \in {"position", "derive", "version"}
      PROVE  VersionInv'
  <2>1. OneChange(task'[e].events) /\ Events(task'[e].events)
    BY <1>l, <1>5
  <2> QED BY <1>1, <1>2, <1>5, <2>1
<1>6. ASSUME Renumber(e) PROVE VersionInv'
  <2>1. Moves(e) /\ UNCHANGED <<rows, OnBoard>> /\ pc[e] = "renumber" /\ task'[e].events = task[e].events
        /\ pc'[e] \in {"update", "position"} /\ task'[e].next = "position"
    BY <1>1, <1>6, RenumberEffect
  <2> QED BY <1>5, <2>1 DEF rows, Stamps, Logging
<1>7. ASSUME Reposition(e) PROVE VersionInv'
  <2>1. Moves(e) /\ UNCHANGED <<rows, OnBoard>> /\ pc[e] \in {"position", "positionThenDerive"}
        /\ task'[e].events = task[e].events /\ pc'[e] \in {"update", "derive", "version"}
        /\ task'[e].next \in {"version", "derive"}
    BY <1>1, <1>7, RepositionEffect
  <2> QED BY <1>5, <2>1 DEF rows, Stamps, Logging
<1>8. ASSUME Derive(e) PROVE VersionInv'
  <2>1. Moves(e) /\ UNCHANGED <<rows, OnBoard>> /\ pc[e] = "derive"
        /\ task'[e].events = task[e].events /\ pc'[e] \in {"update", "version"} /\ task'[e].next = "version"
    BY <1>1, <1>8, DeriveEffect
  <2> QED BY <1>5, <2>1 DEF rows, Stamps, Logging
<1>9. ASSUME WriteStatus(e) PROVE VersionInv'
  <2>1. /\ pc[e] = "status" /\ Moves(e) /\ UNCHANGED <<versions, snapshots, history, OnBoard>>
        /\ board' = [board EXCEPT !.status = task[e].status]
        /\ pc'[e] = "version" /\ task'[e].events = task[e].events
    BY <1>1, <1>9, WriteStatusEffect
  <2>2. task[e].status \in BoardStatuses
    BY <1>1, <2>1 DEF EditShape
  <2>3. board' \in Boards
    BY <1>1, <2>1, <2>2 DEF Boards
  <2>4. EditShape(e)' /\ pc'[e] \notin Stored
    BY <1>l, <2>1 DEF EditShape, Versioned, Stored, Logging, OneChange, Events
  <2> QED BY <1>1, <2>1, <2>3, <2>4, EditKeepsVersions
<1>10. ASSUME Update(e) PROVE VersionInv'
  <2>1. /\ pc[e] = "update" /\ Moves(e) /\ UNCHANGED <<Stamps, OnBoard>>
        /\ task'[e].events = task[e].events /\ pc'[e] \in {"update", task[e].next} /\ task'[e].next = task[e].next
    BY <1>1, <1>10, UpdateEffect
  <2>2. task[e].next \in {"position", "derive", "version"}
    BY <1>1, <2>1 DEF EditShape
  <2> QED BY <1>5, <2>1, <2>2 DEF Logging
<1>11. ASSUME ReadVersion(e) PROVE VersionInv'
  <2>1. /\ pc[e] = "version" /\ Moves(e) /\ UNCHANGED <<rows, OnBoard>>
        /\ pc'[e] = "bump" /\ task'[e].version = board.version + 1 /\ task'[e].events = task[e].events
    BY <1>1, <1>11, ReadVersionEffect
  <2>2. UNCHANGED <<board, versions, snapshots, history>> /\ task'[e].version \in Nat
    BY <1>1, <2>1 DEF rows, Boards
  <2>3. EditShape(e)' /\ pc'[e] \notin Stored
    BY <1>l, <2>1, <2>2 DEF EditShape, Stored, Logging, OneChange, Events
  <2> QED BY <1>1, <2>1, <2>2, <2>3, EditKeepsVersions
<1>12. ASSUME BumpVersion(e) PROVE VersionInv'
  <2>1. /\ pc[e] = "bump" /\ Moves(e) /\ UNCHANGED <<versions, snapshots, history, OnBoard>>
        /\ board' = [board EXCEPT !.version = task[e].version] /\ pc'[e] = "stamp" /\ task'[e] = task[e]
    BY <1>1, <1>12, BumpEffect
  <2>2. task[e].version \in Nat
    BY <1>1, <2>1 DEF EditShape, Versioned
  <2>3. board' \in Boards
    BY <1>1, <2>1, <2>2 DEF Boards
  <2>4. EditShape(e)' /\ pc'[e] \notin Stored
    BY <1>l, <2>1, <2>2 DEF EditShape, Stored, Logging, OneChange, Events
  <2> QED BY <1>1, <2>1, <2>2, <2>3, <2>4, EditKeepsVersions
<1> HIDE <1>2, <1>5
<1>13. \A d \in Editors \ {e} : Moves(e) => pc'[d] = pc[d] /\ task'[d] = task[d]
  BY EditorsRequest DEF Moves
<1>k. ASSUME NEW d \in Editors \ {e}, Moves(e) PROVE EditShape(d)'
  <2>1. EditShape(d) /\ pc'[d] = pc[d] /\ task'[d] = task[d]
    BY <1>13, <1>k DEF VersionInv, ShapeInv
  <2> QED BY <2>1 DEF EditShape, OneChange, Events
<1>14. ASSUME InsertVersion(e) PROVE VersionInv'
  <2> DEFINE v == task[e].version
  <2>1. /\ pc[e] = "stamp" /\ Moves(e) /\ UNCHANGED <<board, snapshots, history, OnBoard>>
        /\ \/ pc'[e] = "idle" /\ versions' = versions
           \/ /\ v \notin versions /\ pc'[e] = "snapshot" /\ task'[e] = task[e] /\ versions' = versions \cup {v}
    BY <1>1, <1>14, InsertVersionEffect
  <2>2. CASE pc'[e] = "idle"
    <3>1. versions' = versions /\ EditShape(e)' /\ pc'[e] \notin Stored
      BY <2>1, <2>2 DEF EditShape, Logging, Versioned, Stored
    <3> QED BY <1>1, <2>1, <2>2, <3>1, EditKeepsVersions
  <2>3. CASE pc'[e] = "snapshot"
    <3>1. v \notin versions /\ task'[e] = task[e] /\ versions' = versions \cup {v} /\ v \in Nat
      BY <1>1, <2>1, <2>3 DEF EditShape, Versioned
    <3>2. ShapeInv'
      <4>1. EditShape(e)'
        BY <1>1, <2>1, <2>3, <3>1 DEF EditShape, Logging, Versioned, OneChange, Events
      <4>2. \A d \in Editors : EditShape(d)'
        BY <1>k, <2>1, <4>1
      <4> QED BY <1>1, <2>1, <3>1, <4>2 DEF ShapeInv, Moves
    <3>3. ASSUME NEW d \in Editors PROVE OwnVersion(d)'
      <4>1. CASE d = e
        <5>1. \A h \in history : h.version # v
          BY <1>1, <3>1 DEF VersionInv, HistoryHasSnapshot, ShapeInv
        <5>2. \A c \in Editors \ {e} : pc'[c] \in Stored => task'[c].version # v
          <6> SUFFICES ASSUME NEW c \in Editors \ {e}, pc'[c] \in Stored PROVE task'[c].version # v
            OBVIOUS
          <6>1. pc[c] \in Stored /\ task'[c] = task[c] /\ OwnVersion(c)
            BY <1>13, <2>1 DEF VersionInv
          <6>2. task[c].version \in versions
            BY <6>1 DEF OwnVersion
          <6> QED BY <3>1, <6>1, <6>2
        <5> QED BY <2>1, <2>3, <3>1, <4>1, <5>1, <5>2 DEF OwnVersion
      <4>2. CASE d # e
        <5>1. pc'[d] = pc[d] /\ task'[d] = task[d] /\ OwnVersion(d)
          BY <1>13, <2>1, <4>2 DEF VersionInv
        <5>2. pc[d] \in Stored => task[d].version # v
          BY <3>1, <5>1 DEF OwnVersion
        <5> QED BY <1>13, <2>1, <3>1, <5>1, <5>2 DEF OwnVersion
      <4> QED BY <4>1, <4>2
    <3>4. HistoryHasSnapshot' /\ OneEditPerVersion'
      BY <2>1 DEF VersionInv, HistoryHasSnapshot, OneEditPerVersion
    <3> QED BY <3>2, <3>3, <3>4 DEF VersionInv
  <2> QED BY <2>1, <2>2, <2>3
<1>15. ASSUME InsertSnapshot(e) PROVE VersionInv'
  <2> DEFINE v == task[e].version
  <2>1. /\ pc[e] = "snapshot" /\ Moves(e) /\ UNCHANGED <<board, versions, history, OnBoard>>
        /\ pc'[e] = "log" /\ task'[e] = task[e] /\ DOMAIN snapshots' = DOMAIN snapshots \cup {v}
    BY <1>1, <1>15, InsertSnapshotEffect
  <2>2. v \in versions
    BY <1>1, <2>1 DEF OwnVersion, Stored
  <2>3. ShapeInv'
    <3>1. EditShape(e)'
      BY <1>1, <2>1 DEF EditShape, Logging, Versioned, OneChange, Events
    <3>2. \A d \in Editors : EditShape(d)'
      BY <1>k, <2>1, <3>1
    <3> QED BY <1>1, <2>1, <2>2, <3>2 DEF ShapeInv, Moves
  <2>4. ASSUME NEW d \in Editors PROVE OwnVersion(d)'
    <3>1. OwnVersion(d)
      BY DEF VersionInv
    <3> QED BY <1>1, <1>13, <2>1, <3>1 DEF OwnVersion, Stored
  <2>5. HistoryHasSnapshot' /\ OneEditPerVersion'
    BY <2>1 DEF VersionInv, HistoryHasSnapshot, OneEditPerVersion
  <2> QED BY <2>3, <2>4, <2>5 DEF VersionInv
<1>16. ASSUME InsertHistory(e) PROVE VersionInv'
  <2> DEFINE v == task[e].version
             S == task[e].events
  <2>1. /\ pc[e] = "log" /\ Moves(e) /\ UNCHANGED <<board, versions, snapshots, OnBoard>> /\ pc'[e] = "idle"
        /\ history' = history \cup {Logged(ev, v) : ev \in S}
    BY <1>1, <1>16, InsertHistoryEffect
  <2>2. /\ v \in versions /\ v \in DOMAIN snapshots /\ \A h \in history : h.version # v
        /\ \A d \in Editors \ {e} : pc[d] \in Stored => task[d].version # v
    BY <1>1, <2>1 DEF OwnVersion, Stored
  <2>3. OneChange(S) /\ \A ev \in S : {"field", "user", "prospect"} \subseteq DOMAIN ev
    BY <1>l, <2>1 DEF Logging, Events
  <2> HIDE DEF v, S
  <2>4. \A ev \in S : /\ Logged(ev, v).version = v /\ Logged(ev, v).field = ev.field
                      /\ Logged(ev, v).user = ev.user /\ Logged(ev, v).prospect = ev.prospect
    BY <2>3, LoggedFields
  <2>5. ShapeInv'
    <3>1. EditShape(e)'
      BY <1>1, <2>1 DEF EditShape, Logging, Versioned, OneChange, Events
    <3>2. \A d \in Editors : EditShape(d)'
      BY <1>k, <2>1, <3>1
    <3> QED BY <1>1, <2>1, <2>2, <3>2 DEF ShapeInv, Moves
  <2>6. ASSUME NEW d \in Editors PROVE OwnVersion(d)'
    <3>1. CASE d = e
      BY <2>1, <3>1 DEF OwnVersion, Stored
    <3>2. CASE d # e
      <4>1. pc'[d] = pc[d] /\ task'[d] = task[d] /\ OwnVersion(d)
        BY <1>13, <2>1, <3>2 DEF VersionInv
      <4>2. \A c \in Editors : pc'[c] \in Stored => pc'[c] = pc[c] /\ task'[c] = task[c]
        BY <1>13, <2>1 DEF Stored
      <4>3. pc[d] \in Stored => \A h \in history' : h.version # task[d].version
        BY <2>1, <2>2, <2>4, <3>2, <4>1 DEF OwnVersion
      <4> QED BY <2>1, <4>1, <4>2, <4>3 DEF OwnVersion
    <3> QED BY <3>1, <3>2
  <2>7. HistoryHasSnapshot'
    BY <2>1, <2>2, <2>4 DEF VersionInv, HistoryHasSnapshot
  <2>8. OneEditPerVersion'
    <3> SUFFICES ASSUME NEW g \in history', NEW h \in history', g.version = h.version, g # h
                 PROVE  OneEdit(g, h)
      BY DEF OneEditPerVersion, OneEdit
    <3>1. CASE g \in history /\ h \in history
      BY <3>1 DEF VersionInv, OneEditPerVersion, OneEdit
    <3>2. CASE g \notin history /\ h \notin history
      <4>1. PICK a \in S, b \in S : g = Logged(a, v) /\ h = Logged(b, v)
        BY <2>1, <3>2
      <4>2. a # b
        BY <4>1
      <4> QED BY <2>3, <2>4, <4>1, <4>2 DEF OneChange, OneEdit
    <3>3. CASE (g \in history) # (h \in history)
      BY <2>1, <2>2, <2>4, <3>3
    <3> QED BY <3>1, <3>2, <3>3
  <2> QED BY <2>5, <2>6, <2>7, <2>8 DEF VersionInv
<1> QED
  BY <1>3, <1>4, <1>6, <1>7, <1>8, <1>9, <1>10, <1>11, <1>12, <1>14, <1>15, <1>16 DEF Continue

-----------------------------------------------------------------------------
(* Scouts, failures and the first board.                                   *)

(* Editors who go on, or are cut short, while the board's versions stay.   *)
LEMMA OthersKeepVersions ==
  ASSUME VersionInv, DOMAIN pc' = Requests, DOMAIN task' = Requests, failures' \in Nat,
         UNCHANGED Stamps, OnBoard' \subseteq Prospects,
         \A e \in Editors : pc'[e] = "idle" \/ (pc'[e] = pc[e] /\ task'[e] = task[e])
  PROVE  VersionInv'
<1>1. UNCHANGED <<board, versions, snapshots, history>>
  BY DEF Stamps
<1>2. ASSUME NEW e \in Editors PROVE EditShape(e)'
  <2>1. EditShape(e)
    BY DEF VersionInv, ShapeInv
  <2> QED BY <2>1 DEF EditShape, OneChange, Events, Logging, Versioned
<1>3. ASSUME NEW e \in Editors PROVE OwnVersion(e)'
  <2>1. \A d \in Editors : pc'[d] \in Stored => pc'[d] = pc[d] /\ task'[d] = task[d]
    BY DEF Stored
  <2>2. OwnVersion(e)
    BY DEF VersionInv
  <2> QED BY <1>1, <2>1, <2>2 DEF OwnVersion
<1>4. ShapeInv'
  BY <1>1, <1>2 DEF VersionInv, ShapeInv, Boards
<1>5. HistoryHasSnapshot' /\ OneEditPerVersion'
  BY <1>1 DEF VersionInv, HistoryHasSnapshot, OneEditPerVersion
<1> QED BY <1>3, <1>4, <1>5 DEF VersionInv

LEMMA RankEffect ==
  ASSUME ShapeInv, NEW q \in Submitters, Rank(q)
  PROVE  Moves(q) /\ UNCHANGED <<Stamps, OnBoard>>
<1>1. DOMAIN pc = Requests /\ DOMAIN task = Requests /\ q \in Requests
  BY EditorsRequest DEF ShapeInv, Requests
<1>2. UNCHANGED <<Stamps, OnBoard>>
  BY DEF Rank, SubmitRanking, StoreRanking, ReadRankings, UpsertConsensus, CacheConsensus, Stamps, rows, OnBoard
<1>3. \E label, data : Goto(q, label, data)
  BY DEF Rank, SubmitRanking, StoreRanking, ReadRankings, UpsertConsensus, CacheConsensus, Finish
<1>4. Moves(q)
  BY <1>1, <1>3, GotoFacts
<1> QED BY <1>2, <1>4

LEMMA FailEffect ==
  ASSUME ShapeInv, NEW r \in Requests, Fail(r)
  PROVE  /\ DOMAIN pc' = Requests /\ DOMAIN task' = Requests
         /\ UNCHANGED <<rows, OnBoard>> /\ failures' = failures + 1 /\ failures' \in Nat
         /\ pc'[r] = "idle" /\ \A d \in Requests \ {r} : pc'[d] = pc[d] /\ task'[d] = task[d]
BY DEF ShapeInv, Fail, rows, OnBoard

LEMMA InitIsVersioned == Init => VersionInv
<1> SUFFICES ASSUME Init PROVE VersionInv
  OBVIOUS
<1> DEFINE n == Len(FirstOrder)
           First(i) == Logged(RankEvent(None, FirstOrder[i], "added", None, i), i + 1)
<1>1. n \in Nat /\ \A i \in 1..n : FirstOrder[i] \in Prospects
  BY ProspectsAssumption
<1>2. OnBoard \subseteq Prospects
  <2>1. OnBoard = Range(SubSeq(FirstOrder, 1, n))
    BY DEF Init, FirstBoard, OnBoard
  <2>2. SubSeq(FirstOrder, 1, n) \in Seq(Prospects)
    BY <1>1, ProspectsAssumption
  <2> QED BY <2>1, <2>2 DEF Range
<1>3. ShapeInv
  <2>1. \A e \in Editors : pc[e] = "idle"
    BY EditorsRequest DEF Init
  <2>2. \A e \in Editors : EditShape(e)
    BY <2>1 DEF EditShape, Logging, Versioned
  <2> QED BY <1>1, <1>2, <2>2 DEF Init, ShapeInv, Boards, BoardStatuses
<1>4. \A e \in Editors : OwnVersion(e)
  BY EditorsRequest DEF Init, OwnVersion, Stored
<1>5. \A i \in 1..n : First(i).version = i + 1
  <2> SUFFICES ASSUME NEW i \in 1..n PROVE First(i).version = i + 1
    OBVIOUS
  <2> DEFINE ev == RankEvent(None, FirstOrder[i], "added", None, i)
  <2>1. {"field", "user", "prospect"} \subseteq DOMAIN ev
    BY DEF RankEvent
  <2> HIDE DEF ev
  <2>2. Logged(ev, i + 1).version = i + 1
    BY <2>1, LoggedFields
  <2> QED BY <2>2 DEF ev
<1>6. history = {First(i) : i \in 1..n}
  BY DEF Init
<1>7. DOMAIN snapshots = 1..(n + 1)
  BY DEF Init
<1> HIDE DEF First, n
<1>8. HistoryHasSnapshot
  BY <1>1, <1>5, <1>6, <1>7 DEF HistoryHasSnapshot
<1>9. OneEditPerVersion
  <2> SUFFICES ASSUME NEW g \in history, NEW h \in history, g.version = h.version PROVE g = h
    BY DEF OneEditPerVersion
  <2>1. PICK i \in 1..n, j \in 1..n : g = First(i) /\ h = First(j)
    BY <1>6
  <2>2. i = j
    BY <1>1, <1>5, <2>1
  <2> QED BY <2>1, <2>2
<1> QED BY <1>3, <1>4, <1>8, <1>9 DEF VersionInv

LEMMA NextKeepsVersions == VersionInv /\ [Next]_vars => VersionInv'
<1> SUFFICES ASSUME VersionInv, [Next]_vars PROVE VersionInv'
  OBVIOUS
<1>1. ShapeInv /\ DOMAIN pc = Requests /\ DOMAIN task = Requests /\ failures \in Nat /\ OnBoard \subseteq Prospects
  BY DEF VersionInv, ShapeInv
<1>2. ASSUME NEW e \in Editors, Continue(e) PROVE VersionInv'
  BY <1>2, ContinueKeepsVersions
<1>3. ASSUME NEW e \in Editors, NEW u \in Users, Edit(e, u) PROVE VersionInv'
  BY <1>3, BeginKeepsVersions
<1>4. ASSUME NEW q \in Submitters, Rank(q) PROVE VersionInv'
  <2>1. Moves(q) /\ UNCHANGED <<Stamps, OnBoard>>
    BY <1>1, <1>4, RankEffect
  <2>2. DOMAIN pc' = Requests /\ DOMAIN task' = Requests /\ failures' = failures
        /\ \A e \in Editors : pc'[e] = pc[e] /\ task'[e] = task[e]
    BY <2>1, EditorsRequest DEF Moves
  <2> QED BY <1>1, <2>1, <2>2, OthersKeepVersions
<1>5. ASSUME NEW r \in Requests, Fail(r) PROVE VersionInv'
  <2>1. /\ DOMAIN pc' = Requests /\ DOMAIN task' = Requests /\ failures' \in Nat
        /\ UNCHANGED <<rows, OnBoard>>
        /\ pc'[r] = "idle" /\ \A d \in Requests \ {r} : pc'[d] = pc[d] /\ task'[d] = task[d]
    BY <1>1, <1>5, FailEffect
  <2>2. \A e \in Editors : pc'[e] = "idle" \/ (pc'[e] = pc[e] /\ task'[e] = task[e])
    BY <2>1, EditorsRequest
  <2>3. UNCHANGED Stamps
    BY <2>1 DEF rows, Stamps
  <2> QED BY <1>1, <2>1, <2>2, <2>3, OthersKeepVersions
<1>6. ASSUME UNCHANGED vars PROVE VersionInv'
  <2>1. UNCHANGED <<Stamps, OnBoard, pc, task, failures>>
    BY <1>6 DEF vars, rows, Stamps, OnBoard
  <2> QED BY <1>1, <2>1, OthersKeepVersions
<1> QED BY <1>2, <1>3, <1>4, <1>5, <1>6 DEF Next

(* However many edit the board, and however their statements fall between  *)
(* each other's or fail: what is logged under a version has its snapshot.  *)
THEOREM HistoryHasItsSnapshot == Spec => []HistoryHasSnapshot
<1>1. VersionInv => HistoryHasSnapshot
  BY DEF VersionInv
<1> QED BY <1>1, InitIsVersioned, NextKeepsVersions, PTL DEF Spec

(* ... and what is logged under one version is one user's one edit: one    *)
(* change, the moves of one reorder, or the fields of one entry's form:    *)
(* two edits that read the same version are not told as one.               *)
THEOREM OneEditIsLogged == Spec => []OneEditPerVersion
<1>1. VersionInv => OneEditPerVersion
  BY DEF VersionInv
<1> QED BY <1>1, InitIsVersioned, NextKeepsVersions, PTL DEF Spec

(* However edits cross and fail, versions are told with their snapshot and *)
(* one edit each.                                                          *)
THEOREM VersionsAreTold == Spec => []VersionsTold
<1> QED BY HistoryHasItsSnapshot, OneEditIsLogged, PTL DEF VersionsTold

-----------------------------------------------------------------------------
(* The rows of the entries.                                                *)

LEMMA ColumnsAre ==
  Columns = {"rank", "position", "model", "fit", "consensus", "director", "round", "floor",
             "recommendation", "note"}
BY DEF Columns, NewEntry

LEMMA NewRow ==
  ASSUME NEW rank
  PROVE  /\ DOMAIN NewEntry(rank) = Columns /\ NewEntry(rank).rank = rank
         /\ \A f \in Columns \ {"rank"} : NewEntry(rank)[f] = None
BY DEF Columns, NewEntry

(* An update sets the columns of its change.                               *)
LEMMA UpdateRows ==
  ASSUME ShapeInv, RowsInv, NEW e \in Editors, Update(e)
  PROVE  \E t \in task[e].todo :
           /\ task'[e].todo = task[e].todo \ {t}
           /\ pc'[e] = IF task[e].todo \ {t} = {} THEN task[e].next ELSE "update"
           /\ \A p \in OnBoard :
                /\ DOMAIN entries'[p] = Columns
                /\ \A f \in Columns : entries'[p][f] = IF p = t.prospect /\ f \in DOMAIN t.change
                                                       THEN t.change[f] ELSE entries[p][f]
<1>1. PICK t \in task[e].todo :
        /\ entries' = IF t.prospect \in OnBoard
                      THEN [entries EXCEPT ![t.prospect] = Changed(entries[t.prospect], t.change)] ELSE entries
        /\ task'[e].todo = task[e].todo \ {t}
        /\ pc'[e] = IF task[e].todo \ {t} = {} THEN task[e].next ELSE "update"
  BY UpdateEffect
<1>2. ASSUME NEW p \in OnBoard
      PROVE  /\ DOMAIN entries'[p] = Columns
             /\ \A f \in Columns : entries'[p][f] = IF p = t.prospect /\ f \in DOMAIN t.change
                                                    THEN t.change[f] ELSE entries[p][f]
  <2>1. DOMAIN entries[p] = Columns
    BY DEF RowsInv
  <2>2. CASE p = t.prospect
    <3>1. entries'[p] = Changed(entries[p], t.change)
      BY <1>1, <2>2 DEF OnBoard
    <3> QED BY <2>1, <2>2, <3>1 DEF Changed
  <2>3. CASE p # t.prospect
    <3>1. entries'[p] = entries[p]
      BY <1>1, <2>3 DEF OnBoard
    <3> QED BY <2>1, <2>3, <3>1
  <2> QED BY <2>2, <2>3
<1> QED BY <1>1, <1>2

(* Scouts move no column but the consensus.                                *)
LEMMA RankRows ==
  ASSUME ShapeInv, RowsInv, NEW q \in Submitters, Rank(q)
  PROVE  \A p \in OnBoard : /\ DOMAIN entries'[p] = Columns
                            /\ \A f \in Columns \ {"consensus"} : entries'[p][f] = entries[p][f]
<1>1. CASE UNCHANGED entries
  BY <1>1 DEF RowsInv
<1>2. CASE CacheConsensus(q)
  <2> DEFINE mean == task[q].row.mean
  <2>1. entries' = IF task[q].prospect \in OnBoard THEN [entries EXCEPT ![task[q].prospect].consensus = mean]
                   ELSE entries
    BY <1>2 DEF CacheConsensus
  <2> HIDE DEF mean
  <2>2. ASSUME NEW p \in OnBoard
        PROVE entries'[p] = entries[p] \/ entries'[p] = [entries[p] EXCEPT !.consensus = mean]
    BY <2>1 DEF OnBoard
  <2> QED BY <2>2 DEF RowsInv
<1> QED BY <1>1, <1>2 DEF Rank, SubmitRanking, StoreRanking, ReadRankings, UpsertConsensus, rows

(* Every other step of an edit leaves the entries that stay as they are.   *)
LEMMA StoredRows ==
  ASSUME ShapeInv, NEW e \in Editors, Continue(e), ~Update(e)
  PROVE  \A p \in OnBoard' : \/ p \in OnBoard /\ entries'[p] = entries[p]
                             \/ pc[e] = "insert" /\ entries'[p] = NewEntry(task[e].rank)
<1>1. CASE InsertEntry(e)
  <2> DEFINE new == NewEntry(task[e].rank)
  <2>1. pc[e] = "insert"
    BY <1>1, InsertEntryEffect
  <2>2. CASE UNCHANGED <<entries, OnBoard>>
    BY <2>2
  <2>3. CASE /\ OnBoard' = OnBoard \cup {task[e].prospect}
             /\ entries' = [q \in OnBoard \cup {task[e].prospect} |-> IF q = task[e].prospect THEN new ELSE entries[q]]
    <3> HIDE DEF new
    <3>1. ASSUME NEW p \in OnBoard'
          PROVE  entries'[p] = new \/ (p \in OnBoard /\ entries'[p] = entries[p])
      BY <2>3
    <3> QED BY <2>1, <3>1 DEF new
  <2> QED BY <1>1, <2>2, <2>3, InsertEntryEffect
<1>2. CASE DeleteEntry(e)
  BY <1>2, DeleteEntryEffect
<1>3. CASE UNCHANGED entries
  BY <1>3 DEF OnBoard
<1> QED
  BY <1>1, <1>2, <1>3
  DEF Continue, Renumber, Reposition, Derive, WriteStatus, ReadVersion, BumpVersion, InsertVersion, InsertSnapshot,
      InsertHistory, rows

(* The changes of each kind of update.                                     *)
LEMMA MovedChanges ==
  ASSUME NEW s, NEW t \in Moved(s)
  PROVE  /\ DOMAIN t.change = {"rank"}
         /\ \E i \in DOMAIN s : t.prospect = s[i] /\ t.change = [c \in {"rank"} |-> i] /\ entries[s[i]].rank # i
<1>1. PICK i \in {j \in DOMAIN s : entries[s[j]]["rank"] # Places(s)[j]} :
        t = Change(i, s[i], [c \in {"rank"} |-> Places(s)[i]])
  BY DEF Moved, Updates
<1>2. t.prospect = s[i] /\ t.change = [c \in {"rank"} |-> i]
  BY <1>1 DEF Change, Places
<1> QED BY <1>1, <1>2 DEF Places

LEMMA PositionChanges ==
  ASSUME NEW s, NEW t \in Positions(s)
  PROVE  /\ DOMAIN t.change = {"position"}
         /\ \E i \in DOMAIN s : t.prospect = s[i] /\ t.change.position = PositionRank(s, i)
<1> DEFINE want == [i \in DOMAIN s |-> PositionRank(s, i)]
<1>1. PICK i \in {j \in DOMAIN s : entries[s[j]]["position"] # want[j]} :
        t = Change(i, s[i], [c \in {"position"} |-> want[i]])
  BY DEF Positions, Updates
<1>2. want[i] = PositionRank(s, i)
  OBVIOUS
<1> HIDE DEF want
<1>3. t.prospect = s[i] /\ t.change = [c \in {"position"} |-> want[i]]
  BY <1>1 DEF Change
<1>4. DOMAIN t.change = {"position"} /\ t.change.position = want[i]
  BY <1>3
<1> QED BY <1>1, <1>2, <1>3, <1>4

LEMMA DerivedChanges ==
  ASSUME NEW s, NEW t \in Derived(s)
  PROVE  /\ DOMAIN t.change = {"model", "fit", "consensus"}
         /\ \E i \in DOMAIN s : /\ t.prospect = s[i]
                                /\ t.change.model = ScoreRank(s, i, RoleScore)
                                /\ t.change.fit = ScoreRank(s, i, FitScore)
<1> DEFINE change(i) == [model |-> ScoreRank(s, i, RoleScore), fit |-> ScoreRank(s, i, FitScore),
                         consensus |-> Mean(consensus[s[i]])]
<1>1. PICK i \in DOMAIN s : t = Change(i, s[i], change(i))
  BY DEF Derived
<1>2. DOMAIN change(i) = {"model", "fit", "consensus"} /\ change(i).model = ScoreRank(s, i, RoleScore)
      /\ change(i).fit = ScoreRank(s, i, FitScore)
  OBVIOUS
<1> HIDE DEF change
<1>3. t.prospect = s[i] /\ t.change = change(i)
  BY <1>1 DEF Change
<1> QED BY <1>2, <1>3

LEMMA StoredChanges ==
  ASSUME NEW p, NEW change
  PROVE  Change(1, p, change).prospect = p /\ Change(1, p, change).change = change
BY DEF Change

-----------------------------------------------------------------------------
(* One edit at a time: what may happen next.                               *)

(* A step of another request, a failure, or none: scouts move no column    *)
(* but the consensus.                                                      *)
Else(e) ==
  /\ UNCHANGED <<Stamps, OnBoard>>
  /\ \A p \in OnBoard : /\ DOMAIN entries'[p] = Columns
                        /\ \A f \in Columns \ {"consensus"} : entries'[p][f] = entries[p][f]
  /\ failures' = failures \/ failures' # 0
  /\ \/ pc'[e] = pc[e] /\ task'[e] = task[e]
     \/ pc'[e] = "idle" /\ failures' # 0

LEMMA ElseSteps ==
  ASSUME NEW e, Editors = {e}, ShapeInv, RowsInv, [Next]_vars, ~Continue(e), \A u \in Users : ~Edit(e, u)
  PROVE  Else(e)
<1>1. ASSUME NEW q \in Submitters, Rank(q) PROVE Else(e)
  <2>1. Moves(q) /\ UNCHANGED <<Stamps, OnBoard>>
    BY <1>1, RankEffect
  <2>2. pc'[e] = pc[e] /\ task'[e] = task[e] /\ failures' = failures
    BY <2>1, EditorsRequest DEF Moves
  <2> QED BY <1>1, <2>1, <2>2, RankRows DEF Else
<1>2. ASSUME UNCHANGED rows PROVE /\ UNCHANGED <<Stamps, OnBoard>>
                                  /\ \A p \in OnBoard : entries'[p] = entries[p] /\ DOMAIN entries[p] = Columns
  BY <1>2 DEF rows, Stamps, OnBoard, RowsInv
<1>3. ASSUME NEW r \in Requests, Fail(r) PROVE Else(e)
  <2>1. /\ UNCHANGED <<rows, OnBoard>> /\ failures' = failures + 1
        /\ pc'[r] = "idle" /\ \A d \in Requests \ {r} : pc'[d] = pc[d] /\ task'[d] = task[d]
    BY <1>3, FailEffect
  <2>2. failures' # 0
    BY <2>1 DEF ShapeInv
  <2>3. \/ pc'[e] = pc[e] /\ task'[e] = task[e]
        \/ pc'[e] = "idle"
    BY <2>1, EditorsRequest
  <2> QED BY <1>2, <2>1, <2>2, <2>3 DEF Else
<1>4. ASSUME UNCHANGED vars PROVE Else(e)
  <2>1. UNCHANGED <<rows, pc, task, failures>>
    BY <1>4 DEF vars
  <2> QED BY <1>2, <2>1 DEF Else
<1> QED BY <1>1, <1>3, <1>4 DEF Next

LEMMA RowsKept ==
  ASSUME NEW e, Editors = {e}, ShapeInv, RowsInv, [Next]_vars
  PROVE  RowsInv'
<1>1. \A p \in OnBoard : DOMAIN entries[p] = Columns
  BY DEF RowsInv
<1>2. ASSUME OnBoard' = OnBoard, UNCHANGED entries,
             pc'[e] = "update" => \A t \in task'[e].todo : DOMAIN t.change \subseteq Columns
      PROVE  RowsInv'
  BY <1>1, <1>2 DEF RowsInv
<1>3. ASSUME NEW u \in Users, Edit(e, u) PROVE RowsInv'
  <2>1. ASSUME NEW p, AddProspect(e, u, p) PROVE RowsInv'
    <3>1. Begins(e) /\ pc'[e] = "insert"
      BY <2>1, AddEffect
    <3> QED BY <1>2, <3>1 DEF Begins, rows
  <2>2. ASSUME NEW p, RemoveProspect(e, u, p) PROVE RowsInv'
    <3>1. Begins(e) /\ pc'[e] = "delete"
      BY <2>2, RemoveEffect
    <3> QED BY <1>2, <3>1 DEF Begins, rows
  <2>3. ASSUME NEW p, NEW change, EditsEntry(e, u, p, change) PROVE RowsInv'
    <3>1. Begins(e) /\ task'[e].todo = {Change(1, p, change)} /\ DOMAIN change \subseteq Told
      BY <2>3, StoreEffect
    <3>2. DOMAIN Change(1, p, change).change \subseteq Columns
      BY <3>1, StoredChanges, ColumnsAre DEF Told, ENTRY_FIELDS
    <3> QED BY <1>2, <3>1, <3>2 DEF Begins, rows
  <2>4. ASSUME NEW s \in [1..Cardinality(OnBoard) -> OnBoard], ReorderBoard(e, u, s) PROVE RowsInv'
    <3>1. Begins(e) /\ task'[e].todo = Moved(s)
      BY <2>4, ReorderEffect
    <3>2. \A t \in Moved(s) : DOMAIN t.change \subseteq Columns
      BY MovedChanges, ColumnsAre
    <3> QED BY <1>2, <3>1, <3>2 DEF Begins, rows
  <2>5. ASSUME NEW status, SetStatus(e, u, status) PROVE RowsInv'
    <3>1. Begins(e) /\ pc'[e] = "status"
      BY <2>5, StatusEffect
    <3> QED BY <1>2, <3>1 DEF Begins, rows
  <2> QED BY <1>3, <2>1, <2>2, <2>3, <2>4, <2>5, EditCases
<1>4. ASSUME Update(e) PROVE RowsInv'
  <2>1. PICK t \in task[e].todo :
           /\ task'[e].todo = task[e].todo \ {t}
           /\ \A p \in OnBoard : DOMAIN entries'[p] = Columns
    BY <1>4, UpdateRows
  <2>2. pc[e] = "update" /\ OnBoard' = OnBoard
    BY <1>4, UpdateEffect
  <2> QED BY <2>1, <2>2 DEF RowsInv
<1>5. ASSUME Continue(e), ~Update(e) PROVE RowsInv'
  <2>1. \A p \in OnBoard' : DOMAIN entries'[p] = Columns
    BY <1>1, <1>5, StoredRows, NewRow
  <2>2. pc'[e] = "update" => \A t \in task'[e].todo : DOMAIN t.change \subseteq Columns
    <3>1. CASE Renumber(e)
      <4>1. PICK s \in Orders(entries) : task'[e].todo = Moved(s)
        BY <3>1, RenumberEffect
      <4>2. \A t \in Moved(s) : DOMAIN t.change \subseteq Columns
        BY MovedChanges, ColumnsAre
      <4> QED BY <4>1, <4>2
    <3>2. CASE Reposition(e)
      BY <3>2, RepositionEffect, PositionChanges, ColumnsAre
    <3>3. CASE Derive(e)
      BY <3>3, DeriveEffect, DerivedChanges, ColumnsAre
    <3>4. CASE ~Renumber(e) /\ ~Reposition(e) /\ ~Derive(e)
      <4>1. pc'[e] # "update"
        BY <1>5, <3>4, InsertEntryEffect, DeleteEntryEffect, WriteStatusEffect, ReadVersionEffect, BumpEffect,
           InsertVersionEffect, InsertSnapshotEffect, InsertHistoryEffect DEF Continue
      <4> QED BY <4>1
    <3> QED BY <3>1, <3>2, <3>3, <3>4
  <2> QED BY <2>1, <2>2 DEF RowsInv
<1>6. ASSUME Else(e) PROVE RowsInv'
  BY <1>6 DEF Else, RowsInv
<1> QED BY <1>3, <1>4, <1>5, <1>6, ElseSteps

LEMMA EditBegins ==
  ASSUME ShapeInv, NEW e \in Editors, NEW u \in Users, Edit(e, u)
  PROVE  Begins(e) /\ pc'[e] \in {"insert", "delete", "update", "status"}
BY EditCases, AddEffect, RemoveEffect, StoreEffect, ReorderEffect, StatusEffect

(* The steps of an edit before it reads the version.                       *)
Writing == {"insert", "delete", "renumber", "update", "position", "positionThenDerive", "derive", "status"}

LEMMA WritingSteps ==
  ASSUME ShapeInv, NEW e \in Editors, Continue(e), pc[e] \in Writing
  PROVE  /\ Moves(e) /\ UNCHANGED <<versions, snapshots, history>>
         /\ board'.version = board.version /\ (pc[e] # "status" => UNCHANGED board)
         /\ pc'[e] \in {"renumber", "update", "position", "positionThenDerive", "derive", "version"}
              \/ (pc[e] = "insert" /\ task[e].prospect \in OnBoard /\ pc'[e] = "idle")
         /\ pc[e] # "insert" => task'[e].events = task[e].events
<1>1. CASE InsertEntry(e)
  BY <1>1, InsertEntryEffect DEF Stamps
<1>2. CASE DeleteEntry(e)
  BY <1>2, DeleteEntryEffect DEF Stamps
<1>3. CASE Renumber(e)
  BY <1>3, RenumberEffect DEF rows
<1>4. CASE Update(e)
  <2>1. task[e].next \in {"position", "derive", "version"}
    BY <1>4, UpdateEffect DEF ShapeInv, EditShape
  <2> QED BY <1>4, <2>1, UpdateEffect DEF Stamps
<1>5. CASE Reposition(e)
  BY <1>5, RepositionEffect DEF rows
<1>6. CASE Derive(e)
  BY <1>6, DeriveEffect DEF rows
<1>7. CASE WriteStatus(e)
  <2>1. board' = [board EXCEPT !.status = task[e].status] /\ board \in Boards
    BY <1>7, WriteStatusEffect DEF ShapeInv
  <2>2. board'.version = board.version
    BY <2>1 DEF Boards
  <2> QED BY <1>7, <2>2, WriteStatusEffect
<1> QED
  BY <1>1, <1>2, <1>3, <1>4, <1>5, <1>6, <1>7
  DEF Continue, Writing, ReadVersion, BumpVersion, InsertVersion, InsertSnapshot, InsertHistory

(* The steps of commitBoardVersion.                                        *)
LEMMA CommitSteps ==
  ASSUME ShapeInv, NEW e \in Editors, Continue(e), pc[e] \notin Writing
  PROVE  \/ ReadVersion(e) \/ BumpVersion(e) \/ InsertVersion(e) \/ InsertSnapshot(e) \/ InsertHistory(e)
<1>1. DeleteEntry(e) => pc[e] = "delete"
  BY DEF DeleteEntry
<1> QED BY <1>1 DEF Continue, Writing, InsertEntry, Renumber, Update, Reposition, Derive, WriteStatus

-----------------------------------------------------------------------------
(* The versions of one edit at a time.                                     *)

LEMMA FreeKept ==
  ASSUME NEW e, Editors = {e}, ShapeInv, RowsInv, FreeInv(e), [Next]_vars
  PROVE  FreeInv(e)'
<1>1. board \in Boards /\ versions \subseteq Nat /\ EditShape(e)
  BY DEF ShapeInv
<1>2. ASSUME board'.version = board.version, versions' = versions, pc'[e] \notin Versioned
      PROVE  FreeInv(e)'
  BY <1>2 DEF FreeInv, NextVersionFree, Versioned
<1>3. ASSUME NEW u \in Users, Edit(e, u) PROVE FreeInv(e)'
  <2>1. UNCHANGED <<board, versions>> /\ pc'[e] \notin Versioned
    BY <1>3, EditBegins DEF Begins, rows, Versioned
  <2> QED BY <1>2, <2>1
<1>4. ASSUME Continue(e), pc[e] \in Writing PROVE FreeInv(e)'
  <2>1. board'.version = board.version /\ versions' = versions /\ pc'[e] \notin Versioned
    BY <1>4, WritingSteps DEF Versioned
  <2> QED BY <1>2, <2>1
<1>5. ASSUME ReadVersion(e) PROVE FreeInv(e)'
  <2>1. UNCHANGED <<board, versions>> /\ pc'[e] = "bump" /\ task'[e].version = board.version + 1
    BY <1>5, ReadVersionEffect DEF rows
  <2> QED BY <2>1 DEF FreeInv, NextVersionFree
<1>6. ASSUME BumpVersion(e) PROVE FreeInv(e)'
  <2>1. /\ pc[e] = "bump" /\ UNCHANGED versions /\ pc'[e] = "stamp" /\ task'[e] = task[e]
        /\ board' = [board EXCEPT !.version = task[e].version]
    BY <1>6, BumpEffect
  <2>2. board'.version = board.version + 1 /\ task[e].version = board.version + 1 /\ board.version \in Nat
    BY <1>1, <2>1 DEF FreeInv, Boards
  <2>3. \A v \in versions : v <= board.version
    BY DEF FreeInv, NextVersionFree
  <2>4. (\A v \in versions : v <= board.version + 1) /\ board.version + 1 \notin versions
    BY <1>1, <2>2, <2>3
  <2> QED BY <2>1, <2>2, <2>4 DEF FreeInv, NextVersionFree
<1>7. ASSUME InsertVersion(e) PROVE FreeInv(e)'
  <2>1. /\ pc[e] = "stamp" /\ UNCHANGED board
        /\ \/ pc'[e] = "idle" /\ versions' = versions
           \/ pc'[e] = "snapshot" /\ task'[e] = task[e] /\ versions' = versions \cup {task[e].version}
    BY <1>7, InsertVersionEffect
  <2>2. task[e].version = board.version /\ board.version \in Nat
    BY <1>1, <2>1 DEF FreeInv, Boards
  <2> QED BY <2>1, <2>2 DEF FreeInv, NextVersionFree
<1>8. ASSUME InsertSnapshot(e) PROVE FreeInv(e)'
  <2>1. pc[e] = "snapshot" /\ UNCHANGED <<board, versions>> /\ pc'[e] = "log" /\ task'[e] = task[e]
    BY <1>8, InsertSnapshotEffect
  <2> QED BY <2>1 DEF FreeInv, NextVersionFree
<1>9. ASSUME InsertHistory(e) PROVE FreeInv(e)'
  <2>1. UNCHANGED <<board, versions>> /\ pc'[e] \notin Versioned
    BY <1>9, InsertHistoryEffect DEF Versioned
  <2> QED BY <1>2, <2>1
<1>10. ASSUME Else(e) PROVE FreeInv(e)'
  <2>1. UNCHANGED <<board, versions>>
    BY <1>10 DEF Else, Stamps
  <2>2. CASE pc'[e] = pc[e] /\ task'[e] = task[e]
    BY <2>1, <2>2 DEF FreeInv, NextVersionFree
  <2>3. CASE pc'[e] = "idle"
    BY <1>2, <2>1, <2>3 DEF Versioned
  <2> QED BY <1>10, <2>2, <2>3 DEF Else
<1> QED BY <1>3, <1>4, <1>5, <1>6, <1>7, <1>8, <1>9, <1>10, CommitSteps, ElseSteps

(* ... so that the unique index refuses none.                              *)
LEMMA NoneRefused ==
  ASSUME ShapeInv, NEW e \in Editors, FreeInv(e), InsertVersion(e)
  PROVE  /\ pc[e] = "stamp" /\ Moves(e) /\ UNCHANGED <<board, entries, snapshots, history, OnBoard>>
         /\ pc'[e] = "snapshot" /\ task'[e] = task[e] /\ versions' = versions \cup {task[e].version}
BY InsertVersionEffect DEF FreeInv

-----------------------------------------------------------------------------
(* The order of the board.                                                 *)

(* If ranks and positions stay, so does what is said of them.              *)
LEMMA OrderStays ==
  ASSUME IsFiniteSet(OnBoard), OnBoard' = OnBoard,
         \A p \in OnBoard : entries'[p].rank = entries[p].rank /\ entries'[p].position = entries[p].position
  PROVE  /\ Ordered => Ordered'
         /\ Numbered => Numbered'
         /\ \A s \in Enumerations(OnBoard) : RankedBy(s) => RankedBy(s)'
         /\ \A todo : \A s \in Enumerations(OnBoard) : Ranking(s, todo) => Ranking(s, todo)'
         /\ \A todo : \A s \in Enumerations(OnBoard) : Positioning(s, todo) => Positioning(s, todo)'
<1>1. ASSUME NEW s \in Enumerations(OnBoard)
      PROVE  \A i \in DOMAIN s : entries'[s[i]].rank = entries[s[i]].rank
                                   /\ entries'[s[i]].position = entries[s[i]].position
  <2>1. \A i \in DOMAIN s : s[i] \in OnBoard
    BY EnumerationFacts
  <2> QED BY <2>1
<1>2. ASSUME NEW s \in Enumerations(OnBoard)
      PROVE  (RankedBy(s) => RankedBy(s)') /\ (PositionedBy(s) => PositionedBy(s)')
  BY <1>1 DEF RankedBy, PositionedBy
<1>3. Numbered => Numbered'
  <2> SUFFICES ASSUME Numbered PROVE Numbered'
    OBVIOUS
  <2>1. PICK s \in Enumerations(OnBoard) : RankedBy(s)
    BY DEF Numbered
  <2>2. s \in Enumerations(OnBoard') /\ RankedBy(s)'
    BY <1>2, <2>1
  <2> QED BY <2>2 DEF Numbered
<1>4. Ordered => Ordered'
  <2> SUFFICES ASSUME Ordered PROVE Ordered'
    OBVIOUS
  <2>1. PICK s \in Enumerations(OnBoard) : RankedBy(s) /\ PositionedBy(s)
    BY DEF Ordered
  <2>2. s \in Enumerations(OnBoard') /\ RankedBy(s)' /\ PositionedBy(s)'
    BY <1>2, <2>1
  <2> QED BY <2>2 DEF Ordered
<1>5. ASSUME NEW s \in Enumerations(OnBoard), NEW todo
      PROVE  (Ranking(s, todo) => Ranking(s, todo)') /\ (Positioning(s, todo) => Positioning(s, todo)')
  BY <1>1 DEF Ranking, Positioning
<1> QED BY <1>2, <1>3, <1>4, <1>5

LEMMA Renumbering ==
  ASSUME NEW s \in Enumerations(OnBoard)
  PROVE  Ranking(s, Moved(s)) /\ (Moved(s) = {} => RankedBy(s))
<1>1. ASSUME NEW i \in DOMAIN s, entries[s[i]].rank # i
      PROVE  \E t \in Moved(s) : t.prospect = s[i]
  <2> DEFINE t == Change(i, s[i], [c \in {"rank"} |-> Places(s)[i]])
  <2>1. t \in Moved(s)
    BY <1>1 DEF Moved, Updates, Places
  <2>2. t.prospect = s[i]
    BY DEF Change
  <2> QED BY <2>1, <2>2
<1>2. \A t \in Moved(s) : \E i \in DOMAIN s : t.prospect = s[i] /\ t.change = [c \in {"rank"} |-> i]
  BY MovedChanges
<1> QED BY <1>1, <1>2 DEF Ranking, RankedBy

LEMMA Positionings ==
  ASSUME NEW s \in Enumerations(OnBoard)
  PROVE  Positioning(s, Positions(s)) /\ (Positions(s) = {} => PositionedBy(s))
<1>1. ASSUME NEW i \in DOMAIN s, entries[s[i]].position # PositionRank(s, i)
      PROVE  \E t \in Positions(s) : t.prospect = s[i]
  <2> DEFINE want == [j \in DOMAIN s |-> PositionRank(s, j)]
             t == Change(i, s[i], [c \in {"position"} |-> want[i]])
  <2>1. t \in Positions(s)
    <3>1. i \in {j \in DOMAIN s : entries[s[j]]["position"] # want[j]}
      BY <1>1
    <3> QED BY <3>1 DEF Positions, Updates
  <2>2. t.prospect = s[i]
    BY DEF Change
  <2> QED BY <2>1, <2>2
<1>2. ASSUME NEW t \in Positions(s)
      PROVE  /\ "rank" \notin DOMAIN t.change /\ "position" \in DOMAIN t.change
             /\ \E i \in DOMAIN s : t.prospect = s[i] /\ t.change.position = PositionRank(s, i)
  BY PositionChanges
<1> QED BY <1>1, <1>2 DEF Positioning, PositionedBy

(* Updates that set neither ranks nor positions.                           *)
LEMMA OtherColumns ==
  ASSUME NEW s, PositionedBy(s), NEW todo, \A t \in todo : {"rank", "position"} \cap DOMAIN t.change = {}
  PROVE  Positioning(s, todo)
BY DEF Positioning, PositionedBy

LEMMA UpdateOrder ==
  ASSUME IsFiniteSet(OnBoard), OnBoard' = OnBoard, NEW s \in Enumerations(OnBoard), NEW todo, NEW t \in todo,
         \A p \in OnBoard : \A f \in Columns :
           entries'[p][f] = IF p = t.prospect /\ f \in DOMAIN t.change THEN t.change[f] ELSE entries[p][f]
  PROVE  /\ Ranking(s, todo) => Ranking(s, todo \ {t})'
         /\ RankedBy(s) /\ Positioning(s, todo) => RankedBy(s)' /\ Positioning(s, todo \ {t})'
         /\ Ranking(s, todo) /\ todo \ {t} = {} => RankedBy(s)'
         /\ Positioning(s, todo) /\ todo \ {t} = {} => PositionedBy(s)'
<1>1. \A i \in DOMAIN s : s[i] \in OnBoard
  BY EnumerationFacts
<1>2. \A i, j \in DOMAIN s : s[i] = s[j] => i = j
  BY EnumerationFacts
<1>3. "rank" \in Columns /\ "position" \in Columns
  BY ColumnsAre
<1>4. \A i \in DOMAIN s : \A f \in {"rank", "position"} :
        entries'[s[i]][f] = IF s[i] = t.prospect /\ f \in DOMAIN t.change THEN t.change[f] ELSE entries[s[i]][f]
  BY <1>1, <1>3
<1>5. ASSUME Ranking(s, todo) PROVE Ranking(s, todo \ {t})'
  <2>1. ASSUME NEW i \in DOMAIN s
        PROVE  entries'[s[i]].rank = i \/ \E x \in todo \ {t} : x.prospect = s[i]
    <3>1. CASE t.prospect = s[i]
      <4>1. t.change = [c \in {"rank"} |-> i]
        <5>1. PICK j \in DOMAIN s : t.prospect = s[j] /\ t.change = [c \in {"rank"} |-> j]
          BY <1>5 DEF Ranking
        <5>2. i = j
          BY <1>2, <3>1, <5>1
        <5> QED BY <5>1, <5>2
      <4>2. "rank" \in DOMAIN t.change /\ t.change.rank = i
        BY <4>1
      <4> QED BY <1>4, <3>1, <4>2
    <3>2. CASE t.prospect # s[i]
      <4>1. entries'[s[i]].rank = entries[s[i]].rank
        BY <1>4, <3>2
      <4> QED BY <1>5, <3>2, <4>1 DEF Ranking
    <3> QED BY <3>1, <3>2
  <2>2. \A x \in todo \ {t} : \E i \in DOMAIN s : x.prospect = s[i] /\ x.change = [c \in {"rank"} |-> i]
    BY <1>5 DEF Ranking
  <2> QED BY <2>1, <2>2 DEF Ranking
<1>6. ASSUME Positioning(s, todo) PROVE Positioning(s, todo \ {t})'
  <2>1. ASSUME NEW i \in DOMAIN s
        PROVE  \/ entries'[s[i]].position = PositionRank(s, i)
               \/ \E x \in todo \ {t} : x.prospect = s[i] /\ "position" \in DOMAIN x.change
    <3>1. CASE t.prospect = s[i] /\ "position" \in DOMAIN t.change
      <4>1. PICK j \in DOMAIN s : t.prospect = s[j] /\ t.change.position = PositionRank(s, j)
        BY <1>6, <3>1 DEF Positioning
      <4>2. i = j
        BY <1>2, <3>1, <4>1
      <4> QED BY <1>4, <3>1, <4>1, <4>2
    <3>2. CASE ~(t.prospect = s[i] /\ "position" \in DOMAIN t.change)
      <4>1. entries'[s[i]].position = entries[s[i]].position
        BY <1>4, <3>2
      <4> QED BY <1>6, <3>2, <4>1 DEF Positioning
    <3> QED BY <3>1, <3>2
  <2> QED BY <1>6, <2>1 DEF Positioning
<1>7. ASSUME RankedBy(s), Positioning(s, todo) PROVE RankedBy(s)'
  <2>1. "rank" \notin DOMAIN t.change
    BY <1>7 DEF Positioning
  <2> QED BY <1>4, <1>7, <2>1 DEF RankedBy
<1>8. Ranking(s, {})' => RankedBy(s)'
  BY DEF Ranking, RankedBy
<1>9. Positioning(s, {})' => PositionedBy(s)'
  BY DEF Positioning, PositionedBy
<1> QED BY <1>5, <1>6, <1>7, <1>8, <1>9

LEMMA InsertOrder ==
  ASSUME IsFiniteSet(OnBoard), Ordered, NEW p, p \notin OnBoard,
         OnBoard' = OnBoard \cup {p},
         \A q \in OnBoard : entries'[q] = entries[q],
         entries'[p].rank = Cardinality(OnBoard) + 1
  PROVE  Numbered'
<1>1. PICK s \in Enumerations(OnBoard) : RankedBy(s)
  BY DEF Ordered
<1>k. PICK n : n = Cardinality(OnBoard)
  OBVIOUS
<1>l. PICK t : t = [i \in 1..(n + 1) |-> IF i = n + 1 THEN p ELSE s[i]]
  OBVIOUS
<1>2. n \in Nat /\ DOMAIN s = 1..n /\ (\A i \in 1..n : s[i] \in OnBoard)
      /\ \A i, j \in 1..n : s[i] = s[j] => i = j
  BY <1>k, EnumerationFacts
<1>3. Cardinality(OnBoard') = n + 1
  BY <1>k, FS_AddElement
<1>4. t \in [1..(n + 1) -> OnBoard'] /\ DOMAIN t = 1..(n + 1)
  BY <1>2, <1>l
<1>5. ASSUME NEW i \in 1..(n + 1), NEW j \in 1..(n + 1), t[i] = t[j] PROVE i = j
  <2>1. (i = n + 1) \/ (i \in 1..n /\ t[i] = s[i])
    BY <1>2, <1>l
  <2>2. (j = n + 1) \/ (j \in 1..n /\ t[j] = s[j])
    BY <1>2, <1>l
  <2>3. t[n + 1] = p
    BY <1>2, <1>l
  <2> QED BY <1>2, <1>5, <2>1, <2>2, <2>3
<1>6. \A i \in 1..(n + 1) : entries'[t[i]].rank = i
  <2> SUFFICES ASSUME NEW i \in 1..(n + 1) PROVE entries'[t[i]].rank = i
    OBVIOUS
  <2>1. CASE i = n + 1
    BY <1>k, <1>l, <2>1
  <2>2. CASE i \in 1..n
    <3>1. t[i] = s[i] /\ s[i] \in OnBoard /\ entries[s[i]].rank = i
      BY <1>1, <1>2, <1>l, <2>2 DEF RankedBy
    <3> QED BY <3>1
  <2> QED BY <1>2, <2>1, <2>2
<1>7. t \in Enumerations(OnBoard')
  <2>1. IsInjective(t)
    BY <1>4, <1>5 DEF IsInjective
  <2> QED BY <1>3, <1>4, <2>1 DEF Enumerations
<1>8. RankedBy(t)'
  BY <1>4, <1>6 DEF RankedBy
<1> QED BY <1>7, <1>8 DEF Numbered

LEMMA BeginKeepsOrder ==
  ASSUME NEW e, Editors = {e}, ShapeInv, OrderInv(e), NEW u \in Users, Edit(e, u)
  PROVE  OrderInv(e)'
<1>1. /\ Begins(e) /\ pc[e] = "idle" /\ OnBoard' = OnBoard /\ entries' = entries /\ failures' = failures
      /\ IsFiniteSet(OnBoard)
  BY EditBegins, BoardIsFinite DEF Begins, Moves, rows
<1>2. failures = 0 => Ordered
  BY <1>1 DEF OrderInv
<1>3. failures = 0 => Ordered'
  BY <1>1, <1>2, OrderStays
<1>4. ASSUME NEW p, AddProspect(e, u, p) PROVE OrderInv(e)'
  <2>1. pc'[e] = "insert" /\ p \notin OnBoard
        /\ task'[e] = [user |-> u, prospect |-> p, rank |-> Cardinality(OnBoard) + 1]
    BY <1>4, AddEffect
  <2>2. task'[e].prospect = p /\ task'[e].rank = Cardinality(OnBoard) + 1
    BY <2>1
  <2> QED BY <1>1, <1>3, <2>1, <2>2 DEF OrderInv, Logging
<1>5. ASSUME NEW ev, task'[e].events = {ev}, ev.field # "rank" PROVE ~Reorders(e)'
  BY <1>5 DEF Reorders
<1>6. ASSUME NEW p, RemoveProspect(e, u, p) PROVE OrderInv(e)'
  <2> DEFINE ev == RankEvent(u, p, "removed", entries[p].rank, None)
  <2>1. pc'[e] = "delete" /\ task'[e] = [prospect |-> p, events |-> {ev}]
    BY <1>6, RemoveEffect
  <2>2. ev.field # "rank"
    BY EventFields
  <2> HIDE DEF ev
  <2>3. ~Reorders(e)'
    BY <1>5, <2>1, <2>2
  <2> QED BY <2>1, <2>3 DEF OrderInv, OrderSoFar
<1>7. ASSUME NEW p, NEW change, EditsEntry(e, u, p, change) PROVE OrderInv(e)'
  <2> DEFINE t == Change(1, p, change)
             S == EntryEvents(u, p, change)
  <2>1. /\ pc'[e] = "update" /\ task'[e].todo = {t} /\ task'[e].next = "version" /\ task'[e].events = S
        /\ DOMAIN change \subseteq Told
    BY <1>7, StoreEffect
  <2>2. (\A ev \in S : ev.field # "rank") /\ {"rank", "position"} \cap DOMAIN t.change = {}
    BY <2>1, EntryFields, StoredChanges DEF EntryEvents, Told, ENTRY_FIELDS
  <2> HIDE DEF S, t
  <2>3. ~Reorders(e)'
    BY <2>1, <2>2 DEF Reorders
  <2>4. ASSUME failures = 0 PROVE OrderSoFar(e)'
    <3>1. PICK s \in Enumerations(OnBoard) : RankedBy(s) /\ PositionedBy(s)
      BY <1>2, <2>4 DEF Ordered
    <3>2. Positioning(s, task'[e].todo)
      BY <2>1, <2>2, <3>1, OtherColumns
    <3>3. RankedBy(s)' /\ Positioning(s, task[e].todo)'
      BY <1>1, <3>1, <3>2 DEF RankedBy, Positioning
    <3> QED BY <1>1, <2>1, <3>1, <3>3 DEF OrderSoFar
  <2> QED BY <1>1, <2>1, <2>3, <2>4 DEF OrderInv
<1>8. ASSUME NEW s \in [1..Cardinality(OnBoard) -> OnBoard], ReorderBoard(e, u, s) PROVE OrderInv(e)'
  <2>1. /\ pc'[e] = "update" /\ s \in Enumerations(OnBoard) /\ task'[e].todo = Moved(s) /\ task'[e].next = "position"
    BY <1>8, ReorderEffect
  <2>2. Ranking(s, task'[e].todo)
    BY <2>1, Renumbering
  <2>3. Ranking(s, task[e].todo)'
    BY <1>1, <2>2 DEF Ranking
  <2>4. OrderSoFar(e)'
    BY <1>1, <2>1, <2>3 DEF OrderSoFar
  <2> QED BY <2>1, <2>4 DEF OrderInv
<1>9. ASSUME NEW status, SetStatus(e, u, status) PROVE OrderInv(e)'
  <2> DEFINE ev == ValueEvent(u, None, "status", board.status, status)
  <2>1. pc'[e] = "status" /\ task'[e] = [status |-> status, events |-> {ev}]
    BY <1>9, StatusEffect
  <2>2. ev.field # "rank"
    BY EventFields
  <2> HIDE DEF ev
  <2>3. ~Reorders(e)'
    BY <1>5, <2>1, <2>2
  <2> QED BY <1>1, <1>3, <2>1, <2>3 DEF OrderInv, OrderSoFar
<1> QED BY <1>4, <1>6, <1>7, <1>8, <1>9, EditCases

LEMMA RankingAsIs ==
  ASSUME NEW s, NEW e, NEW todo, todo = task'[e].todo
  PROVE  /\ Ranking(s, todo)' => Ranking(s, task[e].todo)'
         /\ Positioning(s, todo)' => Positioning(s, task[e].todo)'
BY DEF Ranking, Positioning

LEMMA ContinueKeepsOrder ==
  ASSUME NEW e, Editors = {e}, ShapeInv, RowsInv, FreeInv(e), OrderInv(e), Continue(e)
  PROVE  OrderInv(e)'
<1>1. IsFiniteSet(OnBoard) /\ EditShape(e)
  BY BoardIsFinite DEF ShapeInv
<1>2. ASSUME OnBoard' = OnBoard, UNCHANGED entries
      PROVE  /\ Ordered => Ordered'
             /\ Numbered => Numbered'
             /\ \A s \in Enumerations(OnBoard) : RankedBy(s) => RankedBy(s)'
             /\ \A todo : \A s \in Enumerations(OnBoard) : Ranking(s, todo) => Ranking(s, todo)'
             /\ \A todo : \A s \in Enumerations(OnBoard) : Positioning(s, todo) => Positioning(s, todo)'
  BY <1>1, <1>2, OrderStays
<1>3. ASSUME task'[e].events = task[e].events PROVE Reorders(e)' <=> Reorders(e)
  BY <1>3 DEF Reorders
<1>4. CASE InsertEntry(e)
  <2> DEFINE ev == RankEvent(task[e].user, task[e].prospect, "added", None, task[e].rank)
  <2>1. pc[e] = "insert" /\ failures' = failures
    BY <1>4, InsertEntryEffect DEF Moves
  <2>2. CASE task[e].prospect \in OnBoard /\ pc'[e] = "idle"
    <3>1. failures' # 0
      BY <2>1, <2>2 DEF OrderInv
    <3> QED BY <2>2, <3>1 DEF OrderInv, Logging
  <2>3. CASE /\ task[e].prospect \notin OnBoard /\ pc'[e] = "positionThenDerive" /\ task'[e].events = {ev}
             /\ OnBoard' = OnBoard \cup {task[e].prospect}
             /\ entries' = [q \in OnBoard \cup {task[e].prospect} |->
                              IF q = task[e].prospect THEN NewEntry(task[e].rank) ELSE entries[q]]
    <3>1. ev.field # "rank"
      BY EventFields
    <3>2. ~Reorders(e)'
      <4> HIDE DEF ev
      <4> QED BY <2>3, <3>1 DEF Reorders
    <3>3. ASSUME failures' = 0 PROVE Numbered'
      <4>1. Ordered /\ task[e].rank = Cardinality(OnBoard) + 1
        BY <2>1, <3>3 DEF OrderInv
      <4>2. /\ \A q \in OnBoard : entries'[q] = entries[q]
            /\ entries'[task[e].prospect].rank = Cardinality(OnBoard) + 1
        BY <2>3, <4>1, NewRow
      <4>3. PICK p : p = task[e].prospect
        OBVIOUS
      <4> QED BY <1>1, <2>3, <4>1, <4>2, <4>3, InsertOrder
    <3> QED BY <2>3, <3>2, <3>3 DEF OrderInv, OrderSoFar
  <2> QED BY <1>4, <2>2, <2>3, InsertEntryEffect
<1>5. CASE DeleteEntry(e)
  <2>1. pc[e] = "delete" /\ pc'[e] = "renumber" /\ task'[e].events = task[e].events
    BY <1>5, DeleteEntryEffect
  <2>2. ~Reorders(e)
    BY <2>1 DEF OrderInv, Logging, Versioned
  <2> QED BY <1>3, <2>1, <2>2 DEF OrderInv, OrderSoFar
<1>6. CASE Renumber(e)
  <2>1. PICK s \in Orders(entries) :
          task'[e].todo = Moved(s) /\ pc'[e] = IF Moved(s) = {} THEN "position" ELSE "update"
    BY <1>6, RenumberEffect
  <2>2. pc[e] = "renumber" /\ task'[e].events = task[e].events /\ task'[e].next = "position"
        /\ OnBoard' = OnBoard /\ entries' = entries
    BY <1>6, RenumberEffect DEF rows
  <2>3. ~Reorders(e)
    BY <2>2 DEF OrderInv, Logging, Versioned
  <2>4. s \in Enumerations(OnBoard) /\ Ranking(s, Moved(s)) /\ (Moved(s) = {} => RankedBy(s))
    BY OrderIsEnumeration, Renumbering
  <2>5. Ranking(s, task[e].todo)' /\ (Moved(s) = {} => RankedBy(s)')
    <3>1. PICK todo : todo = Moved(s)
      OBVIOUS
    <3>2. Ranking(s, todo)' /\ (todo = {} => RankedBy(s)')
      BY <1>2, <2>2, <2>4, <3>1
    <3> QED BY <2>1, <3>1, <3>2, RankingAsIs
  <2>6. OrderSoFar(e)'
    BY <2>1, <2>2, <2>4, <2>5 DEF OrderSoFar, Numbered
  <2> QED BY <1>3, <2>1, <2>2, <2>3, <2>6 DEF OrderInv
<1>7. CASE Update(e)
  <2>1. PICK t \in task[e].todo :
           /\ task'[e].todo = task[e].todo \ {t}
           /\ pc'[e] = IF task[e].todo \ {t} = {} THEN task[e].next ELSE "update"
           /\ \A p \in OnBoard : \A f \in Columns :
                entries'[p][f] = IF p = t.prospect /\ f \in DOMAIN t.change THEN t.change[f] ELSE entries[p][f]
    BY <1>7, UpdateRows
  <2>2. /\ pc[e] = "update" /\ OnBoard' = OnBoard /\ task'[e].events = task[e].events /\ task'[e].next = task[e].next
        /\ failures' = failures /\ task[e].next \in {"position", "derive", "version"}
    BY <1>1, <1>7, UpdateEffect DEF Moves, EditShape
  <2>4. PICK todo, left : todo = task[e].todo /\ left = task[e].todo \ {t}
    OBVIOUS
  <2>3. ASSUME failures = 0 \/ Reorders(e) PROVE OrderSoFar(e)'
    <3>1. OrderSoFar(e)
      BY <2>2, <2>3 DEF OrderInv, Logging
    <3>2. CASE task[e].next = "position"
      <4>1. PICK s \in Enumerations(OnBoard) : Ranking(s, task[e].todo)
        BY <2>2, <3>1, <3>2 DEF OrderSoFar
      <4>2. Ranking(s, left)' /\ (left = {} => RankedBy(s)')
        BY <1>1, <2>1, <2>2, <2>4, <4>1, UpdateOrder
      <4>3. Ranking(s, task[e].todo)'
        BY <2>1, <2>4, <4>2, RankingAsIs
      <4> QED BY <2>1, <2>2, <2>4, <3>2, <4>1, <4>2, <4>3 DEF OrderSoFar, Numbered
    <3>3. CASE task[e].next # "position"
      <4>1. PICK s \in Enumerations(OnBoard) : RankedBy(s) /\ Positioning(s, task[e].todo)
        BY <2>2, <3>1, <3>3 DEF OrderSoFar
      <4>2. RankedBy(s)' /\ Positioning(s, left)' /\ (left = {} => PositionedBy(s)')
        BY <1>1, <2>1, <2>2, <2>4, <4>1, UpdateOrder
      <4>3. Positioning(s, task[e].todo)'
        BY <2>1, <2>4, <4>2, RankingAsIs
      <4> QED BY <2>1, <2>2, <2>4, <3>3, <4>1, <4>2, <4>3 DEF OrderSoFar, Ordered
    <3> QED BY <3>2, <3>3
  <2>5. Reorders(e) => task[e].next \in {"position", "version"}
    BY <2>2 DEF OrderInv, Logging
  <2> QED BY <1>3, <2>1, <2>2, <2>3, <2>5 DEF OrderInv, Logging, Versioned
<1>8. CASE Reposition(e)
  <2>1. PICK s \in Orders(entries) :
          task'[e].todo = Positions(s) /\ pc'[e] = IF Positions(s) = {} THEN task'[e].next ELSE "update"
    BY <1>8, RepositionEffect
  <2>2. /\ pc[e] \in {"position", "positionThenDerive"} /\ task'[e].events = task[e].events
        /\ task'[e].next = IF pc[e] = "position" THEN "version" ELSE "derive"
        /\ OnBoard' = OnBoard /\ entries' = entries /\ failures' = failures
    BY <1>8, RepositionEffect DEF rows, Moves
  <2>3. ASSUME failures = 0 \/ Reorders(e) PROVE OrderSoFar(e)'
    <3>1. PICK t \in Enumerations(OnBoard) : RankedBy(t)
      BY <2>2, <2>3 DEF OrderInv, OrderSoFar, Numbered, Logging
    <3>2. s \in Enumerations(OnBoard) /\ RankedBy(s)
      BY <1>1, <3>1, OrderIsEnumeration, OneOrder
    <3>3. PICK todo : todo = Positions(s)
      OBVIOUS
    <3>4. RankedBy(s)' /\ Positioning(s, todo)'
      BY <1>2, <2>2, <3>2, <3>3, Positionings
    <3>5. Positioning(s, task[e].todo)'
      BY <2>1, <3>3, <3>4, RankingAsIs
    <3>6. todo = {} => Ordered'
      <4>1. todo = {} => Ordered
        BY <3>2, <3>3, Positionings DEF Ordered
      <4> QED BY <1>2, <2>2, <4>1
    <3> QED BY <2>1, <2>2, <3>2, <3>3, <3>4, <3>5, <3>6 DEF OrderSoFar
  <2>4. Reorders(e) => pc[e] = "position"
    BY <2>2 DEF OrderInv, Logging, Versioned
  <2> QED BY <1>3, <2>1, <2>2, <2>3, <2>4 DEF OrderInv, Logging, Versioned
<1>9. CASE Derive(e)
  <2>1. PICK d \in Orders(entries) :
          task'[e].todo = Derived(d) /\ pc'[e] = IF Derived(d) = {} THEN "version" ELSE "update"
    BY <1>9, DeriveEffect
  <2>2. /\ pc[e] = "derive" /\ task'[e].events = task[e].events /\ task'[e].next = "version"
        /\ OnBoard' = OnBoard /\ entries' = entries /\ failures' = failures
    BY <1>9, DeriveEffect DEF rows, Moves
  <2>3. ASSUME failures = 0 \/ Reorders(e) PROVE OrderSoFar(e)'
    <3>1. Ordered
      BY <2>2, <2>3 DEF OrderInv, OrderSoFar, Logging
    <3>2. PICK s \in Enumerations(OnBoard) : RankedBy(s) /\ PositionedBy(s)
      BY <3>1 DEF Ordered
    <3>3. PICK todo : todo = Derived(d)
      OBVIOUS
    <3>4. \A t \in todo : {"rank", "position"} \cap DOMAIN t.change = {}
      BY <3>3, DerivedChanges
    <3>5. RankedBy(s)' /\ Positioning(s, todo)'
      BY <1>2, <2>2, <3>2, <3>4, OtherColumns
    <3>6. Positioning(s, task[e].todo)'
      BY <2>1, <3>3, <3>5, RankingAsIs
    <3>7. Ordered'
      BY <1>2, <2>2, <3>1
    <3> QED BY <2>1, <2>2, <3>2, <3>5, <3>6, <3>7 DEF OrderSoFar
  <2>4. ~Reorders(e)
    BY <2>2 DEF OrderInv, Logging, Versioned
  <2> QED BY <1>3, <2>1, <2>2, <2>3, <2>4 DEF OrderInv
<1>10. ASSUME OnBoard' = OnBoard, entries' = entries, failures' = failures, task'[e].events = task[e].events,
              pc[e] \in {"status", "version"} \cup Versioned, pc'[e] \in {"version"} \cup Versioned
       PROVE  OrderInv(e)'
  <2>1. pc[e] \in Logging
    BY <1>10 DEF Logging, Versioned
  <2>2. ASSUME failures = 0 \/ Reorders(e) PROVE OrderSoFar(e)'
    <3>1. Ordered
      BY <1>10, <2>1, <2>2 DEF OrderInv, OrderSoFar, Versioned
    <3>2. Ordered'
      BY <1>2, <1>10, <3>1
    <3> QED BY <1>10, <3>2 DEF OrderSoFar, Versioned
  <2> QED BY <1>3, <1>10, <2>2 DEF OrderInv, Versioned
<1>11. CASE WriteStatus(e)
  BY <1>10, <1>11, WriteStatusEffect DEF Moves
<1>12. CASE ReadVersion(e)
  BY <1>10, <1>12, ReadVersionEffect DEF Moves, rows, Versioned
<1>13. CASE BumpVersion(e)
  BY <1>10, <1>13, BumpEffect DEF Moves, Versioned
<1>14. CASE InsertVersion(e)
  BY <1>10, <1>14, NoneRefused DEF Moves, Versioned
<1>15. CASE InsertSnapshot(e)
  <2>1. pc[e] = "snapshot" /\ UNCHANGED entries
    BY <1>15 DEF InsertSnapshot
  <2> QED BY <1>10, <1>15, <2>1, InsertSnapshotEffect DEF Moves, Versioned
<1>16. CASE InsertHistory(e)
  <2>1. pc[e] = "log" /\ pc'[e] = "idle" /\ OnBoard' = OnBoard /\ entries' = entries /\ failures' = failures
    BY <1>16, InsertHistoryEffect DEF Moves
  <2>2. failures = 0 => Ordered
    BY <2>1 DEF OrderInv, OrderSoFar, Logging
  <2> QED BY <1>2, <2>1, <2>2 DEF OrderInv, Logging
<1> QED
  BY <1>4, <1>5, <1>6, <1>7, <1>8, <1>9, <1>11, <1>12, <1>13, <1>14, <1>15, <1>16 DEF Continue

LEMMA OrderKept ==
  ASSUME NEW e, Editors = {e}, ShapeInv, RowsInv, FreeInv(e), OrderInv(e), [Next]_vars
  PROVE  OrderInv(e)'
<1>1. ASSUME Else(e) PROVE OrderInv(e)'
  <2>1. /\ Ordered => Ordered'
        /\ Numbered => Numbered'
        /\ \A s \in Enumerations(OnBoard) : RankedBy(s) => RankedBy(s)'
        /\ \A todo : \A s \in Enumerations(OnBoard) : Ranking(s, todo) => Ranking(s, todo)'
        /\ \A todo : \A s \in Enumerations(OnBoard) : Positioning(s, todo) => Positioning(s, todo)'
    <3>1. OnBoard' = OnBoard /\ IsFiniteSet(OnBoard)
      BY <1>1, BoardIsFinite DEF Else
    <3>2. \A p \in OnBoard : entries'[p].rank = entries[p].rank /\ entries'[p].position = entries[p].position
      BY <1>1, ColumnsAre DEF Else
    <3> QED BY <3>1, <3>2, OrderStays
  <2>2. CASE pc'[e] = "idle" /\ failures' # 0
    BY <2>2 DEF OrderInv, Logging
  <2>3. CASE pc'[e] = pc[e] /\ task'[e] = task[e]
    <3>1. OnBoard' = OnBoard /\ (failures' = 0 => failures = 0) /\ (Reorders(e)' <=> Reorders(e))
      BY <1>1, <2>3 DEF Else, Reorders
    <3>2. ASSUME OrderSoFar(e) PROVE OrderSoFar(e)'
      <4>1. pc[e] \in {"position", "positionThenDerive"} => Numbered'
        BY <2>1, <3>2 DEF OrderSoFar
      <4>2. ASSUME pc[e] = "update", task[e].next = "position"
            PROVE  \E s \in Enumerations(OnBoard') : Ranking(s, task[e].todo)'
        <5>1. PICK todo : todo = task[e].todo
          OBVIOUS
        <5>2. PICK s \in Enumerations(OnBoard) : Ranking(s, todo)
          BY <3>2, <4>2, <5>1 DEF OrderSoFar
        <5>3. todo = task'[e].todo /\ Ranking(s, todo)'
          BY <2>1, <2>3, <5>1, <5>2
        <5> QED BY <3>1, <5>3, RankingAsIs
      <4>3. ASSUME pc[e] = "update", task[e].next # "position"
            PROVE  \E s \in Enumerations(OnBoard') : RankedBy(s)' /\ Positioning(s, task[e].todo)'
        <5>1. PICK todo : todo = task[e].todo
          OBVIOUS
        <5>2. PICK s \in Enumerations(OnBoard) : RankedBy(s) /\ Positioning(s, todo)
          BY <3>2, <4>3, <5>1 DEF OrderSoFar
        <5>3. todo = task'[e].todo /\ RankedBy(s)' /\ Positioning(s, todo)'
          BY <2>1, <2>3, <5>1, <5>2
        <5> QED BY <3>1, <5>3, RankingAsIs
      <4>4. pc[e] \in {"derive", "status", "version", "bump", "stamp", "snapshot", "log"} => Ordered'
        BY <2>1, <3>2 DEF OrderSoFar
      <4> QED BY <2>3, <4>1, <4>2, <4>3, <4>4 DEF OrderSoFar
    <3> QED BY <2>1, <2>3, <3>1, <3>2 DEF OrderInv
  <2> QED BY <1>1, <2>2, <2>3 DEF Else
<1> QED BY <1>1, BeginKeepsOrder, ContinueKeepsOrder, ElseSteps

-----------------------------------------------------------------------------
(* The snapshots of one edit at a time.                                    *)

LEMMA ShownColumns == Shown \subseteq SnapshotColumns /\ Shown \subseteq Columns \ {"consensus"}
BY DEF Shown, SnapshotColumns, Columns, NewEntry

LEMMA ShowsStays ==
  ASSUME OnBoard' = OnBoard,
         \A p \in OnBoard : \A f \in Columns \ {"consensus"} : entries'[p][f] = entries[p][f],
         NEW shown, Shows(shown)
  PROVE  Shows(shown)'
<1>1. \A i \in DOMAIN shown : shown[i].prospect \in OnBoard
  BY DEF Shows
<1> QED BY <1>1, ShownColumns DEF Shows

LEMMA SnapshotShows ==
  ASSUME IsFiniteSet(OnBoard), NEW s \in Orders(entries)
  PROVE  Shows(Snapshot(entries, s))
<1> DEFINE shown == Snapshot(entries, s)
<1>1. DOMAIN shown = DOMAIN s /\ \A i \in DOMAIN s : /\ shown[i].prospect = s[i]
                                               /\ \A f \in Shown : shown[i].row[f] = entries[s[i]][f]
  BY ShownColumns DEF Snapshot
<1>2. (\A i \in DOMAIN s : s[i] \in OnBoard) /\ \A p \in OnBoard : \E i \in DOMAIN s : s[i] = p
  BY OrderIsEnumeration, EnumerationFacts
<1> HIDE DEF shown
<1>3. {shown[i].prospect : i \in DOMAIN shown} = OnBoard
  BY <1>1, <1>2
<1>4. Shows(shown)
  BY <1>1, <1>3 DEF Shows
<1> QED BY <1>4 DEF shown

LEMMA ShowKept ==
  ASSUME NEW e, Editors = {e}, ShapeInv, RowsInv, OwnVersion(e), FreeInv(e), OrderInv(e), ShowInv(e), [Next]_vars
  PROVE  ShowInv(e)'
<1>1. ASSUME pc'[e] \notin {"idle"} \cup Versioned PROVE ShowInv(e)'
  BY <1>1 DEF ShowInv, Versioned
<1>2. ASSUME NEW shown, OnBoard' = OnBoard, entries' = entries, Shows(shown) PROVE Shows(shown)'
  BY <1>2, ShowsStays
<1>3. ASSUME NEW u \in Users, Edit(e, u) PROVE ShowInv(e)'
  BY <1>1, <1>3, EditBegins DEF Versioned
<1>4. ASSUME Continue(e), pc[e] \in Writing PROVE ShowInv(e)'
  <2>1. CASE pc'[e] = "idle"
    <3>1. pc[e] = "insert" /\ task[e].prospect \in OnBoard /\ failures' = failures
      BY <1>4, <2>1, WritingSteps DEF Moves
    <3> QED BY <3>1 DEF OrderInv, ShowInv
  <2>2. CASE pc'[e] # "idle"
    <3>1. pc'[e] \notin {"idle"} \cup Versioned
      BY <1>4, <2>2, WritingSteps DEF Versioned
    <3> QED BY <1>1, <3>1
  <2> QED BY <2>1, <2>2
<1>5. CASE ReadVersion(e)
  <2>1. PICK s \in Orders(entries) : task'[e].snapshot = Snapshot(entries, s)
    BY <1>5, ReadVersionEffect
  <2>2. PICK shown : shown = Snapshot(entries, s)
    OBVIOUS
  <2>3. OnBoard' = OnBoard /\ entries' = entries /\ pc'[e] = "bump"
    BY <1>5, ReadVersionEffect DEF rows
  <2>4. Shows(shown)' /\ task'[e].snapshot = shown
    BY <1>2, <2>1, <2>2, <2>3, BoardIsFinite, SnapshotShows
  <2>5. Shows(task[e].snapshot)'
    BY <2>4 DEF Shows
  <2> QED BY <2>3, <2>5 DEF ShowInv
<1>6. ASSUME pc[e] \in {"bump", "stamp"}, pc'[e] \in {"stamp", "snapshot"}, OnBoard' = OnBoard, entries' = entries,
             task'[e] = task[e], failures' = failures
      PROVE  ShowInv(e)'
  <2>1. ASSUME failures = 0 PROVE Shows(task[e].snapshot)'
    <3>1. PICK shown : shown = task[e].snapshot
      OBVIOUS
    <3>2. Shows(shown)' /\ task'[e].snapshot = shown
      BY <1>2, <1>6, <2>1, <3>1 DEF ShowInv
    <3> QED BY <3>2 DEF Shows
  <2> QED BY <1>6, <2>1 DEF ShowInv
<1>7. CASE BumpVersion(e)
  BY <1>6, <1>7, BumpEffect DEF Moves
<1>8. CASE InsertVersion(e)
  BY <1>6, <1>8, NoneRefused DEF Moves
<1>9. CASE InsertSnapshot(e)
  <2>1. /\ pc[e] = "snapshot" /\ pc'[e] = "log" /\ board' = board /\ OnBoard' = OnBoard /\ entries' = entries
        /\ failures' = failures /\ snapshots'[task[e].version] = task[e].snapshot
    BY <1>9, InsertSnapshotEffect DEF Moves, InsertSnapshot
  <2>2. task[e].version = board.version
    BY <2>1 DEF FreeInv
  <2>3. ASSUME failures = 0 PROVE Shows(snapshots[board.version])'
    <3>1. PICK shown : shown = task[e].snapshot
      OBVIOUS
    <3>2. Shows(shown)' /\ snapshots'[board'.version] = shown
      BY <1>2, <2>1, <2>2, <2>3, <3>1 DEF ShowInv
    <3> QED BY <3>2 DEF Shows
  <2> QED BY <2>1, <2>3 DEF ShowInv
<1>10. ASSUME OnBoard' = OnBoard, UNCHANGED <<board, snapshots>>, Shows(snapshots[board.version]),
              \A p \in OnBoard : \A f \in Columns \ {"consensus"} : entries'[p][f] = entries[p][f]
       PROVE  Shows(snapshots[board.version])'
  <2>1. PICK shown : shown = snapshots[board.version]
    OBVIOUS
  <2>2. Shows(shown)' /\ snapshots'[board'.version] = shown
    BY <1>10, <2>1, ShowsStays
  <2> QED BY <2>2 DEF Shows
<1>11. CASE InsertHistory(e)
  <2>1. /\ pc[e] = "log" /\ pc'[e] = "idle" /\ UNCHANGED <<board, snapshots>> /\ OnBoard' = OnBoard /\ entries' = entries
        /\ failures' = failures
    BY <1>11, InsertHistoryEffect DEF Moves
  <2>2. task[e].version = board.version /\ task[e].version \in DOMAIN snapshots
    BY <2>1 DEF FreeInv, OwnVersion, Stored
  <2> QED BY <1>10, <2>1, <2>2 DEF ShowInv
<1>12. ASSUME Else(e) PROVE ShowInv(e)'
  <2>1. /\ OnBoard' = OnBoard /\ UNCHANGED <<board, snapshots>>
        /\ \A p \in OnBoard : \A f \in Columns \ {"consensus"} : entries'[p][f] = entries[p][f]
    BY <1>12 DEF Else, Stamps
  <2>2. CASE pc'[e] = "idle" /\ failures' # 0
    BY <2>2 DEF ShowInv
  <2>3. CASE pc'[e] = pc[e] /\ task'[e] = task[e]
    <3>1. failures' = 0 => failures = 0
      BY <1>12 DEF Else
    <3>2. ASSUME failures = 0, pc[e] \in {"bump", "stamp", "snapshot"} PROVE Shows(task[e].snapshot)'
      <4>1. PICK shown : shown = task[e].snapshot
        OBVIOUS
      <4>2. Shows(shown)' /\ task'[e].snapshot = shown
        BY <2>1, <2>3, <3>2, <4>1, ShowsStays DEF ShowInv
      <4> QED BY <4>2 DEF Shows
    <3> QED BY <1>10, <2>1, <2>3, <3>1, <3>2 DEF ShowInv
  <2> QED BY <1>12, <2>2, <2>3 DEF Else
<1> QED BY <1>3, <1>4, <1>5, <1>7, <1>8, <1>9, <1>11, <1>12, CommitSteps, ElseSteps

-----------------------------------------------------------------------------
(* What the history explains, one edit at a time.                          *)

LEMMA ToldColumns == \A f \in Told : f \in Columns /\ f \notin {"rank", "position", "model", "fit", "consensus", "added"}
BY ColumnsAre DEF Told, ENTRY_FIELDS

LEMMA ExplainedStays ==
  ASSUME NEW p, NEW f, history' = history, entries'[p][f] = entries[p][f], Explained(p, f)
  PROVE  Explained(p, f)'
BY DEF Explained, About

(* An edit begins that tells of no such column.                            *)
LEMMA UntoldBegins ==
  ASSUME NEW e, Begins(e), ExplainInv(e), pc'[e] \in Logging,
         \A ev \in task'[e].events : ev.field \notin Told \cup {"added"},
         pc'[e] = "update" => \A t \in task'[e].todo : Told \cap DOMAIN t.change = {}
  PROVE  ExplainInv(e)'
<1>1. pc[e] = "idle" /\ history' = history /\ entries' = entries /\ OnBoard' = OnBoard /\ failures' = failures
  BY DEF Begins, rows, Moves
<1>2. \A p : \A f \in Told : About(task'[e].events, p, f) = {}
  BY DEF About
<1>3. failures = 0 => \A p \in OnBoard, f \in Told : Explained(p, f)'
  BY <1>1, ExplainedStays DEF ExplainInv
<1>4. pc'[e] \notin {"idle", "insert"}
  BY DEF Logging
<1>5. \A p \in OnBoard', f \in Told : About(task[e].events, p, f)' = {}
  BY <1>2 DEF About
<1> QED BY <1>1, <1>3, <1>4, <1>5 DEF ExplainInv

LEMMA BeginKeepsExplained ==
  ASSUME NEW e, Editors = {e}, ShapeInv, ExplainInv(e), NEW u \in Users, Edit(e, u)
  PROVE  ExplainInv(e)'
<1>1. Begins(e)
  BY EditBegins
<1>2. pc[e] = "idle" /\ history' = history /\ entries' = entries /\ OnBoard' = OnBoard /\ failures' = failures
  BY <1>1 DEF Begins, rows, Moves
<1>3. failures = 0 => \A p \in OnBoard, f \in Told : Explained(p, f)'
  BY <1>2, ExplainedStays DEF ExplainInv
<1>4. ASSUME NEW p, AddProspect(e, u, p) PROVE ExplainInv(e)'
  <2>1. pc'[e] = "insert"
    BY <1>4, AddEffect
  <2> QED BY <1>2, <1>3, <2>1 DEF ExplainInv, Logging
<1>5. ASSUME NEW ev, task'[e].events = {ev}, ev.field \notin Told \cup {"added"}, pc'[e] \in {"delete", "status"}
      PROVE  ExplainInv(e)'
  BY <1>1, <1>5, UntoldBegins DEF Logging
<1>6. ASSUME NEW p, RemoveProspect(e, u, p) PROVE ExplainInv(e)'
  <2> DEFINE ev == RankEvent(u, p, "removed", entries[p].rank, None)
  <2>1. pc'[e] = "delete" /\ task'[e] = [prospect |-> p, events |-> {ev}]
    BY <1>6, RemoveEffect
  <2>2. ev.field \notin Told \cup {"added"}
    BY EventFields DEF Told, ENTRY_FIELDS
  <2> HIDE DEF ev
  <2>3. task'[e].events = {ev}
    BY <2>1
  <2> QED BY <1>5, <2>1, <2>2, <2>3
<1>7. ASSUME NEW status, SetStatus(e, u, status) PROVE ExplainInv(e)'
  <2> DEFINE ev == ValueEvent(u, None, "status", board.status, status)
  <2>1. pc'[e] = "status" /\ task'[e] = [status |-> status, events |-> {ev}]
    BY <1>7, StatusEffect
  <2>2. ev.field \notin Told \cup {"added"}
    BY EventFields DEF Told, ENTRY_FIELDS
  <2> HIDE DEF ev
  <2>3. task'[e].events = {ev}
    BY <2>1
  <2> QED BY <1>5, <2>1, <2>2, <2>3
<1>8. ASSUME NEW s \in [1..Cardinality(OnBoard) -> OnBoard], ReorderBoard(e, u, s) PROVE ExplainInv(e)'
  <2>1. /\ pc'[e] = "update" /\ task'[e].todo = Moved(s) /\ task'[e].events = MoveEvents(u, s)
    BY <1>8, ReorderEffect
  <2>2. \A ev \in MoveEvents(u, s) : ev.field \notin Told \cup {"added"}
    BY EventFields DEF MoveEvents, Told, ENTRY_FIELDS
  <2>3. \A t \in Moved(s) : Told \cap DOMAIN t.change = {}
    BY MovedChanges, ToldColumns
  <2> QED BY <1>1, <2>1, <2>2, <2>3, UntoldBegins DEF Logging
<1>9. ASSUME NEW p, NEW change, EditsEntry(e, u, p, change) PROVE ExplainInv(e)'
  <2> DEFINE t == Change(1, p, change)
             S == EntryEvents(u, p, change)
  <2>1. pc'[e] = "update" /\ task'[e].todo = {t} /\ task'[e].events = S /\ DOMAIN change \subseteq Told
    BY <1>9, StoreEffect
  <2>2. t.prospect = p /\ t.change = change
    BY StoredChanges
  <2>3. /\ \A ev \in S : ev.prospect = p /\ ev.field \in DOMAIN change
        /\ \A f \in DOMAIN change :
             \E ev \in S : ev.prospect = p /\ ev.field = f /\ Says(ev, f) = change[f]
    <3>1. \A f \in DOMAIN change : LET ev == EntryEvent(u, p, f, change[f]) IN
            ev \in S /\ ev.prospect = p /\ ev.field = f /\ Says(ev, f) = change[f]
      BY <2>1, EntryFields, ToldColumns DEF EntryEvents, Says
    <3>2. \A ev \in S : \E f \in DOMAIN change : ev = EntryEvent(u, p, f, change[f])
      BY DEF EntryEvents
    <3> QED BY <3>1, <3>2
  <2> HIDE DEF S, t
  <2>4. ASSUME failures = 0, NEW q \in OnBoard, NEW g \in Told
        PROVE  /\ About(task'[e].events, q, g) = {} => Explained(q, g)'
               /\ \A x \in About(task'[e].events, q, g) :
                    \E c \in task'[e].todo : c.prospect = q /\ g \in DOMAIN c.change
    <3>1. Explained(q, g)'
      BY <1>3, <2>4
    <3>2. ASSUME NEW x \in About(S, q, g) PROVE q = p /\ g \in DOMAIN change
      <4>1. x.prospect = p /\ x.field \in Told /\ x.field \in DOMAIN change
        BY <2>1, <2>3 DEF About
      <4> QED BY <4>1, ToldColumns DEF About
    <3> QED BY <2>1, <2>2, <3>1, <3>2
  <2>5. \A c \in task'[e].todo : \A g \in Told \cap DOMAIN c.change :
          \E x \in task'[e].events : x.prospect = c.prospect /\ x.field = g /\ c.change[g] = Says(x, g)
    BY <2>1, <2>2, <2>3
  <2>6. /\ failures' = 0 => \A q \in OnBoard', g \in Told :
             /\ About(task[e].events, q, g)' = {} => Explained(q, g)'
             /\ \A x \in About(task[e].events, q, g)' :
                  \E c \in task'[e].todo : c.prospect = q /\ g \in DOMAIN c.change
    BY <1>2, <2>4 DEF About
  <2> QED BY <2>1, <2>5, <2>6 DEF ExplainInv, Says
<1> QED BY <1>4, <1>6, <1>7, <1>8, <1>9, EditCases

(* What is logged says what was to be logged.                              *)
LEMMA LoggedSays ==
  ASSUME NEW ev, {"field", "user", "prospect", "new", "newRank"} \subseteq DOMAIN ev, NEW v, NEW f
  PROVE  /\ Says(Logged(ev, v), f) = Says(ev, f)
         /\ Logged(ev, v).new = ev.new /\ Logged(ev, v).user = ev.user
         /\ Logged(ev, v).field = ev.field /\ Logged(ev, v).prospect = ev.prospect /\ Logged(ev, v).version = v
<1>1. /\ Logged(ev, v).newRank = ev.newRank /\ Logged(ev, v).new = ev.new /\ Logged(ev, v).user = ev.user
      /\ Logged(ev, v).field = ev.field /\ Logged(ev, v).prospect = ev.prospect /\ Logged(ev, v).version = v
  BY DEF Logged
<1> QED BY <1>1 DEF Says

(* A step of an edit that writes no such column.                           *)
LEMMA UntoldGoes ==
  ASSUME NEW e, ExplainInv(e), history' = history, failures' = failures,
         \A p \in OnBoard' : p \in OnBoard /\ entries'[p] = entries[p],
         task'[e].events = task[e].events, pc[e] \in Logging, pc[e] # "update", pc'[e] \in Logging,
         pc'[e] = "update" => \A t \in task'[e].todo : Told \cap DOMAIN t.change = {}
  PROVE  ExplainInv(e)'
<1>1. ASSUME failures = 0, NEW p \in OnBoard', NEW f \in Told
      PROVE  /\ About(task[e].events, p, f)' = {} => Explained(p, f)'
             /\ \A ev \in About(task[e].events, p, f)' : entries'[p][f] = Says(ev, f)
  <2>1. About(task[e].events, p, f)' = About(task[e].events, p, f)
    BY DEF About
  <2>2. p \in OnBoard /\ entries'[p][f] = entries[p][f]
    OBVIOUS
  <2>3. /\ About(task[e].events, p, f) = {} => Explained(p, f)
        /\ \A ev \in About(task[e].events, p, f) : entries[p][f] = Says(ev, f)
    BY <1>1, <2>2 DEF ExplainInv
  <2> QED BY <2>1, <2>2, <2>3, ExplainedStays
<1>2. pc'[e] \notin {"idle", "insert"}
  BY DEF Logging
<1> QED BY <1>1, <1>2 DEF ExplainInv, Says

LEMMA ContinueKeepsExplained ==
  ASSUME NEW e, Editors = {e}, VersionInv, RowsInv, FreeInv(e), OrderInv(e), ExplainInv(e), Continue(e)
  PROVE  ExplainInv(e)'
<1>1. ShapeInv /\ EditShape(e) /\ OwnVersion(e) /\ HistoryHasSnapshot
  BY DEF VersionInv, ShapeInv
<1>2. CASE InsertEntry(e)
  <2> DEFINE ev == RankEvent(task[e].user, task[e].prospect, "added", None, task[e].rank)
  <2>1. pc[e] = "insert" /\ failures' = failures /\ history' = history
    BY <1>1, <1>2, InsertEntryEffect DEF Moves, Stamps
  <2>2. CASE task[e].prospect \in OnBoard /\ pc'[e] = "idle"
    BY <2>1, <2>2 DEF OrderInv, ExplainInv
  <2>3. CASE /\ task[e].prospect \notin OnBoard /\ pc'[e] = "positionThenDerive" /\ task'[e].events = {ev}
             /\ OnBoard' = OnBoard \cup {task[e].prospect}
             /\ entries' = [q \in OnBoard \cup {task[e].prospect} |->
                              IF q = task[e].prospect THEN NewEntry(task[e].rank) ELSE entries[q]]
    <3>1. ev.field = "added" /\ ev.prospect = task[e].prospect
      BY EventFields
    <3> HIDE DEF ev
    <3>2. PICK p : p = task[e].prospect
      OBVIOUS
    <3>3. \A q \in OnBoard, f \in Told : entries'[q][f] = entries[q][f]
      BY <2>3
    <3>4. \A f \in Told : entries'[p][f] = None
      BY <2>3, <3>2, NewRow, ToldColumns
    <3>5. ASSUME failures = 0, NEW q \in OnBoard', NEW f \in Told
          PROVE  /\ About(task[e].events, q, f)' = {} => Explained(q, f)'
                 /\ \A x \in About(task[e].events, q, f)' : entries'[q][f] = Says(x, f)
      <4>1. CASE q = p
        <5>1. About(task[e].events, q, f)' = {ev}
          BY <2>3, <3>1, <3>2, <4>1 DEF About
        <5>2. Says(ev, f) = None
          BY <3>1 DEF Says
        <5> QED BY <3>4, <4>1, <5>1, <5>2
      <4>2. CASE q # p
        <5>1. About(task[e].events, q, f)' = {}
          BY <2>3, <3>1, <3>2, <4>2 DEF About
        <5>2. q \in OnBoard
          BY <2>3, <3>2, <4>2
        <5>3. Explained(q, f)
          BY <2>1, <3>5, <5>2 DEF ExplainInv
        <5> QED BY <2>1, <3>3, <5>1, <5>2, <5>3, ExplainedStays
      <4> QED BY <4>1, <4>2
    <3>6. pc'[e] \notin {"idle", "insert", "update"} /\ failures' = failures
      BY <2>1, <2>3
    <3> QED BY <3>5, <3>6 DEF ExplainInv, Says
  <2> QED BY <1>1, <1>2, <2>2, <2>3, InsertEntryEffect
<1>3. CASE DeleteEntry(e)
  <2>1. /\ pc[e] = "delete" /\ pc'[e] = "renumber" /\ task'[e].events = task[e].events
        /\ history' = history /\ failures' = failures
        /\ \A p \in OnBoard' : p \in OnBoard /\ entries'[p] = entries[p]
    BY <1>1, <1>3, DeleteEntryEffect DEF Moves, Stamps
  <2> QED BY <2>1, UntoldGoes DEF Logging
<1>4. CASE Renumber(e)
  <2>1. PICK s \in Orders(entries) : task'[e].todo = Moved(s) /\ pc'[e] \in {"position", "update"}
    BY <1>1, <1>4, RenumberEffect
  <2>2. /\ pc[e] = "renumber" /\ task'[e].events = task[e].events /\ history' = history /\ failures' = failures
        /\ OnBoard' = OnBoard /\ entries' = entries
    BY <1>1, <1>4, RenumberEffect DEF Moves, rows
  <2>3. \A t \in task'[e].todo : Told \cap DOMAIN t.change = {}
    <3>1. \A t \in Moved(s) : Told \cap DOMAIN t.change = {}
      BY MovedChanges, ToldColumns
    <3> QED BY <2>1, <3>1
  <2> QED BY <2>1, <2>2, <2>3, UntoldGoes DEF Logging
<1>5. CASE Reposition(e)
  <2>1. PICK s \in Orders(entries) : task'[e].todo = Positions(s) /\ pc'[e] \in {"version", "derive", "update"}
    BY <1>1, <1>5, RepositionEffect
  <2>2. /\ pc[e] \in {"position", "positionThenDerive"} /\ task'[e].events = task[e].events /\ history' = history
        /\ failures' = failures /\ OnBoard' = OnBoard /\ entries' = entries
    BY <1>1, <1>5, RepositionEffect DEF Moves, rows
  <2>3. \A t \in task'[e].todo : Told \cap DOMAIN t.change = {}
    BY <2>1, PositionChanges, ToldColumns
  <2> QED BY <2>1, <2>2, <2>3, UntoldGoes DEF Logging
<1>6. CASE Derive(e)
  <2>1. PICK s \in Orders(entries) : task'[e].todo = Derived(s) /\ pc'[e] \in {"version", "update"}
    BY <1>1, <1>6, DeriveEffect
  <2>2. /\ pc[e] = "derive" /\ task'[e].events = task[e].events /\ history' = history
        /\ failures' = failures /\ OnBoard' = OnBoard /\ entries' = entries
    BY <1>1, <1>6, DeriveEffect DEF Moves, rows
  <2>3. \A t \in task'[e].todo : Told \cap DOMAIN t.change = {}
    BY <2>1, DerivedChanges, ToldColumns
  <2> QED BY <2>1, <2>2, <2>3, UntoldGoes DEF Logging
<1>7. CASE WriteStatus(e) \/ ReadVersion(e) \/ BumpVersion(e) \/ InsertVersion(e) \/ InsertSnapshot(e)
  <2>1. /\ pc[e] \in {"status", "version", "bump", "stamp", "snapshot"}
        /\ pc'[e] \in {"version", "bump", "stamp", "snapshot", "log"}
        /\ task'[e].events = task[e].events /\ Moves(e) /\ OnBoard' = OnBoard
    BY <1>1, <1>7, WriteStatusEffect, ReadVersionEffect, BumpEffect, NoneRefused, InsertSnapshotEffect DEF rows
  <2>2. history' = history /\ entries' = entries
    BY <1>7 DEF WriteStatus, ReadVersion, BumpVersion, InsertVersion, InsertSnapshot, rows
  <2> QED BY <2>1, <2>2, UntoldGoes DEF Logging, Moves
<1>8. CASE Update(e)
  <2>1. PICK t \in task[e].todo :
           /\ task'[e].todo = task[e].todo \ {t}
           /\ pc'[e] = IF task[e].todo \ {t} = {} THEN task[e].next ELSE "update"
           /\ \A p \in OnBoard : \A f \in Columns :
                entries'[p][f] = IF p = t.prospect /\ f \in DOMAIN t.change THEN t.change[f] ELSE entries[p][f]
    BY <1>1, <1>8, UpdateRows
  <2>2. /\ pc[e] = "update" /\ OnBoard' = OnBoard /\ task'[e].events = task[e].events /\ history' = history
        /\ failures' = failures /\ task[e].next \in {"position", "derive", "version"}
    BY <1>1, <1>8, UpdateEffect DEF Moves, EditShape, Stamps
  <2>3. OneChange(task[e].events)
    BY <1>1, <2>2 DEF EditShape, Logging
  <2>4. ASSUME failures = 0, NEW p \in OnBoard, NEW f \in Told
        PROVE  /\ About(task[e].events, p, f) = {} => Explained(p, f)'
               /\ \A ev \in About(task[e].events, p, f) :
                    \/ entries'[p][f] = Says(ev, f)
                    \/ \E c \in task'[e].todo : c.prospect = p /\ f \in DOMAIN c.change
    <3>1. /\ About(task[e].events, p, f) = {} => Explained(p, f)
          /\ \A ev \in About(task[e].events, p, f) :
               \/ entries[p][f] = Says(ev, f)
               \/ \E c \in task[e].todo : c.prospect = p /\ f \in DOMAIN c.change
      BY <2>2, <2>4 DEF ExplainInv, Logging
    <3>2. CASE p = t.prospect /\ f \in DOMAIN t.change
      <4>1. PICK ev \in task[e].events : ev.prospect = p /\ ev.field = f /\ t.change[f] = Says(ev, f)
        BY <2>2, <2>4, <3>2 DEF ExplainInv
      <4>2. ev \in About(task[e].events, p, f) /\ entries'[p][f] = Says(ev, f)
        BY <2>1, <3>2, <4>1, ToldColumns DEF About
      <4>3. \A x \in About(task[e].events, p, f) : x = ev
        BY <2>3, <4>1, ToldColumns DEF OneChange, OneEdit, About, ENTRY_FIELDS
      <4> QED BY <4>2, <4>3
    <3>3. CASE ~(p = t.prospect /\ f \in DOMAIN t.change)
      <4>1. entries'[p][f] = entries[p][f]
        BY <2>1, <3>3, ToldColumns
      <4> QED BY <2>1, <2>2, <3>1, <3>3, <4>1, ExplainedStays
    <3> QED BY <3>2, <3>3
  <2>5. ASSUME failures = 0
        PROVE  \A c \in task'[e].todo : \A f \in Told \cap DOMAIN c.change :
                 \E ev \in task'[e].events : ev.prospect = c.prospect /\ ev.field = f /\ c.change[f] = Says(ev, f)
    BY <2>1, <2>2, <2>5 DEF ExplainInv
  <2>6. ASSUME failures' = 0, NEW p \in OnBoard', NEW f \in Told
        PROVE  /\ About(task[e].events, p, f)' = {} => Explained(p, f)'
               /\ \A ev \in About(task[e].events, p, f)' :
                    \/ entries'[p][f] = Says(ev, f)
                    \/ pc'[e] = "update" /\ \E c \in task'[e].todo : c.prospect = p /\ f \in DOMAIN c.change
    <3>1. About(task[e].events, p, f)' = About(task[e].events, p, f)
      BY <2>2 DEF About
    <3>2. task'[e].todo # {} => pc'[e] = "update"
      BY <2>1
    <3> QED BY <2>2, <2>4, <2>6, <3>1, <3>2
  <2>7. pc'[e] \in Logging /\ pc'[e] \notin {"idle", "insert"}
    BY <2>1, <2>2 DEF Logging
  <2> QED BY <2>2, <2>5, <2>6, <2>7 DEF ExplainInv, Says
<1>9. CASE InsertHistory(e)
  <2>1. PICK v, S : v = task[e].version /\ S = task[e].events
    OBVIOUS
  <2>2. /\ pc[e] = "log" /\ pc'[e] = "idle" /\ OnBoard' = OnBoard /\ entries' = entries /\ failures' = failures
        /\ history' = history \cup {Logged(ev, v) : ev \in S}
    BY <1>1, <1>9, <2>1, InsertHistoryEffect DEF Moves
  <2>3. /\ OneChange(S) /\ Events(S) /\ v = board.version /\ v \in Nat
        /\ \A h \in history : h.version \in Nat /\ h.version <= v
    <3>1. OneChange(S) /\ Events(S) /\ v = board.version /\ v \in Nat
      BY <1>1, <2>1, <2>2 DEF EditShape, Logging, Versioned, FreeInv
    <3>2. \A h \in history : h.version \in versions
      BY <1>1 DEF HistoryHasSnapshot, ShapeInv
    <3> QED BY <1>1, <3>1, <3>2 DEF FreeInv, NextVersionFree, ShapeInv
  <2>4. \A ev \in S : /\ \A f : Says(Logged(ev, v), f) = Says(ev, f)
                      /\ Logged(ev, v).field = ev.field /\ Logged(ev, v).prospect = ev.prospect
                      /\ Logged(ev, v).version = v
    BY <2>3, LoggedSays DEF Events
  <2>5. ASSUME failures = 0, NEW p \in OnBoard, NEW f \in Told PROVE Explained(p, f)'
    <3>1. CASE About(S, p, f) = {}
      <4>1. Explained(p, f)
        BY <2>1, <2>2, <2>5, <3>1 DEF ExplainInv, Logging
      <4>2. About(history', p, f) = About(history, p, f)
        BY <2>2, <2>4, <3>1 DEF About
      <4> QED BY <2>2, <4>1, <4>2 DEF Explained, About
    <3>2. CASE About(S, p, f) # {}
      <4>1. PICK ev \in About(S, p, f) : TRUE
        BY <3>2
      <4>2. entries[p][f] = Says(ev, f)
        BY <2>1, <2>2, <2>5, <4>1 DEF ExplainInv, Logging
      <4>3. PICK h : h = Logged(ev, v)
        OBVIOUS
      <4>4. /\ ev \in S /\ h \in About(history', p, f) /\ Says(h, f) = Says(ev, f) /\ h.version = v
        BY <2>2, <2>4, <4>1, <4>3 DEF About
      <4>5. \A g \in About(history', p, f) : g.version <= h.version
        BY <2>2, <2>3, <2>4, <4>4 DEF About
      <4> QED BY <2>2, <4>2, <4>4, <4>5 DEF Explained, About, Says
    <3> QED BY <3>1, <3>2
  <2> QED BY <2>2, <2>5 DEF ExplainInv, Logging
<1> QED
  BY <1>2, <1>3, <1>4, <1>5, <1>6, <1>7, <1>8, <1>9 DEF Continue

LEMMA ExplainKept ==
  ASSUME NEW e, Editors = {e}, VersionInv, RowsInv, FreeInv(e), OrderInv(e), ExplainInv(e), [Next]_vars
  PROVE  ExplainInv(e)'
<1>1. ShapeInv
  BY DEF VersionInv
<1>2. ASSUME Else(e) PROVE ExplainInv(e)'
  <2>1. OnBoard' = OnBoard /\ history' = history /\ (failures' = 0 => failures = 0 \/ pc'[e] = "idle")
    BY <1>2 DEF Else, Stamps
  <2>2. \A p \in OnBoard, f \in Told : entries'[p][f] = entries[p][f]
    BY <1>2, ToldColumns DEF Else
  <2>3. CASE pc'[e] = "idle" /\ failures' # 0
    BY <2>3 DEF ExplainInv
  <2>4. CASE pc'[e] = pc[e] /\ task'[e] = task[e]
    <3>1. failures' = 0 => failures = 0
      BY <1>2 DEF Else
    <3>2. \A p \in OnBoard, f \in Told : Explained(p, f) => Explained(p, f)'
      BY <2>1, <2>2, ExplainedStays
    <3>3. \A p, f : About(task[e].events, p, f)' = About(task[e].events, p, f)
      BY <2>4 DEF About
    <3> QED BY <2>1, <2>2, <2>4, <3>1, <3>2, <3>3 DEF ExplainInv, Says
  <2> QED BY <1>2, <2>3, <2>4 DEF Else
<1> QED BY <1>1, <1>2, BeginKeepsExplained, ContinueKeepsExplained, ElseSteps

-----------------------------------------------------------------------------
(* Locks, one edit at a time.                                              *)

(* A step of an edit that writes no status.                                *)
LEMMA LockGoes ==
  ASSUME NEW e, LockInv(e), board'.status = board.status, history' = history, failures' = failures,
         task'[e].events = task[e].events, pc[e] \in Logging \ {"status"}, pc'[e] \in Logging \ {"status"}
  PROVE  LockInv(e)'
<1>1. pc'[e] # "insert"
  BY DEF Logging
<1>2. LockedUntilUnlocked => LockedUntilUnlocked'
  BY DEF LockedUntilUnlocked
<1> QED BY <1>1, <1>2 DEF LockInv, Locks, Opens

LEMMA BeginKeepsLocks ==
  ASSUME NEW e, Editors = {e}, ShapeInv, LockInv(e), NEW u \in Users, Edit(e, u)
  PROVE  LockInv(e)'
<1>1. Begins(e)
  BY EditBegins
<1>2. pc[e] = "idle" /\ history' = history /\ board' = board /\ failures' = failures
  BY <1>1 DEF Begins, rows, Moves
<1>3. failures = 0 => /\ board.status = "active" => \A lock \in history : Locks(lock) =>
                           \E open \in history : Opens(open) /\ lock.version < open.version
                      /\ LockedUntilUnlocked'
  BY <1>2 DEF LockInv, Logging, LockedUntilUnlocked
<1>4. ASSUME pc'[e] \in Logging,
             \A ev \in task'[e].events :
               /\ ev.field \in RankingFields => board.status = "active"
               /\ ev.field = "status" => /\ pc'[e] = "status" /\ ev.new = task'[e].status
                                         /\ ev.new = "active" => Can(Role[ev.user], "unlock_boards"),
             pc'[e] = "status" => \E ev \in task'[e].events : ev.field = "status"
      PROVE  LockInv(e)'
  <2>1. pc'[e] # "insert"
    BY <1>4 DEF Logging
  <2> QED BY <1>2, <1>3, <1>4, <2>1 DEF LockInv, Locks, Opens
<1>5. ASSUME NEW p, AddProspect(e, u, p) PROVE LockInv(e)'
  <2>1. pc'[e] = "insert" /\ board.status = "active"
    BY <1>5, AddEffect
  <2> QED BY <1>2, <1>3, <2>1 DEF LockInv, Locks, Opens, Logging
<1>6. ASSUME NEW p, RemoveProspect(e, u, p) PROVE LockInv(e)'
  <2> DEFINE ev == RankEvent(u, p, "removed", entries[p].rank, None)
  <2>1. pc'[e] = "delete" /\ task'[e] = [prospect |-> p, events |-> {ev}] /\ board.status = "active"
    BY <1>6, RemoveEffect
  <2>2. ev.field # "status"
    BY EventFields
  <2> HIDE DEF ev
  <2>3. task'[e].events = {ev}
    BY <2>1
  <2> QED BY <1>4, <2>1, <2>2, <2>3 DEF Logging
<1>7. ASSUME NEW p, NEW change, EditsEntry(e, u, p, change) PROVE LockInv(e)'
  <2>1. pc'[e] = "update" /\ task'[e].events = EntryEvents(u, p, change) /\ DOMAIN change \subseteq Told
    BY <1>7, StoreEffect
  <2>2. ASSUME NEW ev \in EntryEvents(u, p, change)
        PROVE  (ev.field \in RankingFields => board.status = "active") /\ ev.field # "status"
    <3>1. ev.field \in DOMAIN change
      BY EntryFields DEF EntryEvents
    <3>2. ev.field \in RankingFields => ~(DOMAIN change \subseteq NOTE_FIELDS)
      BY <3>1 DEF RankingFields, NOTE_FIELDS
    <3> QED BY <1>7, <2>1, <3>1, <3>2 DEF EditsEntry, Told, ENTRY_FIELDS, Unlocked
  <2> QED BY <1>4, <2>1, <2>2 DEF Logging
<1>8. ASSUME NEW s \in [1..Cardinality(OnBoard) -> OnBoard], ReorderBoard(e, u, s) PROVE LockInv(e)'
  <2>1. pc'[e] = "update" /\ task'[e].events = MoveEvents(u, s) /\ board.status = "active"
    BY <1>8, ReorderEffect
  <2>2. \A ev \in MoveEvents(u, s) : ev.field # "status"
    BY EventFields DEF MoveEvents
  <2> QED BY <1>4, <2>1, <2>2 DEF Logging
<1>9. ASSUME NEW status, SetStatus(e, u, status), status = "active" => Can(Role[u], "unlock_boards")
      PROVE  LockInv(e)'
  <2> DEFINE ev == ValueEvent(u, None, "status", board.status, status)
  <2>1. pc'[e] = "status" /\ task'[e] = [status |-> status, events |-> {ev}]
    BY <1>9, StatusEffect
  <2>2. ev.field = "status" /\ ev.new = status /\ ev.user = u
    BY EventFields
  <2> HIDE DEF ev
  <2>3. task'[e].events = {ev} /\ task'[e].status = status
    BY <2>1
  <2>4. "status" \notin RankingFields
    BY DEF RankingFields
  <2> QED BY <1>4, <1>9, <2>1, <2>2, <2>3, <2>4 DEF Logging
<1> QED BY <1>5, <1>6, <1>7, <1>8, <1>9, EditCases

LEMMA ContinueKeepsLocks ==
  ASSUME NEW e, Editors = {e}, VersionInv, RowsInv, FreeInv(e), LockInv(e), Continue(e)
  PROVE  LockInv(e)'
<1>1. ShapeInv /\ EditShape(e) /\ OwnVersion(e) /\ HistoryHasSnapshot
  BY DEF VersionInv, ShapeInv
<1>2. CASE InsertEntry(e)
  <2> DEFINE ev == RankEvent(task[e].user, task[e].prospect, "added", None, task[e].rank)
  <2>1. pc[e] = "insert" /\ failures' = failures /\ history' = history /\ board' = board
    BY <1>1, <1>2, InsertEntryEffect DEF Moves, Stamps
  <2>2. failures = 0 => /\ board.status = "active"
                        /\ \A lock \in history : Locks(lock) =>
                             \E open \in history : Opens(open) /\ lock.version < open.version
                        /\ LockedUntilUnlocked'
    BY <2>1 DEF LockInv, Logging, LockedUntilUnlocked
  <2>3. CASE pc'[e] = "idle"
    BY <2>1, <2>2, <2>3 DEF LockInv, Locks, Opens, Logging
  <2>4. CASE pc'[e] = "positionThenDerive" /\ task'[e].events = {ev}
    <3>1. ev.field # "status"
      BY EventFields
    <3> HIDE DEF ev
    <3> QED BY <2>1, <2>2, <2>4, <3>1 DEF LockInv, Locks, Opens
  <2> QED BY <1>1, <1>2, <2>3, <2>4, InsertEntryEffect
<1>3. ASSUME pc[e] \in Writing \ {"insert", "status"} PROVE LockInv(e)'
  <2>1. /\ board' = board /\ history' = history /\ failures' = failures /\ task'[e].events = task[e].events
        /\ pc[e] \in Logging \ {"status"} /\ pc'[e] \in Logging \ {"status"}
    BY <1>1, <1>3, WritingSteps DEF Moves, Writing, Logging
  <2> QED BY <2>1, LockGoes
<1>4. CASE ReadVersion(e) \/ BumpVersion(e) \/ InsertVersion(e) \/ InsertSnapshot(e)
  <2>1. /\ pc[e] \in {"version", "bump", "stamp", "snapshot"} /\ pc'[e] \in {"bump", "stamp", "snapshot", "log"}
        /\ task'[e].events = task[e].events /\ Moves(e)
    BY <1>1, <1>4, ReadVersionEffect, BumpEffect, NoneRefused, InsertSnapshotEffect
  <2>2. history' = history /\ board'.status = board.status
    <3>1. board' = board \/ board' = [board EXCEPT !.version = task[e].version]
      BY <1>4 DEF ReadVersion, BumpVersion, InsertVersion, InsertSnapshot, rows
    <3>2. history' = history
      BY <1>4 DEF ReadVersion, BumpVersion, InsertVersion, InsertSnapshot, rows
    <3> QED BY <1>1, <3>1, <3>2 DEF ShapeInv, Boards
  <2> QED BY <2>1, <2>2, LockGoes DEF Logging, Moves
<1>5. CASE WriteStatus(e)
  <2>1. /\ pc[e] = "status" /\ pc'[e] = "version" /\ history' = history /\ failures' = failures
        /\ task'[e].events = task[e].events /\ board' = [board EXCEPT !.status = task[e].status]
    BY <1>1, <1>5, WriteStatusEffect DEF Moves
  <2>2. board'.status = task[e].status
    BY <1>1, <2>1 DEF ShapeInv, Boards
  <2>3. ASSUME failures = 0
        PROVE  \E ev \in task[e].events :
                 /\ \A x \in task[e].events : x = ev
                 /\ ev.field = "status" /\ ev.new = task[e].status
                 /\ ev.new = "active" => Can(Role[ev.user], "unlock_boards")
    <3>1. PICK ev \in task[e].events : ev.field = "status"
      BY <2>1, <2>3 DEF LockInv
    <3>2. \A x \in task[e].events : x = ev
      BY <1>1, <2>1, <3>1 DEF EditShape, Logging, OneChange, OneEdit, ENTRY_FIELDS
    <3>3. ev.new = task[e].status /\ (ev.new = "active" => Can(Role[ev.user], "unlock_boards"))
      BY <2>1, <2>3, <3>1 DEF LockInv, Logging
    <3> QED BY <3>1, <3>2, <3>3
  <2>4. failures = 0 => LockedUntilUnlocked'
    BY <2>1 DEF LockInv, LockedUntilUnlocked
  <2>5. ASSUME failures = 0, NEW ev \in task'[e].events
        PROVE  /\ ev.field \notin RankingFields
               /\ ev.new = board'.status /\ (ev.new = "active" => Can(Role[ev.user], "unlock_boards"))
    BY <2>1, <2>2, <2>3, <2>5 DEF RankingFields
  <2>6. ASSUME failures = 0, board'.status = "active"
        PROVE  pc'[e] \in Logging /\ pc'[e] # "status" /\ \E ev \in task'[e].events : Opens(ev)
    BY <2>1, <2>2, <2>3, <2>6 DEF Opens, Logging
  <2>7. pc'[e] \notin {"insert", "status"}
    BY <2>1
  <2> QED BY <2>1, <2>4, <2>5, <2>6, <2>7 DEF LockInv, Opens
<1>6. CASE InsertHistory(e)
  <2>1. PICK v, S : v = task[e].version /\ S = task[e].events
    OBVIOUS
  <2>2. /\ pc[e] = "log" /\ pc'[e] = "idle" /\ board' = board /\ failures' = failures
        /\ history' = history \cup {Logged(ev, v) : ev \in S}
    BY <1>1, <1>6, <2>1, InsertHistoryEffect DEF Moves
  <2>3. /\ OneChange(S) /\ Events(S) /\ v = board.version /\ v \in Nat
        /\ \A h \in history : h.version \in Nat /\ h.version < v
    <3>1. OneChange(S) /\ Events(S) /\ v = board.version /\ v \in Nat
      BY <1>1, <2>1, <2>2 DEF EditShape, Logging, Versioned, FreeInv
    <3>2. \A h \in history : h.version \in versions /\ h.version # v
      BY <1>1, <2>1, <2>2 DEF HistoryHasSnapshot, ShapeInv, OwnVersion, Stored
    <3>3. \A h \in history : h.version \in Nat /\ h.version <= v
      BY <1>1, <3>1, <3>2 DEF FreeInv, NextVersionFree, ShapeInv
    <3> QED BY <3>1, <3>2, <3>3
  <2>4. \A ev \in S : /\ Logged(ev, v).field = ev.field /\ Logged(ev, v).new = ev.new /\ Logged(ev, v).user = ev.user
                      /\ Logged(ev, v).version = v
    BY <2>3, LoggedSays DEF Events
  <2>5. ASSUME failures = 0
        PROVE  /\ \A ev \in S : /\ ev.field \in RankingFields => board.status = "active"
                                /\ ev.field = "status" => ev.new = board.status
               /\ board.status = "active" => \A lock \in history : Locks(lock) =>
                    \/ \E open \in history : Opens(open) /\ lock.version < open.version
                    \/ \E ev \in S : Opens(ev)
               /\ LockedUntilUnlocked
    BY <2>1, <2>2, <2>5 DEF LockInv, Logging
  <2>6. ASSUME failures = 0, board.status = "active", NEW lock \in history', Locks(lock)
        PROVE  \E open \in history' : Opens(open) /\ lock.version < open.version
    <3>1. lock \in history
      <4>1. ASSUME NEW ev \in S, lock = Logged(ev, v) PROVE FALSE
        BY <2>4, <2>5, <2>6, <4>1 DEF Locks
      <4> QED BY <2>2, <4>1
    <3>2. CASE \E open \in history : Opens(open) /\ lock.version < open.version
      BY <2>2, <3>2
    <3>3. CASE \E ev \in S : Opens(ev)
      <4>1. PICK ev \in S : Opens(ev)
        BY <3>3
      <4>2. PICK h : h = Logged(ev, v)
        OBVIOUS
      <4>3. h \in history' /\ Opens(h) /\ lock.version < h.version
        BY <2>2, <2>3, <2>4, <3>1, <4>1, <4>2 DEF Opens
      <4> QED BY <4>3
    <3> QED BY <2>5, <2>6, <3>1, <3>2, <3>3
  <2>7. ASSUME failures = 0, NEW lock \in history', NEW h \in history', Locks(lock), h.version > lock.version,
               h.field \in RankingFields
        PROVE  \E open \in history' : Opens(open) /\ lock.version < open.version /\ open.version < h.version
    <3>1. lock \in history
      BY <2>2, <2>3, <2>4, <2>7
    <3>2. CASE h \in history
      <4>1. PICK open \in history : Opens(open) /\ lock.version < open.version /\ open.version < h.version
        BY <2>5, <2>7, <3>1, <3>2 DEF LockedUntilUnlocked, Locks, Opens, RankingFields
      <4> QED BY <2>2, <4>1
    <3>3. CASE h \notin history
      <4>1. PICK ev \in S : h = Logged(ev, v)
        BY <2>2, <3>3
      <4>2. ev.field \in RankingFields /\ board.status = "active"
        BY <2>4, <2>5, <2>7, <4>1
      <4>3. ASSUME NEW x \in S, Opens(x) PROVE FALSE
        BY <2>3, <4>2, <4>3 DEF OneChange, OneEdit, Opens, RankingFields, ENTRY_FIELDS
      <4>4. PICK open \in history : Opens(open) /\ lock.version < open.version
        BY <2>5, <2>7, <3>1, <4>2, <4>3
      <4>5. open.version < h.version
        BY <2>3, <2>4, <4>1
      <4> QED BY <2>2, <4>4, <4>5
    <3> QED BY <3>2, <3>3
  <2>8. failures = 0 => LockedUntilUnlocked'
    BY <2>7 DEF LockedUntilUnlocked, Locks, Opens, RankingFields
  <2> QED BY <2>2, <2>6, <2>8 DEF LockInv, Locks, Opens, Logging
<1>7. pc[e] = "insert" => InsertEntry(e)
  BY DEF Continue, InsertEntry, DeleteEntry, Renumber, Update, Reposition, Derive, WriteStatus, ReadVersion,
         BumpVersion, InsertVersion, InsertSnapshot, InsertHistory
<1>8. pc[e] = "status" => WriteStatus(e)
  BY DEF Continue, InsertEntry, DeleteEntry, Renumber, Update, Reposition, Derive, WriteStatus, ReadVersion,
         BumpVersion, InsertVersion, InsertSnapshot, InsertHistory
<1> QED
  BY <1>1, <1>2, <1>3, <1>4, <1>5, <1>6, <1>7, <1>8, CommitSteps

LEMMA LockKept ==
  ASSUME NEW e, Editors = {e}, VersionInv, RowsInv, FreeInv(e), LockInv(e), [Next]_vars
  PROVE  LockInv(e)'
<1>1. ShapeInv
  BY DEF VersionInv
<1>2. ASSUME Else(e) PROVE LockInv(e)'
  <2>1. board' = board /\ history' = history
    BY <1>2 DEF Else, Stamps
  <2>2. CASE pc'[e] = "idle" /\ failures' # 0
    BY <2>2 DEF LockInv
  <2>3. CASE pc'[e] = pc[e] /\ task'[e] = task[e]
    <3>1. failures' = 0 => failures = 0
      BY <1>2 DEF Else
    <3>2. LockedUntilUnlocked => LockedUntilUnlocked'
      BY <2>1, <3>1 DEF LockedUntilUnlocked
    <3> QED BY <2>1, <2>3, <3>1, <3>2 DEF LockInv, Locks, Opens
  <2> QED BY <1>2, <2>2, <2>3 DEF Else
<1> QED BY <1>1, <1>2, BeginKeepsLocks, ContinueKeepsLocks, ElseSteps

-----------------------------------------------------------------------------
(* The derived ranks, one edit at a time.                                  *)

(* A better score, a smaller rank.                                         *)
LEMMA BetterIsLess ==
  ASSUME IsFiniteSet(OnBoard), OnBoard \subseteq Prospects, NEW s \in Enumerations(OnBoard), NEW score,
         \A p \in Prospects : score[p] \in Nat \cup {None},
         NEW i \in DOMAIN s, NEW j \in DOMAIN s, Better(score, s[i], s[j])
  PROVE  ScoreRank(s, i, score) < ScoreRank(s, j, score)
<1> DEFINE Ahead(k) == {m \in DOMAIN s : /\ score[s[m]] # None
                                         /\ \/ score[s[m]] > score[s[k]]
                                            \/ score[s[m]] = score[s[k]] /\ m < k}
<1>1. DOMAIN s = 1..Cardinality(OnBoard) /\ Cardinality(OnBoard) \in Nat /\ \A m \in DOMAIN s : s[m] \in Prospects
  BY EnumerationFacts
<1>2. \A m \in DOMAIN s : score[s[m]] # None => score[s[m]] \in Nat
  BY <1>1
<1>3. score[s[i]] # None /\ score[s[j]] # None /\ score[s[i]] > score[s[j]]
  BY DEF Better
<1>4. Ahead(i) \subseteq Ahead(j)
  BY <1>2, <1>3
<1>5. i \in Ahead(j) /\ i \notin Ahead(i)
  BY <1>1, <1>2, <1>3
<1>6. IsFiniteSet(DOMAIN s)
  BY <1>1, FS_Interval
<1>7. Ahead(j) \subseteq DOMAIN s
  OBVIOUS
<1>8. ScoreRank(s, i, score) = 1 + Cardinality(Ahead(i)) /\ ScoreRank(s, j, score) = 1 + Cardinality(Ahead(j))
  BY <1>3 DEF ScoreRank
<1> HIDE DEF Ahead
<1>9. IsFiniteSet(Ahead(j)) /\ IsFiniteSet(Ahead(i))
  BY <1>4, <1>6, <1>7, FS_Subset
<1>10. Cardinality(Ahead(i)) \in Nat /\ Cardinality(Ahead(j)) \in Nat
  BY <1>9, FS_CardinalityType
<1>11. Cardinality(Ahead(i)) < Cardinality(Ahead(j))
  <2>1. Cardinality(Ahead(i)) <= Cardinality(Ahead(j))
        /\ (Cardinality(Ahead(i)) = Cardinality(Ahead(j)) => Ahead(i) = Ahead(j))
    BY <1>4, <1>9, FS_Subset
  <2> QED BY <1>5, <1>10, <2>1
<1> QED BY <1>8, <1>10, <1>11

(* When no update is left, the derived ranks are those of the scores; also *)
(* after a step.                                                           *)
LEMMA DerivedScores ==
  ASSUME IsFiniteSet(OnBoard), OnBoard \subseteq Prospects, NEW s \in Enumerations(OnBoard)
  PROVE  /\ Deriving(s, {}) => AllScored
         /\ OnBoard' = OnBoard /\ Deriving(s, {})' => AllScored'
<1>1. \A p \in OnBoard : \E i \in DOMAIN s : s[i] = p
  BY EnumerationFacts
<1>2. ASSUME NEW i \in DOMAIN s, NEW j \in DOMAIN s
      PROVE  /\ Better(RoleScore, s[i], s[j]) => ScoreRank(s, i, RoleScore) < ScoreRank(s, j, RoleScore)
             /\ Better(FitScore, s[i], s[j]) => ScoreRank(s, i, FitScore) < ScoreRank(s, j, FitScore)
  BY BetterIsLess, ProspectsAssumption
<1>3. ASSUME Deriving(s, {}) PROVE AllScored
  <2> SUFFICES ASSUME NEW p \in OnBoard, NEW q \in OnBoard PROVE ScoredOf(p, q)
    BY DEF AllScored
  <2>1. PICK i \in DOMAIN s, j \in DOMAIN s : s[i] = p /\ s[j] = q
    BY <1>1
  <2>2. /\ entries[p].model = ScoreRank(s, i, RoleScore) /\ entries[p].fit = ScoreRank(s, i, FitScore)
        /\ entries[q].model = ScoreRank(s, j, RoleScore) /\ entries[q].fit = ScoreRank(s, j, FitScore)
    BY <1>3, <2>1 DEF Deriving
  <2> QED BY <1>2, <2>1, <2>2 DEF ScoredOf
<1>4. ASSUME OnBoard' = OnBoard, Deriving(s, {})' PROVE AllScored'
  <2> SUFFICES ASSUME NEW p \in OnBoard, NEW q \in OnBoard PROVE ScoredOf(p, q)'
    BY <1>4 DEF AllScored
  <2>1. PICK i \in DOMAIN s, j \in DOMAIN s : s[i] = p /\ s[j] = q
    BY <1>1
  <2>2. /\ entries'[p].model = ScoreRank(s, i, RoleScore) /\ entries'[p].fit = ScoreRank(s, i, FitScore)
        /\ entries'[q].model = ScoreRank(s, j, RoleScore) /\ entries'[q].fit = ScoreRank(s, j, FitScore)
    BY <1>4, <2>1 DEF Deriving
  <2> QED BY <1>2, <2>1, <2>2 DEF ScoredOf
<1> QED BY <1>3, <1>4

LEMMA Derivations ==
  ASSUME NEW s \in Enumerations(OnBoard)
  PROVE  Deriving(s, Derived(s))
<1>1. ASSUME NEW i \in DOMAIN s PROVE \E t \in Derived(s) : t.prospect = s[i]
  <2> DEFINE t == Change(i, s[i], [model |-> ScoreRank(s, i, RoleScore), fit |-> ScoreRank(s, i, FitScore),
                                   consensus |-> Mean(consensus[s[i]])])
  <2>1. t \in Derived(s)
    BY DEF Derived
  <2>2. t.prospect = s[i]
    BY DEF Change
  <2> QED BY <2>1, <2>2
<1>2. ASSUME NEW t \in Derived(s)
      PROVE  /\ {"model", "fit"} \subseteq DOMAIN t.change
             /\ \E i \in DOMAIN s : /\ t.prospect = s[i]
                                    /\ t.change.model = ScoreRank(s, i, RoleScore)
                                    /\ t.change.fit = ScoreRank(s, i, FitScore)
  BY DerivedChanges
<1> QED BY <1>1, <1>2 DEF Deriving

LEMMA UpdateDerives ==
  ASSUME IsFiniteSet(OnBoard), OnBoard' = OnBoard, NEW s \in Enumerations(OnBoard), NEW todo, NEW t \in todo,
         \A p \in OnBoard : \A f \in Columns :
           entries'[p][f] = IF p = t.prospect /\ f \in DOMAIN t.change THEN t.change[f] ELSE entries[p][f],
         Deriving(s, todo)
  PROVE  Deriving(s, todo \ {t})'
<1>1. \A i \in DOMAIN s : s[i] \in OnBoard
  BY EnumerationFacts
<1>2. \A i, j \in DOMAIN s : s[i] = s[j] => i = j
  BY EnumerationFacts
<1>3. ASSUME NEW i \in DOMAIN s
      PROVE  \/ entries'[s[i]].model = ScoreRank(s, i, RoleScore) /\ entries'[s[i]].fit = ScoreRank(s, i, FitScore)
             \/ \E x \in todo \ {t} : x.prospect = s[i]
  <2>1. CASE t.prospect = s[i]
    <3>1. PICK j \in DOMAIN s : /\ t.prospect = s[j]
                                /\ t.change.model = ScoreRank(s, j, RoleScore)
                                /\ t.change.fit = ScoreRank(s, j, FitScore)
      BY DEF Deriving
    <3>2. i = j
      BY <1>2, <2>1, <3>1
    <3>3. {"model", "fit"} \subseteq DOMAIN t.change /\ "model" \in Columns /\ "fit" \in Columns
      BY ColumnsAre DEF Deriving
    <3>4. entries'[s[i]].model = t.change.model /\ entries'[s[i]].fit = t.change.fit
      BY <1>1, <2>1, <3>3
    <3> QED BY <3>1, <3>2, <3>4
  <2>2. CASE t.prospect # s[i]
    <3>1. entries'[s[i]].model = entries[s[i]].model /\ entries'[s[i]].fit = entries[s[i]].fit
      BY <1>1, <2>2, ColumnsAre
    <3> QED BY <2>2, <3>1 DEF Deriving
  <2> QED BY <2>1, <2>2
<1> QED BY <1>3 DEF Deriving

LEMMA ScoredStays ==
  ASSUME OnBoard' \subseteq OnBoard, AllScored,
         \A p \in OnBoard' : entries'[p].model = entries[p].model /\ entries'[p].fit = entries[p].fit
  PROVE  AllScored'
BY DEF AllScored, ScoredOf

LEMMA DerivingStays ==
  ASSUME IsFiniteSet(OnBoard), OnBoard' = OnBoard,
         \A p \in OnBoard : entries'[p].model = entries[p].model /\ entries'[p].fit = entries[p].fit,
         NEW s \in Enumerations(OnBoard), NEW todo, Deriving(s, todo)
  PROVE  Deriving(s, todo)'
<1>1. \A i \in DOMAIN s : s[i] \in OnBoard
  BY EnumerationFacts
<1> QED BY <1>1 DEF Deriving

LEMMA DerivingAsIs ==
  ASSUME NEW s, NEW e, NEW todo, todo = task'[e].todo
  PROVE  Deriving(s, todo)' => Deriving(s, task[e].todo)'
BY DEF Deriving

(* A step of an edit that has added nobody, and derives no rank.           *)
LEMMA UnaddedGoes ==
  ASSUME NEW e, DeriveInv(e), failures' = failures, OnBoard' \subseteq OnBoard, ~Adds(e), ~Adds(e)',
         pc'[e] \notin {"positionThenDerive", "derive"},
         \A p \in OnBoard' : entries'[p].model = entries[p].model /\ entries'[p].fit = entries[p].fit,
         pc'[e] = "update" =>
           task'[e].next # "derive" /\ \A t \in task'[e].todo : {"model", "fit"} \cap DOMAIN t.change = {}
  PROVE  DeriveInv(e)'
<1>1. failures = 0 => AllScored'
  BY ScoredStays DEF DeriveInv
<1> QED BY <1>1 DEF DeriveInv

LEMMA BeginKeepsDerived ==
  ASSUME NEW e, Editors = {e}, ShapeInv, DeriveInv(e), NEW u \in Users, Edit(e, u)
  PROVE  DeriveInv(e)'
<1>1. pc[e] = "idle" /\ entries' = entries /\ OnBoard' = OnBoard /\ failures' = failures
      /\ pc'[e] \in {"insert", "delete", "update", "status"}
  BY EditBegins DEF Begins, rows, Moves
<1>2. ~Adds(e)
  BY <1>1 DEF Adds, Logging
<1>3. ASSUME pc'[e] \in Logging => \A ev \in task'[e].events : ev.field # "added",
             pc'[e] = "update" =>
               task'[e].next # "derive" /\ \A t \in task'[e].todo : {"model", "fit"} \cap DOMAIN t.change = {}
      PROVE  DeriveInv(e)'
  <2>1. ~Adds(e)'
    BY <1>3 DEF Adds
  <2> QED BY <1>1, <1>2, <1>3, <2>1, UnaddedGoes
<1>4. ASSUME NEW p, AddProspect(e, u, p) PROVE DeriveInv(e)'
  <2>1. pc'[e] = "insert"
    BY <1>4, AddEffect
  <2> QED BY <1>3, <2>1 DEF Logging
<1>5. ASSUME NEW p, RemoveProspect(e, u, p) PROVE DeriveInv(e)'
  <2> DEFINE ev == RankEvent(u, p, "removed", entries[p].rank, None)
  <2>1. pc'[e] = "delete" /\ task'[e] = [prospect |-> p, events |-> {ev}]
    BY <1>5, RemoveEffect
  <2>2. ev.field # "added"
    BY EventFields
  <2> HIDE DEF ev
  <2>3. task'[e].events = {ev}
    BY <2>1
  <2> QED BY <1>3, <2>1, <2>2, <2>3
<1>6. ASSUME NEW p, NEW change, EditsEntry(e, u, p, change) PROVE DeriveInv(e)'
  <2> DEFINE t == Change(1, p, change)
             S == EntryEvents(u, p, change)
  <2>1. /\ task'[e].todo = {t} /\ task'[e].events = S /\ task'[e].next = "version"
        /\ DOMAIN change \subseteq Told
    BY <1>6, StoreEffect
  <2>2. (\A ev \in S : ev.field # "added") /\ {"model", "fit"} \cap DOMAIN t.change = {}
    BY <2>1, EntryFields, StoredChanges, ToldColumns DEF EntryEvents
  <2> HIDE DEF S, t
  <2> QED BY <1>3, <2>1, <2>2
<1>7. ASSUME NEW s \in [1..Cardinality(OnBoard) -> OnBoard], ReorderBoard(e, u, s) PROVE DeriveInv(e)'
  <2>1. task'[e].todo = Moved(s) /\ task'[e].events = MoveEvents(u, s) /\ task'[e].next = "position"
    BY <1>7, ReorderEffect
  <2>2. \A ev \in MoveEvents(u, s) : ev.field # "added"
    BY EventFields DEF MoveEvents
  <2>3. \A t \in Moved(s) : {"model", "fit"} \cap DOMAIN t.change = {}
    BY MovedChanges
  <2> QED BY <1>3, <2>1, <2>2, <2>3
<1>8. ASSUME NEW status, SetStatus(e, u, status) PROVE DeriveInv(e)'
  <2> DEFINE ev == ValueEvent(u, None, "status", board.status, status)
  <2>1. pc'[e] = "status" /\ task'[e] = [status |-> status, events |-> {ev}]
    BY <1>8, StatusEffect
  <2>2. ev.field # "added"
    BY EventFields
  <2> HIDE DEF ev
  <2>3. task'[e].events = {ev}
    BY <2>1
  <2> QED BY <1>3, <2>1, <2>2, <2>3
<1> QED BY <1>4, <1>5, <1>6, <1>7, <1>8, EditCases

LEMMA ContinueKeepsDerived ==
  ASSUME NEW e, Editors = {e}, ShapeInv, RowsInv, FreeInv(e), DeriveInv(e), Continue(e)
  PROVE  DeriveInv(e)'
<1>1. IsFiniteSet(OnBoard) /\ EditShape(e) /\ OnBoard \subseteq Prospects
  BY BoardIsFinite DEF ShapeInv
<1>2. ASSUME task'[e].events = task[e].events, pc[e] \in Logging, pc'[e] \in Logging
      PROVE  Adds(e)' <=> Adds(e)
  BY <1>2 DEF Adds
<1>3. CASE InsertEntry(e)
  <2> DEFINE ev == RankEvent(task[e].user, task[e].prospect, "added", None, task[e].rank)
  <2>1. pc[e] = "insert" /\ failures' = failures /\ ~Adds(e)
    BY <1>3, InsertEntryEffect DEF Moves, Adds, Logging
  <2>2. CASE pc'[e] = "idle" /\ UNCHANGED <<entries, OnBoard>>
    <3>1. ~Adds(e)'
      BY <2>2 DEF Adds, Logging
    <3> QED BY <2>1, <2>2, <3>1, UnaddedGoes
  <2>3. CASE pc'[e] = "positionThenDerive" /\ task'[e].events = {ev}
    <3>1. ev.field = "added"
      BY EventFields
    <3> HIDE DEF ev
    <3>2. Adds(e)'
      BY <2>3, <3>1 DEF Adds, Logging
    <3> QED BY <2>3, <3>2 DEF DeriveInv, Versioned
  <2> QED BY <1>3, <2>2, <2>3, InsertEntryEffect
<1>4. ASSUME failures = 0, pc[e] \in {"delete", "renumber", "status", "position"} PROVE ~Adds(e)
  BY <1>4 DEF DeriveInv, Versioned
<1>5. ASSUME failures' = failures, failures # 0 PROVE DeriveInv(e)'
  BY <1>5 DEF DeriveInv
<1>6. CASE DeleteEntry(e)
  <2>1. /\ pc[e] = "delete" /\ pc'[e] = "renumber" /\ task'[e].events = task[e].events /\ failures' = failures
        /\ OnBoard' \subseteq OnBoard /\ \A p \in OnBoard' : entries'[p] = entries[p]
    BY <1>6, DeleteEntryEffect DEF Moves
  <2>2. CASE failures = 0
    <3>1. ~Adds(e) /\ ~Adds(e)'
      BY <1>2, <1>4, <2>1, <2>2 DEF Logging
    <3> QED BY <2>1, <3>1, UnaddedGoes
  <2> QED BY <1>5, <2>1, <2>2
<1>7. CASE Renumber(e)
  <2>1. PICK s \in Orders(entries) : task'[e].todo = Moved(s) /\ pc'[e] \in {"position", "update"}
    BY <1>7, RenumberEffect
  <2>2. /\ pc[e] = "renumber" /\ task'[e].events = task[e].events /\ task'[e].next = "position"
        /\ failures' = failures /\ OnBoard' = OnBoard /\ entries' = entries
    BY <1>7, RenumberEffect DEF Moves, rows
  <2>3. \A t \in Moved(s) : {"model", "fit"} \cap DOMAIN t.change = {}
    BY MovedChanges
  <2>4. CASE failures = 0
    <3>1. ~Adds(e) /\ ~Adds(e)'
      BY <1>2, <1>4, <2>1, <2>2, <2>4 DEF Logging
    <3> QED BY <2>1, <2>2, <2>3, <3>1, UnaddedGoes
  <2> QED BY <1>5, <2>2, <2>4
<1>8. CASE Reposition(e)
  <2>1. PICK s \in Orders(entries) :
          task'[e].todo = Positions(s) /\ pc'[e] = IF Positions(s) = {} THEN task'[e].next ELSE "update"
    BY <1>8, RepositionEffect
  <2>2. /\ pc[e] \in {"position", "positionThenDerive"} /\ task'[e].events = task[e].events
        /\ task'[e].next = IF pc[e] = "position" THEN "version" ELSE "derive"
        /\ failures' = failures /\ OnBoard' = OnBoard /\ entries' = entries
    BY <1>8, RepositionEffect DEF Moves, rows
  <2>3. \A t \in Positions(s) : {"model", "fit"} \cap DOMAIN t.change = {}
    BY PositionChanges
  <2>4. CASE failures = 0 /\ pc[e] = "position"
    <3>1. ~Adds(e) /\ ~Adds(e)'
      BY <1>2, <1>4, <2>1, <2>2, <2>4 DEF Logging
    <3> QED BY <2>1, <2>2, <2>3, <2>4, <3>1, UnaddedGoes
  <2>5. CASE failures = 0 /\ pc[e] = "positionThenDerive"
    <3>1. Adds(e)
      BY <2>5 DEF DeriveInv
    <3>2. pc'[e] \in {"derive", "update"} /\ task'[e].next = "derive"
      BY <2>1, <2>2, <2>5
    <3>3. Adds(e)'
      BY <1>2, <2>2, <3>1, <3>2 DEF Logging
    <3> QED BY <3>2, <3>3 DEF DeriveInv, Versioned
  <2> QED BY <1>5, <2>2, <2>4, <2>5
<1>9. CASE Derive(e)
  <2>1. PICK s \in Orders(entries) :
          task'[e].todo = Derived(s) /\ pc'[e] = IF Derived(s) = {} THEN "version" ELSE "update"
    BY <1>9, DeriveEffect
  <2>2. /\ pc[e] = "derive" /\ task'[e].events = task[e].events /\ task'[e].next = "version"
        /\ failures' = failures /\ OnBoard' = OnBoard /\ entries' = entries
    BY <1>9, DeriveEffect DEF Moves, rows
  <2>3. CASE failures = 0
    <3>1. Adds(e)'
      BY <1>2, <2>1, <2>2, <2>3 DEF DeriveInv, Logging
    <3>2. PICK todo : todo = Derived(s)
      OBVIOUS
    <3>3. s \in Enumerations(OnBoard) /\ Deriving(s, todo)
      BY <3>2, OrderIsEnumeration, Derivations
    <3>4. Deriving(s, todo)'
      BY <1>1, <2>2, <3>3, DerivingStays
    <3>5. Deriving(s, task[e].todo)'
      BY <2>1, <3>2, <3>4, DerivingAsIs
    <3>6. todo = {} => AllScored'
      <4>1. todo = {} => AllScored
        BY <1>1, <3>3, DerivedScores
      <4> QED BY <2>2, <4>1, ScoredStays
    <3> QED BY <2>1, <2>2, <3>1, <3>2, <3>3, <3>5, <3>6 DEF DeriveInv, Versioned
  <2> QED BY <1>5, <2>2, <2>3
<1>10. CASE Update(e)
  <2>1. PICK t \in task[e].todo :
           /\ task'[e].todo = task[e].todo \ {t}
           /\ pc'[e] = IF task[e].todo \ {t} = {} THEN task[e].next ELSE "update"
           /\ \A p \in OnBoard : \A f \in Columns :
                entries'[p][f] = IF p = t.prospect /\ f \in DOMAIN t.change THEN t.change[f] ELSE entries[p][f]
    BY <1>10, UpdateRows
  <2>2. /\ pc[e] = "update" /\ OnBoard' = OnBoard /\ task'[e].events = task[e].events /\ task'[e].next = task[e].next
        /\ failures' = failures /\ task[e].next \in {"position", "derive", "version"}
    BY <1>1, <1>10, UpdateEffect DEF Moves, EditShape
  <2>3. Adds(e)' <=> Adds(e)
    BY <1>2, <2>1, <2>2 DEF Logging
  <2>4. CASE failures = 0 /\ ~Adds(e)
    <3>1. task[e].next # "derive" /\ \A c \in task[e].todo : {"model", "fit"} \cap DOMAIN c.change = {}
      BY <2>2, <2>4 DEF DeriveInv
    <3>2. \A p \in OnBoard' : entries'[p].model = entries[p].model /\ entries'[p].fit = entries[p].fit
      BY <2>1, <2>2, <3>1, ColumnsAre
    <3> QED BY <2>1, <2>2, <2>3, <2>4, <3>1, <3>2, UnaddedGoes
  <2>5. CASE failures = 0 /\ Adds(e) /\ task[e].next = "derive"
    BY <2>1, <2>2, <2>3, <2>5 DEF DeriveInv, Versioned
  <2>6. CASE failures = 0 /\ Adds(e) /\ task[e].next # "derive"
    <3>1. task[e].next = "version" /\ \E s \in Enumerations(OnBoard) : Deriving(s, task[e].todo)
      BY <2>2, <2>6 DEF DeriveInv
    <3>2. PICK s \in Enumerations(OnBoard) : Deriving(s, task[e].todo)
      BY <3>1
    <3>3. PICK todo, left : todo = task[e].todo /\ left = task[e].todo \ {t}
      OBVIOUS
    <3>4. Deriving(s, left)'
      BY <1>1, <2>1, <2>2, <3>2, <3>3, UpdateDerives
    <3>5. Deriving(s, task[e].todo)'
      BY <2>1, <3>3, <3>4, DerivingAsIs
    <3>6. left = {} => AllScored'
      <4>1. left = {} => Deriving(s, {})'
        BY <3>4
      <4> QED BY <1>1, <2>2, <3>2, <4>1, DerivedScores
    <3> QED BY <2>1, <2>2, <2>3, <2>6, <3>1, <3>3, <3>5, <3>6 DEF DeriveInv, Versioned
  <2> QED BY <1>5, <2>2, <2>4, <2>5, <2>6
<1>11. CASE WriteStatus(e)
  <2>1. /\ pc[e] = "status" /\ pc'[e] = "version" /\ task'[e].events = task[e].events /\ failures' = failures
        /\ OnBoard' = OnBoard /\ entries' = entries
    BY <1>11, WriteStatusEffect DEF Moves
  <2>2. CASE failures = 0
    <3>1. ~Adds(e) /\ ~Adds(e)'
      BY <1>2, <1>4, <2>1, <2>2 DEF Logging
    <3> QED BY <2>1, <3>1, UnaddedGoes
  <2> QED BY <1>5, <2>1, <2>2
<1>12. CASE ReadVersion(e) \/ BumpVersion(e) \/ InsertVersion(e) \/ InsertSnapshot(e)
  <2>1. /\ pc[e] \in {"version"} \cup Versioned /\ pc'[e] \in Versioned /\ OnBoard' = OnBoard
        /\ task'[e].events = task[e].events /\ Moves(e)
    BY <1>12, ReadVersionEffect, BumpEffect, NoneRefused, InsertSnapshotEffect DEF Versioned
  <2>2. entries' = entries
    BY <1>12 DEF ReadVersion, BumpVersion, InsertVersion, InsertSnapshot, rows
  <2>3. failures = 0 => AllScored'
    BY <2>1, <2>2, ScoredStays DEF DeriveInv
  <2> QED BY <2>1, <2>3 DEF DeriveInv, Moves, Versioned
<1>13. CASE InsertHistory(e)
  <2>1. pc[e] = "log" /\ pc'[e] = "idle" /\ OnBoard' = OnBoard /\ entries' = entries /\ failures' = failures
    BY <1>13, InsertHistoryEffect DEF Moves
  <2>2. failures = 0 => AllScored'
    BY <2>1, ScoredStays DEF DeriveInv, Versioned
  <2>3. ~Adds(e)'
    BY <2>1 DEF Adds, Logging
  <2> QED BY <2>1, <2>2, <2>3 DEF DeriveInv
<1> QED
  BY <1>3, <1>6, <1>7, <1>8, <1>9, <1>10, <1>11, <1>12, <1>13 DEF Continue

LEMMA DeriveKept ==
  ASSUME NEW e, Editors = {e}, ShapeInv, RowsInv, FreeInv(e), DeriveInv(e), [Next]_vars
  PROVE  DeriveInv(e)'
<1>1. ASSUME Else(e) PROVE DeriveInv(e)'
  <2>1. OnBoard' = OnBoard /\ IsFiniteSet(OnBoard)
    BY <1>1, BoardIsFinite DEF Else
  <2>2. \A p \in OnBoard : entries'[p].model = entries[p].model /\ entries'[p].fit = entries[p].fit
    BY <1>1, ColumnsAre DEF Else
  <2>3. CASE pc'[e] = "idle" /\ failures' # 0
    BY <2>3 DEF DeriveInv
  <2>4. CASE pc'[e] = pc[e] /\ task'[e] = task[e]
    <3>1. (failures' = 0 => failures = 0) /\ (Adds(e)' <=> Adds(e))
      BY <1>1, <2>4 DEF Else, Adds
    <3>2. AllScored => AllScored'
      BY <2>1, <2>2, ScoredStays
    <3>3. ASSUME NEW s \in Enumerations(OnBoard), Deriving(s, task[e].todo)
          PROVE  s \in Enumerations(OnBoard') /\ Deriving(s, task[e].todo)'
      <4>1. PICK todo : todo = task[e].todo
        OBVIOUS
      <4>2. Deriving(s, todo)' /\ todo = task'[e].todo
        BY <2>1, <2>2, <2>4, <3>3, <4>1, DerivingStays
      <4> QED BY <2>1, <4>2, DerivingAsIs
    <3> QED BY <2>4, <3>1, <3>2, <3>3 DEF DeriveInv
  <2> QED BY <1>1, <2>3, <2>4 DEF Else
<1> QED BY <1>1, BeginKeepsDerived, ContinueKeepsDerived, ElseSteps

-----------------------------------------------------------------------------
(* The first board.                                                        *)

(* The board made of the first m prospects of FirstOrder.                  *)
LEMMA FirstRows ==
  ASSUME NEW m \in 0..Len(FirstOrder)
  PROVE  /\ DOMAIN SubSeq(FirstOrder, 1, m) = 1..m
         /\ \A i \in 1..m : SubSeq(FirstOrder, 1, m)[i] = FirstOrder[i]
         /\ DOMAIN FirstBoard(m) = Range(SubSeq(FirstOrder, 1, m))
         /\ \A i \in 1..m :
              /\ FirstOrder[i] \in DOMAIN FirstBoard(m)
              /\ DOMAIN FirstBoard(m)[FirstOrder[i]] = Columns
              /\ FirstBoard(m)[FirstOrder[i]].rank = i
              /\ FirstBoard(m)[FirstOrder[i]].position = PositionRank(SubSeq(FirstOrder, 1, m), i)
              /\ FirstBoard(m)[FirstOrder[i]].model = ScoreRank(SubSeq(FirstOrder, 1, m), i, RoleScore)
              /\ FirstBoard(m)[FirstOrder[i]].fit = ScoreRank(SubSeq(FirstOrder, 1, m), i, FitScore)
              /\ \A f \in Told : FirstBoard(m)[FirstOrder[i]][f] = None
<1>1. Len(FirstOrder) \in Nat /\ FirstOrder \in Seq(Prospects) /\ DOMAIN FirstOrder = 1..Len(FirstOrder)
  BY ProspectsAssumption
<1>2. \A i, j \in 1..Len(FirstOrder) : FirstOrder[i] = FirstOrder[j] => i = j
  BY <1>1, ProspectsAssumption DEF IsInjective
<1> DEFINE s == SubSeq(FirstOrder, 1, m)
           values(i) == [position |-> PositionRank(s, i), model |-> ScoreRank(s, i, RoleScore),
                         fit |-> ScoreRank(s, i, FitScore)]
<1>3. DOMAIN s = 1..m /\ \A i \in 1..m : s[i] = FirstOrder[i]
  BY <1>1
<1>4. m \in Nat /\ 1..m \subseteq 1..Len(FirstOrder)
  BY <1>1
<1>5. DOMAIN FirstBoard(m) = Range(s)
  BY DEF FirstBoard
<1>6. ASSUME NEW i \in 1..m
      PROVE  s[i] \in Range(s) /\ FirstBoard(m)[s[i]] = Changed(NewEntry(i), values(i))
  <2>1. s[i] \in Range(s)
    BY <1>3 DEF Range
  <2>2. (CHOOSE j \in DOMAIN s : s[j] = s[i]) = i
    <3>1. \E j \in DOMAIN s : s[j] = s[i]
      BY <1>3
    <3>2. \A j \in DOMAIN s : s[j] = s[i] => j = i
      BY <1>2, <1>3, <1>4
    <3> HIDE DEF s
    <3> QED BY <3>1, <3>2
  <2>3. FirstBoard(m)[s[i]] =
          Changed(NewEntry(CHOOSE j \in DOMAIN s : s[j] = s[i]), values(CHOOSE j \in DOMAIN s : s[j] = s[i]))
    BY <2>1 DEF FirstBoard
  <2> HIDE DEF s, values
  <2> QED BY <2>1, <2>2, <2>3
<1>7. ASSUME NEW i \in 1..m
      PROVE  LET row == Changed(NewEntry(i), values(i)) IN
             /\ DOMAIN row = Columns /\ row.rank = i
             /\ row.position = PositionRank(s, i)
             /\ row.model = ScoreRank(s, i, RoleScore) /\ row.fit = ScoreRank(s, i, FitScore)
             /\ \A f \in Told : row[f] = None
  <2> DEFINE new == values(i)
             x == PositionRank(s, i)
             y == ScoreRank(s, i, RoleScore)
             z == ScoreRank(s, i, FitScore)
  <2>1. DOMAIN new = {"position", "model", "fit"} /\ new.position = x /\ new.model = y /\ new.fit = z
    <3> HIDE DEF x, y, z
    <3>1. new = [position |-> x, model |-> y, fit |-> z]
      BY DEF x, y, z
    <3> HIDE DEF new
    <3> QED BY <3>1
  <2> HIDE DEF new, x, y, z
  <2>2. DOMAIN Changed(NewEntry(i), new) = Columns
    BY DEF Changed, Columns, NewEntry
  <2>3. /\ Changed(NewEntry(i), new).rank = i
        /\ Changed(NewEntry(i), new).position = x
        /\ Changed(NewEntry(i), new).model = y
        /\ Changed(NewEntry(i), new).fit = z
        /\ \A f \in Told : Changed(NewEntry(i), new)[f] = None
    BY <2>1 DEF Changed, NewEntry, Told, ENTRY_FIELDS
  <2> QED BY <2>2, <2>3 DEF new, x, y, z
<1> HIDE DEF values
<1> QED BY <1>3, <1>5, <1>6, <1>7

(* All of it holds of the first board.                                     *)
LEMMA InitIsEdited ==
  ASSUME NEW e, Editors = {e}, Init
  PROVE  RowsInv /\ EditInv(e)
<1> DEFINE n == Len(FirstOrder)
           s == FirstOrder
           First(i) == Logged(RankEvent(None, FirstOrder[i], "added", None, i), i + 1)
<1>1. n \in Nat /\ s \in Seq(Prospects) /\ DOMAIN s = 1..n /\ \A i, j \in 1..n : s[i] = s[j] => i = j
  BY ProspectsAssumption DEF IsInjective
<1>2. SubSeq(s, 1, n) = s
  BY <1>1
<1>3. entries = FirstBoard(n) /\ failures = 0 /\ board = [status |-> "active", version |-> n + 1]
      /\ versions = 1..(n + 1) /\ pc[e] = "idle"
      /\ snapshots = [v \in 1..(n + 1) |-> Snapshot(FirstBoard(v - 1), SubSeq(s, 1, v - 1))]
      /\ history = {First(i) : i \in 1..n}
  BY EditorsRequest DEF Init
<1>4. n \in 0..Len(FirstOrder)
  BY <1>1
<1>5. OnBoard = Range(s)
  BY <1>2, <1>3, <1>4, FirstRows DEF OnBoard
<1>6. \A i \in 1..n :
        /\ DOMAIN entries[s[i]] = Columns /\ entries[s[i]].rank = i
        /\ entries[s[i]].position = PositionRank(s, i)
        /\ entries[s[i]].model = ScoreRank(s, i, RoleScore) /\ entries[s[i]].fit = ScoreRank(s, i, FitScore)
        /\ \A f \in Told : entries[s[i]][f] = None
  <2>1. ASSUME NEW b, b = FirstBoard(n), NEW t, t = SubSeq(s, 1, n)
        PROVE  \A i \in 1..n :
                 /\ DOMAIN b[s[i]] = Columns /\ b[s[i]].rank = i
                 /\ b[s[i]].position = PositionRank(t, i)
                 /\ b[s[i]].model = ScoreRank(t, i, RoleScore) /\ b[s[i]].fit = ScoreRank(t, i, FitScore)
                 /\ \A f \in Told : b[s[i]][f] = None
    BY <1>4, <2>1, FirstRows
  <2> QED BY <1>2, <1>3, <2>1
<1>7. \A p \in OnBoard : \E i \in 1..n : p = s[i]
  BY <1>1, <1>5 DEF Range
<1>8. \A i \in 1..n : /\ First(i).version = i + 1 /\ First(i).field = "added"
                      /\ First(i).prospect = s[i]
  <2> SUFFICES ASSUME NEW i \in 1..n
               PROVE  First(i).version = i + 1 /\ First(i).field = "added" /\ First(i).prospect = s[i]
    OBVIOUS
  <2> DEFINE ev == RankEvent(None, s[i], "added", None, i)
  <2>1. {"field", "user", "prospect"} \subseteq DOMAIN ev /\ ev.field = "added" /\ ev.prospect = s[i]
    BY DEF RankEvent
  <2> HIDE DEF ev
  <2>2. Logged(ev, i + 1).version = i + 1 /\ Logged(ev, i + 1).field = "added" /\ Logged(ev, i + 1).prospect = s[i]
    BY <2>1, LoggedFields
  <2> QED BY <2>2 DEF ev
<1> HIDE DEF n, s, First
<1>9. IsFiniteSet(OnBoard) /\ OnBoard \subseteq Prospects
  BY InitIsVersioned, BoardIsFinite DEF VersionInv, ShapeInv
<1>10. s \in Enumerations(OnBoard) /\ Cardinality(OnBoard) = n
  <2> DEFINE P == 1..n
  <2>1. IsFiniteSet(P) /\ Cardinality(P) = n
    <3>1. IsFiniteSet(1..n) /\ Cardinality(1..n) = IF 1 > n THEN 0 ELSE n - 1 + 1
      BY <1>1, FS_Interval
    <3> QED BY <1>1, <3>1
  <2>2. s \in [P -> OnBoard]
    BY <1>1, <1>5 DEF Range
  <2>3. IsInjective(s)
    BY <1>1 DEF IsInjective
  <2> HIDE DEF P
  <2>4. s \in Bijection(P, OnBoard)
    <3>1. s \in Injection(P, OnBoard)
      BY <2>2, <2>3 DEF Injection, IsInjective
    <3>2. s \in Surjection(P, OnBoard)
      <4>1. \A p \in OnBoard : \E i \in P : s[i] = p
        BY <1>7 DEF P
      <4> QED BY <2>2, <4>1 DEF Surjection
    <3> QED BY <3>1, <3>2 DEF Bijection
  <2>5. Cardinality(OnBoard) = n
    BY <1>9, <2>1, <2>4, FS_Bijection DEF ExistsBijection
  <2> QED BY <2>2, <2>3, <2>5 DEF Enumerations, P
<1>11. DOMAIN s = 1..n
  BY <1>1
<1>12. RankedBy(s) /\ PositionedBy(s)
  BY <1>6, <1>11 DEF RankedBy, PositionedBy
<1>13. RowsInv
  <2>1. \A p \in OnBoard : DOMAIN entries[p] = Columns
    BY <1>6, <1>7
  <2> QED BY <1>3, <2>1 DEF RowsInv
<1>14. OrderInv(e)
  BY <1>3, <1>10, <1>12 DEF OrderInv, Ordered, Logging
<1>15. FreeInv(e)
  <2>1. board.version = n + 1
    BY <1>3
  <2> QED BY <1>1, <1>3, <2>1 DEF FreeInv, NextVersionFree
<1>16. ShowInv(e)
  <2>1. s \in Orders(entries)
    BY <1>9, <1>10, <1>12, RankedIsAnOrder
  <2>2. Shows(Snapshot(entries, s))
    BY <1>9, <2>1, SnapshotShows
  <2>3. board.version = n + 1 /\ n + 1 \in 1..(n + 1) /\ (n + 1) - 1 = n
    BY <1>1, <1>3
  <2>4. snapshots[board.version] = Snapshot(FirstBoard(n), SubSeq(s, 1, n)) /\ board.version \in DOMAIN snapshots
    BY <1>3, <2>3
  <2> QED BY <1>2, <1>3, <2>2, <2>4 DEF ShowInv
<1>17. ExplainInv(e)
  <2> SUFFICES ASSUME NEW p \in OnBoard, NEW f \in Told PROVE Explained(p, f)
    BY <1>3 DEF ExplainInv, Logging
  <2>1. PICK i \in 1..n : p = s[i]
    BY <1>7
  <2>2. First(i) \in About(history, p, f)
    BY <1>3, <1>8, <2>1 DEF About
  <2>3. \A g \in About(history, p, f) : g = First(i)
    <3> SUFFICES ASSUME NEW g \in About(history, p, f) PROVE g = First(i)
      OBVIOUS
    <3>1. g \in history /\ g.prospect = p
      BY DEF About
    <3>2. PICK j \in 1..n : g = First(j)
      BY <1>3, <3>1
    <3>3. i = j
      BY <1>1, <1>8, <2>1, <3>1, <3>2
    <3> QED BY <3>2, <3>3
  <2>4. First(i).version <= First(i).version
    BY <1>1, <1>8
  <2>5. entries[p][f] = Says(First(i), f)
    BY <1>6, <1>8, <2>1 DEF Says
  <2> QED BY <2>2, <2>3, <2>4, <2>5 DEF Explained
<1>18. LockInv(e)
  <2>1. \A h \in history : h.field = "added"
    BY <1>3, <1>8
  <2> QED BY <1>3, <2>1 DEF LockInv, Locks, LockedUntilUnlocked, Logging
<1>19. DeriveInv(e)
  <2>1. Deriving(s, {})
    BY <1>6, <1>11 DEF Deriving
  <2>2. AllScored
    BY <1>9, <1>10, <2>1, DerivedScores
  <2> QED BY <1>3, <2>2 DEF DeriveInv, Adds, Logging
<1> QED BY <1>13, <1>14, <1>15, <1>16, <1>17, <1>18, <1>19 DEF EditInv

(* A step of one editor's board keeps all of it.                           *)
LEMMA NextKeepsEdited ==
  ASSUME NEW e, Editors = {e}, VersionInv, RowsInv, EditInv(e), [Next]_vars
  PROVE  RowsInv' /\ EditInv(e)'
<1>1. ShapeInv /\ OwnVersion(e) /\ OneEditPerVersion
  BY DEF VersionInv
<1>2. RowsInv'
  BY <1>1, RowsKept DEF EditInv
<1>3. OrderInv(e)'
  BY <1>1, OrderKept DEF EditInv
<1>4. FreeInv(e)'
  BY <1>1, FreeKept DEF EditInv
<1>5. ShowInv(e)'
  BY <1>1, ShowKept DEF EditInv
<1>6. ExplainInv(e)'
  BY <1>1, ExplainKept DEF EditInv
<1>7. LockInv(e)'
  BY <1>1, LockKept DEF EditInv
<1>8. DeriveInv(e)'
  BY <1>1, DeriveKept DEF EditInv
<1> QED BY <1>2, <1>3, <1>4, <1>5, <1>6, <1>7, <1>8 DEF EditInv

-----------------------------------------------------------------------------
(* What holds of a board that one editor edits, whatever the prospects,    *)
(* scores, roles and values, however scouts submit rankings meanwhile.     *)

LEMMA EditedOneByOne ==
  ASSUME NEW e, Editors = {e}
  PROVE  Spec => [](VersionInv /\ RowsInv /\ EditInv(e))
<1>1. Init => VersionInv /\ RowsInv /\ EditInv(e)
  BY InitIsVersioned, InitIsEdited
<1>2. VersionInv /\ RowsInv /\ EditInv(e) /\ [Next]_vars => (VersionInv /\ RowsInv /\ EditInv(e))'
  BY NextKeepsVersions, NextKeepsEdited
<1> QED BY <1>1, <1>2, PTL DEF Spec

(* Between edits that went through, ranks number the entries and position  *)
(* ranks number each group along the same order.                           *)
THEOREM EditsKeepOrder ==
  ASSUME NEW e, Editors = {e}
  PROVE  Spec => []BoardInOrder
<1>1. VersionInv /\ RowsInv /\ EditInv(e) => BoardInOrder
  <2> SUFFICES ASSUME VersionInv, EditInv(e), EditorsIdle, failures = 0 PROVE InOrder
    BY DEF BoardInOrder
  <2>1. Ordered /\ IsFiniteSet(OnBoard)
    BY BoardIsFinite DEF VersionInv, EditInv, OrderInv, EditorsIdle
  <2> QED BY <2>1, RankedIsInOrder DEF Ordered
<1> QED BY <1>1, EditedOneByOne, PTL

(* However many edits were cut short before, when a reorder's version is   *)
(* stored the board is in order.                                           *)
THEOREM ReordersHeal ==
  ASSUME NEW e, Editors = {e}
  PROVE  Spec => []ReorderHeals
<1>1. VersionInv /\ RowsInv /\ EditInv(e) => ReorderHeals
  <2> SUFFICES ASSUME VersionInv, EditInv(e), pc[e] = "version", Reorders(e) PROVE InOrder
    BY DEF ReorderHeals, Reorders
  <2>1. Ordered /\ IsFiniteSet(OnBoard)
    BY BoardIsFinite DEF VersionInv, EditInv, OrderInv, OrderSoFar, Logging
  <2> QED BY <2>1, RankedIsInOrder DEF Ordered
<1> QED BY <1>1, EditedOneByOne, PTL

(* However edits are cut short, the next version is free.                  *)
THEOREM NextIsFree ==
  ASSUME NEW e, Editors = {e}
  PROVE  Spec => []NextVersionFree
<1>1. VersionInv /\ RowsInv /\ EditInv(e) => NextVersionFree
  BY DEF EditInv, FreeInv
<1> QED BY <1>1, EditedOneByOne, PTL

(* The last snapshot shows all of the board that a snapshot keeps, as it   *)
(* is, but for the consensus.                                              *)
THEOREM SnapshotsShow ==
  ASSUME NEW e, Editors = {e}
  PROVE  Spec => []SnapshotShowsBoard
<1>1. VersionInv /\ RowsInv /\ EditInv(e) => SnapshotShowsBoard
  BY DEF EditInv, ShowInv, Shows, Shown, SnapshotShowsBoard, EditorsIdle
<1> QED BY <1>1, EditedOneByOne, PTL

(* The last change logged of a field, of however many an edit has changed, *)
(* is what the entry holds.                                                *)
THEOREM HistoryTells ==
  ASSUME NEW e, Editors = {e}
  PROVE  Spec => []HistoryExplains
<1>1. VersionInv /\ RowsInv /\ EditInv(e) => HistoryExplains
  <2> SUFFICES ASSUME VersionInv, EditInv(e), EditorsIdle, failures = 0,
                      NEW p \in OnBoard, NEW f \in Told
               PROVE  LET last == CHOOSE h \in About(history, p, f) :
                                    \A g \in About(history, p, f) : g.version <= h.version
                      IN  entries[p][f] = Says(last, f)
    BY DEF HistoryExplains, Told, Says, About
  <2>1. Explained(p, f) /\ OneEditPerVersion
    BY DEF VersionInv, EditInv, ExplainInv, EditorsIdle
  <2> DEFINE H == About(history, p, f)
             last == CHOOSE h \in H : \A g \in H : g.version <= h.version
  <2>2. PICK h \in H : (\A g \in H : g.version <= h.version) /\ entries[p][f] = Says(h, f)
    BY <2>1 DEF Explained
  <2>3. last \in H /\ \A g \in H : g.version <= last.version
    BY <2>2
  <2>4. \A g \in H : g \in history /\ g.version \in Nat /\ g.field # "rank"
    <3>1. \A g \in H : g \in history /\ g.field \in {f, "added"}
      BY DEF About
    <3>2. f # "rank"
      BY ToldColumns
    <3> QED BY <3>1, <3>2 DEF VersionInv, ShapeInv, HistoryHasSnapshot
  <2> HIDE DEF last, H
  <2>5. last.version = h.version
    BY <2>2, <2>3, <2>4
  <2>6. last = h
    <3>1. last.field \in {f, "added"} /\ h.field \in {f, "added"} /\ "added" \notin ENTRY_FIELDS
      BY <2>2, <2>3 DEF H, About, ENTRY_FIELDS
    <3> QED BY <2>1, <2>2, <2>3, <2>4, <2>5, <3>1 DEF OneEditPerVersion
  <2> QED BY <2>2, <2>6 DEF last, H
<1> QED BY <1>1, EditedOneByOne, PTL

(* What a locked board ranks has changed only after someone who may unlock *)
(* boards made it active again.                                            *)
THEOREM LocksHold ==
  ASSUME NEW e, Editors = {e}
  PROVE  Spec => []LockedUntilUnlocked
<1>1. VersionInv /\ RowsInv /\ EditInv(e) => LockedUntilUnlocked
  BY DEF EditInv, LockInv, LockedUntilUnlocked
<1> QED BY <1>1, EditedOneByOne, PTL

(* A better score is a better derived rank, whatever came and went.        *)
THEOREM ScoresAreRanked ==
  ASSUME NEW e, Editors = {e}
  PROVE  Spec => []ScoresRank
<1>1. VersionInv /\ RowsInv /\ EditInv(e) => ScoresRank
  BY DEF EditInv, DeriveInv, Adds, Logging, EditorsIdle, AllScored, ScoredOf, Better, ScoresRank
<1> QED BY <1>1, EditedOneByOne, PTL

(* What users read off the board: its ranks, between edits that went       *)
(* through, are in order, in each group, and by the scores.                *)
THEOREM RanksAreTold ==
  ASSUME NEW e, Editors = {e}
  PROVE  Spec => []RanksTold
<1> QED BY EditsKeepOrder, ScoresAreRanked, PTL DEF RanksTold

(* What users read in the board's past: its version's snapshot, the        *)
(* history of its entries, and its locks.                                  *)
THEOREM HistoryIsTold ==
  ASSUME NEW e, Editors = {e}
  PROVE  Spec => []HistoryTold
<1> QED BY SnapshotsShow, HistoryTells, LocksHold, PTL DEF HistoryTold

(* Whatever a request that dies leaves behind, a reorder repairs, and the  *)
(* next edit is stored.                                                    *)
THEOREM FailuresAreHealed ==
  ASSUME NEW e, Editors = {e}
  PROVE  Spec => []FailuresHeal
<1> QED BY ReordersHeal, NextIsFree, PTL DEF FailuresHeal

-----------------------------------------------------------------------------
(* The consensus, one scout at a time, whatever edits the board meanwhile. *)

Agreed(p) ==
  consensus[p] = ConsensusOf({u \in Scouts : rankings[p][u] # None}, rankings[p])

ConsensusInv(q) ==
  /\ DOMAIN pc = Requests /\ DOMAIN task = Requests /\ failures \in Nat
  /\ DOMAIN consensus = Prospects /\ DOMAIN rankings = Prospects
  /\ failures = 0 => \A p \in Prospects :
       \/ Agreed(p)
       \/ pc[q] \in {"consensus", "upsert"} /\ task[q].prospect = p
  /\ failures = 0 /\ pc[q] = "upsert" =>
       LET p == task[q].prospect IN
       p \in Prospects => task[q].row = ConsensusOf({u \in Scouts : rankings[p][u] # None}, rankings[p])

LEMMA EditsLeaveConsensus ==
  ASSUME DOMAIN pc = Requests, DOMAIN task = Requests, NEW q \in Submitters, NEW d \in Editors,
         Continue(d) \/ \E u \in Users : Edit(d, u)
  PROVE  UNCHANGED <<rankings, consensus>> /\ Moves(d) /\ pc'[q] = pc[q] /\ task'[q] = task[q]
<1>1. UNCHANGED <<rankings, consensus>> /\ \E label, data : Goto(d, label, data)
  <2>1. CASE Continue(d)
    BY <2>1 DEF Continue, InsertEntry, DeleteEntry, Renumber, Update, Reposition, Derive, WriteStatus, ReadVersion,
             BumpVersion, InsertVersion, InsertSnapshot, InsertHistory, Send, Finish, rows
  <2>2. ASSUME NEW u \in Users, Edit(d, u)
        PROVE  UNCHANGED <<rankings, consensus>> /\ \E label, data : Goto(d, label, data)
    <3>1. ASSUME NEW todo, NEW next, NEW events, Send(d, todo, next, events)
          PROVE  \E label, data : Goto(d, label, data)
      BY <3>1 DEF Send
    <3>2. CASE \E p \in Prospects : AddProspect(d, u, p) \/ RemoveProspect(d, u, p)
      BY <3>2 DEF AddProspect, RemoveProspect, rows
    <3>3. CASE \E p, change : EditsEntry(d, u, p, change)
      BY <3>1, <3>3 DEF EditsEntry, Store, rows
    <3>4. CASE \E s \in [1..Cardinality(OnBoard) -> OnBoard] : ReorderBoard(d, u, s)
      BY <3>1, <3>4 DEF ReorderBoard, rows
    <3>5. CASE \E status \in Statuses : SetStatus(d, u, status)
      BY <3>5 DEF SetStatus, rows
    <3> QED BY <2>2, <3>2, <3>3, <3>4, <3>5, EditCases
  <2> QED BY <2>1, <2>2
<1>2. Moves(d)
  BY <1>1, GotoFacts, EditorsRequest
<1> QED BY <1>1, <1>2, EditorsRequest DEF Moves, Requests

LEMMA RankKeepsConsensus ==
  ASSUME NEW q, Submitters = {q}, ConsensusInv(q), Rank(q)
  PROVE  ConsensusInv(q)'
<1>1. DOMAIN pc = Requests /\ DOMAIN task = Requests /\ q \in Requests /\ failures \in Nat
  BY DEF ConsensusInv, Requests
<1>2. CASE \E u \in Scouts, p \in Prospects, rank \in ScoutRanks : SubmitRanking(q, u, p, rank)
  <2>1. pc[q] = "idle" /\ pc'[q] = "rank" /\ UNCHANGED rows
        /\ DOMAIN pc' = Requests /\ DOMAIN task' = Requests /\ failures' = failures
    BY <1>1, <1>2 DEF SubmitRanking, Goto
  <2> QED BY <2>1 DEF ConsensusInv, Agreed, rows
<1>3. CASE StoreRanking(q)
  <2> DEFINE p == task[q].prospect
             data == [scout |-> task[q].scout, prospect |-> p]
  <2>1. /\ pc[q] = "rank" /\ pc'[q] = "consensus" /\ task'[q] = data
        /\ DOMAIN pc' = Requests /\ DOMAIN task' = Requests /\ failures' = failures
    BY <1>1, <1>3 DEF StoreRanking, Goto
  <2>2. task'[q].prospect = p
    BY <2>1
  <2>3. consensus' = consensus /\ DOMAIN rankings' = DOMAIN rankings
        /\ \A r \in Prospects : r # p => rankings'[r] = rankings[r]
    BY <1>3 DEF StoreRanking, ConsensusInv
  <2> HIDE DEF p
  <2> QED BY <2>1, <2>2, <2>3 DEF ConsensusInv, Agreed
<1>4. CASE ReadRankings(q)
  <2> DEFINE p == task[q].prospect
             row == ConsensusOf(RankingsOf(q), rankings[p])
             data == [prospect |-> p, row |-> row]
  <2>1. /\ pc[q] = "consensus" /\ pc'[q] = "upsert" /\ UNCHANGED rows
        /\ DOMAIN pc' = Requests /\ DOMAIN task' = Requests /\ failures' = failures
    BY <1>1, <1>4 DEF ReadRankings, Goto
  <2>2. task'[q] = data
    BY <1>1, <1>4 DEF ReadRankings, Goto
  <2>3. row = ConsensusOf({u \in Scouts : rankings[p][u] # None}, rankings[p])
    BY DEF RankingsOf
  <2> HIDE DEF row
  <2>4. data.prospect = p /\ data.row = row
    OBVIOUS
  <2> HIDE DEF data, p
  <2>5. rankings' = rankings /\ consensus' = consensus
    BY <2>1 DEF rows
  <2>6. task'[q].prospect = p /\ task'[q].row = row
    BY <2>2, <2>4
  <2>7. failures = 0 => \A r \in Prospects : Agreed(r) \/ r = p
    BY <2>1 DEF ConsensusInv, p
  <2> QED BY <2>1, <2>3, <2>5, <2>6, <2>7 DEF ConsensusInv, Agreed
<1>5. CASE UpsertConsensus(q)
  <2> DEFINE p == task[q].prospect
             row == task[q].row
  <2>1. /\ pc[q] = "upsert" /\ pc'[q] = "cache" /\ rankings' = rankings
        /\ consensus' = [consensus EXCEPT ![p] = row]
        /\ DOMAIN pc' = Requests /\ DOMAIN task' = Requests /\ failures' = failures
    BY <1>1, <1>5 DEF UpsertConsensus, Goto
  <2>2. failures = 0 => \A r \in Prospects : Agreed(r) \/ r = p
    BY <2>1 DEF ConsensusInv
  <2>3. failures = 0 /\ p \in Prospects =>
          row = ConsensusOf({u \in Scouts : rankings[p][u] # None}, rankings[p])
    BY <2>1 DEF ConsensusInv
  <2> HIDE DEF p, row
  <2>4. /\ DOMAIN consensus' = Prospects
        /\ \A r \in Prospects : consensus'[r] = IF r = p THEN row ELSE consensus[r]
    BY <2>1 DEF ConsensusInv
  <2>5. failures = 0 => \A r \in Prospects : Agreed(r)'
    BY <2>1, <2>2, <2>3, <2>4 DEF Agreed
  <2> QED BY <2>1, <2>4, <2>5 DEF ConsensusInv
<1>6. CASE CacheConsensus(q)
  <2>1. /\ pc[q] = "cache" /\ pc'[q] = "idle" /\ rankings' = rankings /\ consensus' = consensus
        /\ DOMAIN pc' = Requests /\ DOMAIN task' = Requests /\ failures' = failures
    BY <1>1, <1>6 DEF CacheConsensus, Finish, Goto
  <2> QED BY <2>1 DEF ConsensusInv, Agreed
<1> QED BY <1>2, <1>3, <1>4, <1>5, <1>6 DEF Rank

(* The consensus stored is that of the rankings stored, between rankings   *)
(* that went through: for any scouts, ranks and editors.                   *)
THEOREM ConsensusIsOfRankings ==
  ASSUME NEW q, Submitters = {q}
  PROVE  Spec => []ConsensusOfRankings
<1>1. Init => ConsensusInv(q)
  <2> SUFFICES ASSUME Init PROVE ConsensusInv(q)
    OBVIOUS
  <2>1. /\ DOMAIN pc = Requests /\ DOMAIN task = Requests /\ failures = 0 /\ pc[q] = "idle"
        /\ DOMAIN consensus = Prospects /\ DOMAIN rankings = Prospects
    BY DEF Init, Requests
  <2>2. ASSUME NEW p \in Prospects PROVE Agreed(p)
    <3>1. consensus[p] = None /\ {u \in Scouts : rankings[p][u] # None} = {}
      BY DEF Init
    <3> QED BY <3>1 DEF Agreed, ConsensusOf
  <2> QED BY <2>1, <2>2 DEF ConsensusInv
<1>2. ConsensusInv(q) /\ [Next]_vars => ConsensusInv(q)'
  <2> SUFFICES ASSUME ConsensusInv(q), [Next]_vars PROVE ConsensusInv(q)'
    OBVIOUS
  <2>1. DOMAIN pc = Requests /\ DOMAIN task = Requests /\ q \in Requests /\ failures \in Nat
    BY DEF ConsensusInv, Requests
  <2>2. ASSUME NEW d \in Editors, Continue(d) \/ \E u \in Users : Edit(d, u) PROVE ConsensusInv(q)'
    <3>1. UNCHANGED <<rankings, consensus>> /\ Moves(d) /\ pc'[q] = pc[q] /\ task'[q] = task[q]
      BY <2>1, <2>2, EditsLeaveConsensus
    <3> QED BY <3>1 DEF ConsensusInv, Agreed, Moves
  <2>3. ASSUME Rank(q) PROVE ConsensusInv(q)'
    BY <2>3, RankKeepsConsensus
  <2>4. ASSUME NEW r \in Requests, Fail(r) PROVE ConsensusInv(q)'
    <3>1. /\ failures' # 0 /\ failures' \in Nat /\ DOMAIN pc' = Requests /\ DOMAIN task' = Requests
          /\ UNCHANGED <<rankings, consensus>>
      BY <2>1, <2>4 DEF Fail, rows
    <3> QED BY <3>1 DEF ConsensusInv
  <2>5. ASSUME UNCHANGED vars PROVE ConsensusInv(q)'
    BY <2>5 DEF ConsensusInv, Agreed, vars, rows
  <2> QED BY <2>2, <2>3, <2>4, <2>5 DEF Next
<1>3. ConsensusInv(q) => ConsensusOfRankings
  BY DEF ConsensusInv, Agreed, ConsensusOfRankings, SubmittersIdle
<1> QED BY <1>1, <1>2, <1>3, PTL DEF Spec

-----------------------------------------------------------------------------
(***************************************************************************)
(* The scouts' desk, for any organizations, users, requests and rights.    *)
(***************************************************************************)
CONSTANTS Orgs, Archetypes, Calls, OrgOf, Kinds, Seasons, MaxOpen

VARIABLES
  members, lines, scores, assigned, reports, lists, listed, assignments, views, audits,
  stage, work  \* where each of the desk's requests stands, and what it goes on with

Desk == INSTANCE Scouting WITH entries <- listed, pc <- stage, task <- work, Requests <- Calls

(* The requests that are made of the desk.                                 *)
KindsAssumption ==
  Kinds \subseteq {"roles", "report", "watch", "new list", "unwatch", "assign", "profile", "save view", "delete view"}

WorkRow(t) ==
  t = [user |-> t.user, org |-> t.org, prospect |-> t.prospect, list |-> t.list, member |-> t.member,
       scout |-> t.scout, todo |-> t.todo, season |-> t.season, version |-> t.version]

(* Labels of the requests about a prospect, who is the organization's own. *)
OfProspects == {"roles", "report", "watch", "new list", "add", "assign", "insert assignment", "profile", "store"}

WorkFits(label, t, ls) ==
  /\ label \notin {"idle", "done"} => WorkRow(t)
  /\ label \in OfProspects => t.user \in Users /\ t.prospect \in Prospects /\ OrgOf[t.prospect] = t.org
  /\ label = "add" => \E l \in ls : l.id = t.list /\ l.org = t.org

WorkInv ==
  /\ stage = [c \in Calls |-> stage[c]]
  /\ work = [c \in Calls |-> work[c]]
  /\ \A c \in Calls : WorkFits(stage[c], work[c], lists)

(* A list has an id of its own: the request's that has made it.            *)
ListInv ==
  /\ \A l \in lists : l.id \in Calls /\ stage[l.id] \in {"add", "audit", "done"}
  /\ \A l, m \in lists : l.id = m.id => l = m

Own(row) == row.org = OrgOf[row.prospect]
OwnReports ==
  {x \in [id : Calls, org : {OrgOf[p] : p \in Prospects}, prospect : Prospects, by : Users, scale : Desk!Scales,
          graded : BOOLEAN] : Own(x)}

OwnRowsInv ==
  /\ reports \in Seq(OwnReports)
  /\ \A a \in assignments : Own(a)
  /\ \A e \in listed : \E l \in lists : l.id = e.list /\ l.org = OrgOf[e.prospect]

DeskInv == WorkInv /\ ListInv /\ OwnRowsInv /\ Desk!ListedOnce

LEMMA WorkKept ==
  ASSUME NEW t, WorkRow(t), NEW x
  PROVE  /\ [t EXCEPT !.list = x] =
              [user |-> t.user, org |-> t.org, prospect |-> t.prospect, list |-> x, member |-> t.member,
               scout |-> t.scout, todo |-> t.todo, season |-> t.season, version |-> t.version]
         /\ [t EXCEPT !.member = x] =
              [user |-> t.user, org |-> t.org, prospect |-> t.prospect, list |-> t.list, member |-> x,
               scout |-> t.scout, todo |-> t.todo, season |-> t.season, version |-> t.version]
         /\ [t EXCEPT !.scout = x] =
              [user |-> t.user, org |-> t.org, prospect |-> t.prospect, list |-> t.list, member |-> t.member,
               scout |-> x, todo |-> t.todo, season |-> t.season, version |-> t.version]
         /\ [t EXCEPT !.todo = x] =
              [user |-> t.user, org |-> t.org, prospect |-> t.prospect, list |-> t.list, member |-> t.member,
               scout |-> t.scout, todo |-> x, season |-> t.season, version |-> t.version]
BY DEF WorkRow

LEMMA LineRead ==
  ASSUME NEW t, WorkRow(t), NEW s, NEW n, NEW a
  PROVE  [t EXCEPT !.season = s, !.version = n, !.todo = a] =
           [user |-> t.user, org |-> t.org, prospect |-> t.prospect, list |-> t.list, member |-> t.member,
            scout |-> t.scout, todo |-> a, season |-> s, version |-> n]
<1> DEFINE u == [t EXCEPT !.season = s]
           v == [u EXCEPT !.version = n]
<1>1. u = [user |-> t.user, org |-> t.org, prospect |-> t.prospect, list |-> t.list, member |-> t.member,
           scout |-> t.scout, todo |-> t.todo, season |-> s, version |-> t.version]
  BY DEF WorkRow
<1>2. v = [user |-> t.user, org |-> t.org, prospect |-> t.prospect, list |-> t.list, member |-> t.member,
           scout |-> t.scout, todo |-> t.todo, season |-> s, version |-> n]
  <2> HIDE DEF u
  <2> QED BY <1>1
<1>3. [v EXCEPT !.todo = a] =
        [user |-> t.user, org |-> t.org, prospect |-> t.prospect, list |-> t.list, member |-> t.member,
         scout |-> t.scout, todo |-> a, season |-> s, version |-> n]
  <2> HIDE DEF v
  <2> QED BY <1>2
<1> QED BY <1>3

LEMMA ListFound ==
  ASSUME ListInv, NEW l \in lists
  PROVE  Desk!OrgOfList(l.id) = l.org
BY DEF ListInv, Desk!OrgOfList

(* The reports: one more, of an own prospect, leaves all own.              *)
LEMMA OwnRows ==
  ASSUME DeskInv
  PROVE  Desk!OwnRowsOnly /\ Desk!ListedOnce
<1>1. \A e \in listed : Desk!OrgOfList(e.list) = OrgOf[e.prospect]
  <2> SUFFICES ASSUME NEW e \in listed PROVE Desk!OrgOfList(e.list) = OrgOf[e.prospect]
    OBVIOUS
  <2>1. PICK l \in lists : l.id = e.list /\ l.org = OrgOf[e.prospect]
    BY DEF DeskInv, OwnRowsInv
  <2> QED BY <2>1, ListFound DEF DeskInv
<1>2. \A i \in DOMAIN reports : Own(reports[i])
  BY DEF DeskInv, OwnRowsInv, OwnReports
<1> QED BY <1>1, <1>2 DEF DeskInv, OwnRowsInv, Own, Desk!OwnRowsOnly

(* One request goes on, and the others stand where they stood.             *)
LEMMA CallMoves ==
  ASSUME WorkInv, NEW c \in Calls, NEW label, NEW data, Desk!Goto(c, label, data)
  PROVE  /\ stage' = [d \in Calls |-> stage'[d]] /\ work' = [d \in Calls |-> work'[d]]
         /\ stage'[c] = label /\ work'[c] = data
         /\ \A d \in Calls : d # c => stage'[d] = stage[d] /\ work'[d] = work[d]
BY DEF WorkInv, Desk!Goto

LEMMA WorkGoesOn ==
  ASSUME WorkInv, NEW c \in Calls, NEW label, NEW data, Desk!Goto(c, label, data),
         lists \subseteq lists', WorkFits(label, data, lists')
  PROVE  WorkInv'
<1>1. \A d \in Calls : WorkFits(stage'[d], work'[d], lists')
  <2> SUFFICES ASSUME NEW d \in Calls PROVE WorkFits(stage'[d], work'[d], lists')
    OBVIOUS
  <2>1. CASE d = c
    BY <2>1, CallMoves
  <2>2. CASE d # c
    BY <2>2, CallMoves DEF WorkInv, WorkFits
  <2> QED BY <2>1, <2>2
<1> QED BY <1>1, CallMoves DEF WorkInv

LEMMA ListsStay ==
  ASSUME WorkInv, ListInv, NEW c \in Calls, NEW label, NEW data, Desk!Goto(c, label, data), lists' = lists,
         stage[c] \in {"add", "audit", "done"} => label \in {"add", "audit", "done"}
  PROVE  ListInv'
BY CallMoves DEF ListInv

LEMMA RowsStay ==
  ASSUME OwnRowsInv, lists \subseteq lists', reports' = reports, assignments' = assignments, listed' \subseteq listed
  PROVE  OwnRowsInv'
BY DEF OwnRowsInv

LEMMA OnceStays ==
  ASSUME Desk!ListedOnce, listed' \subseteq listed
  PROVE  Desk!ListedOnce'
BY DEF Desk!ListedOnce

(* A request that writes none of these rows.                               *)
LEMMA NothingListed ==
  ASSUME DeskInv, NEW c \in Calls, NEW label, NEW data, Desk!Goto(c, label, data),
         UNCHANGED <<lists, reports, assignments, listed>>, WorkFits(label, data, lists),
         stage[c] \in {"add", "audit", "done"} => label \in {"add", "audit", "done"}
  PROVE  DeskInv'
BY WorkGoesOn, ListsStay, RowsStay, OnceStays DEF DeskInv

LEMMA CallBegins ==
  ASSUME KindsAssumption, DeskInv, NEW c \in Calls, Desk!Begin(c)
  PROVE  DeskInv'
<1>1. PICK k \in Kinds, u \in Users, o \in Orgs, p \in Prospects :
        /\ k \in {"roles", "report", "watch", "new list", "assign", "profile"} => Desk!Owned(p, o)
        /\ Desk!Goto(c, k, Desk!Task(u, o, p))
  BY DEF Desk!Begin
<1>2. WorkFits(k, Desk!Task(u, o, p), lists)
  <2>1. WorkRow(Desk!Task(u, o, p))
    BY DEF WorkRow, Desk!Task
  <2>2. Desk!Task(u, o, p).user = u /\ Desk!Task(u, o, p).prospect = p /\ Desk!Task(u, o, p).org = o
    BY DEF Desk!Task
  <2>3. k # "add" /\ (k \in OfProspects => OrgOf[p] = o)
    BY <1>1 DEF Desk!Owned, OfProspects, KindsAssumption
  <2> QED BY <2>1, <2>2, <2>3 DEF WorkFits
<1>3. stage[c] = "idle" /\ UNCHANGED <<lists, reports, assignments, listed>>
  BY DEF Desk!Begin, Desk!tables
<1> QED BY <1>1, <1>2, <1>3, NothingListed

(* The requests that write no list, report or assignment.                  *)
LEMMA OthersWrite ==
  ASSUME DeskInv, NEW c \in Calls,
         \/ Desk!SetScoutRoles(c) \/ Desk!FindWatchlist(c) \/ Desk!FindMember(c) \/ Desk!FindScout(c)
         \/ Desk!SaveView(c) \/ Desk!DeleteView(c) \/ Desk!ReadSeasons(c) \/ Desk!StoreScore(c) \/ Desk!Audit(c)
  PROVE  DeskInv'
<1> DEFINE t == work[c]
<1>1. WorkFits(stage[c], t, lists)
  BY DEF DeskInv, WorkInv
<1>2. CASE Desk!SetScoutRoles(c)
  <2>1. stage[c] = "roles" /\ Desk!Goto(c, "audit", t) /\ UNCHANGED <<lists, reports, assignments, listed>>
    BY <1>2 DEF Desk!SetScoutRoles
  <2>2. WorkFits("audit", t, lists)
    BY <1>1, <2>1 DEF WorkFits, OfProspects
  <2> QED BY <2>1, <2>2, NothingListed
<1>3. CASE Desk!FindWatchlist(c)
  <2>1. stage[c] = "watch" /\ UNCHANGED <<lists, reports, assignments, listed>>
    BY <1>3 DEF Desk!FindWatchlist, Desk!tables
  <2>2. ASSUME NEW l \in lists, l.org = t.org, Desk!Goto(c, "add", [t EXCEPT !.list = l.id]) PROVE DeskInv'
    <3> DEFINE u == [t EXCEPT !.list = l.id]
    <3>1. /\ WorkRow(u) /\ u.user = t.user /\ u.prospect = t.prospect /\ u.org = t.org /\ u.list = l.id
      BY <1>1, <2>1, WorkKept DEF WorkFits, WorkRow
    <3>2. WorkFits("add", u, lists)
      BY <1>1, <2>1, <2>2, <3>1 DEF WorkFits, OfProspects
    <3> HIDE DEF u
    <3> QED BY <2>1, <2>2, <3>2, NothingListed DEF u
  <2>3. ASSUME Desk!Goto(c, "done", None) PROVE DeskInv'
    BY <2>1, <2>3, NothingListed DEF WorkFits, OfProspects
  <2> QED BY <1>3, <2>2, <2>3 DEF Desk!FindWatchlist
<1>4. CASE Desk!FindMember(c)
  <2>1. stage[c] = "unwatch" /\ UNCHANGED <<lists, reports, assignments, listed>>
    BY <1>4 DEF Desk!FindMember, Desk!tables
  <2>2. ASSUME NEW e, Desk!Goto(c, "remove", [t EXCEPT !.member = e]) PROVE DeskInv'
    <3> DEFINE u == [t EXCEPT !.member = e]
    <3>1. WorkRow(u) /\ Desk!Goto(c, "remove", u)
      BY <1>1, <2>1, <2>2, WorkKept DEF WorkFits, WorkRow
    <3> HIDE DEF u
    <3>2. WorkFits("remove", u, lists)
      BY <3>1 DEF WorkFits, OfProspects
    <3> QED BY <2>1, <3>1, <3>2, NothingListed
  <2>3. ASSUME Desk!Goto(c, "done", None) PROVE DeskInv'
    BY <2>1, <2>3, NothingListed DEF WorkFits, OfProspects
  <2> QED BY <1>4, <2>2, <2>3 DEF Desk!FindMember
<1>5. CASE Desk!FindScout(c)
  <2>1. stage[c] = "assign" /\ UNCHANGED <<lists, reports, assignments, listed>>
    BY <1>5 DEF Desk!FindScout, Desk!tables
  <2>2. ASSUME NEW u, Desk!Goto(c, "insert assignment", [t EXCEPT !.scout = u]) PROVE DeskInv'
    <3> DEFINE s == [t EXCEPT !.scout = u]
    <3>1. WorkRow(s) /\ s.user = t.user /\ s.prospect = t.prospect /\ s.org = t.org
      BY <1>1, <2>1, WorkKept DEF WorkFits, WorkRow
    <3>2. WorkFits("insert assignment", s, lists)
      BY <1>1, <2>1, <3>1 DEF WorkFits, OfProspects
    <3>3. Desk!Goto(c, "insert assignment", s)
      BY <2>2
    <3> HIDE DEF s
    <3> QED BY <2>1, <3>2, <3>3, NothingListed
  <2>3. ASSUME Desk!Goto(c, "done", None) PROVE DeskInv'
    BY <2>1, <2>3, NothingListed DEF WorkFits, OfProspects
  <2>4. ASSUME Desk!Goto(c, "insert assignment", t) PROVE DeskInv'
    <3>1. WorkFits("insert assignment", t, lists)
      BY <1>1, <2>1 DEF WorkFits, OfProspects
    <3> QED BY <2>1, <2>4, <3>1, NothingListed
  <2> QED BY <1>5, <2>2, <2>3, <2>4 DEF Desk!FindScout
<1>6. CASE Desk!SaveView(c)
  <2>1. stage[c] = "save view" /\ Desk!Goto(c, "audit", t) /\ UNCHANGED <<lists, reports, assignments, listed>>
    BY <1>6 DEF Desk!SaveView
  <2>2. WorkFits("audit", t, lists)
    BY <1>1, <2>1 DEF WorkFits, OfProspects
  <2> QED BY <2>1, <2>2, NothingListed
<1>7. ASSUME Desk!Goto(c, "done", None), UNCHANGED <<lists, reports, assignments, listed>> PROVE DeskInv'
  BY <1>7, NothingListed DEF WorkFits, OfProspects
<1>8. CASE Desk!DeleteView(c) \/ Desk!Audit(c)
  BY <1>7, <1>8 DEF Desk!DeleteView, Desk!Audit, Desk!tables
<1>9. CASE Desk!ReadSeasons(c)
  <2>1. stage[c] = "profile" /\ UNCHANGED <<lists, reports, assignments, listed>>
    BY <1>9 DEF Desk!ReadSeasons, Desk!tables
  <2>2. ASSUME NEW s, NEW n, NEW a,
               Desk!Goto(c, "store", [t EXCEPT !.season = s, !.version = n, !.todo = a])
        PROVE  DeskInv'
    <3> DEFINE u == [user |-> t.user, org |-> t.org, prospect |-> t.prospect, list |-> t.list,
                     member |-> t.member, scout |-> t.scout, todo |-> a, season |-> s, version |-> n]
    <3>1. [t EXCEPT !.season = s, !.version = n, !.todo = a] = u
      <4>1. WorkRow(t)
        BY <1>1, <2>1 DEF WorkFits
      <4> HIDE DEF t
      <4> QED BY <4>1, LineRead
    <3>2. WorkRow(u) /\ u.user = t.user /\ u.prospect = t.prospect /\ u.org = t.org
      BY DEF WorkRow
    <3>3. Desk!Goto(c, "store", u)
      BY <2>2, <3>1
    <3>4. WorkFits("store", u, lists)
      <4> HIDE DEF u
      <4> QED BY <1>1, <2>1, <3>2 DEF WorkFits, OfProspects
    <3> HIDE DEF u
    <3> QED BY <2>1, <3>3, <3>4, NothingListed
  <2>3. Desk!Goto(c, "done", None) \/ \E s, n, a : Desk!Goto(c, "store", [t EXCEPT !.season = s, !.version = n, !.todo = a])
    BY <1>9 DEF Desk!ReadSeasons
  <2> QED BY <1>7, <2>1, <2>2, <2>3
<1>10. CASE Desk!StoreScore(c)
  <2>1. stage[c] = "store" /\ UNCHANGED <<lists, reports, assignments, listed>>
    BY <1>10 DEF Desk!StoreScore
  <2>2. PICK a : Desk!Goto(c, IF t.todo = {a} THEN "done" ELSE "store", [t EXCEPT !.todo = @ \ {a}])
    BY <1>10 DEF Desk!StoreScore
  <2> DEFINE u == [t EXCEPT !.todo = @ \ {a}]
             label == IF t.todo = {a} THEN "done" ELSE "store"
  <2>3. WorkRow(u) /\ u.user = t.user /\ u.prospect = t.prospect /\ u.org = t.org
    BY <1>1, <2>1, WorkKept DEF WorkFits, WorkRow
  <2>4. Desk!Goto(c, label, u) /\ label \in {"done", "store"}
    BY <2>2
  <2> HIDE DEF u, label
  <2>5. WorkFits(label, u, lists)
    BY <1>1, <2>1, <2>3, <2>4 DEF WorkFits, OfProspects
  <2> QED BY <2>1, <2>4, <2>5, NothingListed
<1> QED BY <1>2, <1>3, <1>4, <1>5, <1>6, <1>8, <1>9, <1>10

(* What the desk writes of its organization's prospects.                   *)
LEMMA DeskWrites ==
  ASSUME DeskInv, NEW c \in Calls,
         \/ Desk!CreateReport(c) \/ Desk!NewWatchlist(c) \/ Desk!AddMember(c) \/ Desk!RemoveMember(c)
         \/ Desk!InsertAssignment(c)
  PROVE  DeskInv'
<1> DEFINE t == work[c]
<1>1. WorkFits(stage[c], t, lists) /\ WorkInv /\ ListInv /\ OwnRowsInv /\ Desk!ListedOnce
  BY DEF DeskInv, WorkInv
<1>2. CASE Desk!CreateReport(c)
  <2>1. /\ stage[c] = "report" /\ Desk!Goto(c, "audit", t)
        /\ lists' = lists /\ assignments' = assignments /\ listed' = listed
    BY <1>2 DEF Desk!CreateReport
  <2>2. PICK scale \in Desk!Scales, graded \in BOOLEAN : reports' = Append(reports, Desk!ReportRow(c, t, scale, graded))
    BY <1>2 DEF Desk!CreateReport
  <2>3. Desk!ReportRow(c, t, scale, graded) \in OwnReports
    BY <1>1, <2>1 DEF WorkFits, OfProspects, OwnReports, Own, Desk!ReportRow
  <2>4. OwnRowsInv'
    BY <1>1, <2>1, <2>2, <2>3 DEF OwnRowsInv
  <2>5. WorkFits("audit", t, lists')
    BY <1>1, <2>1 DEF WorkFits, OfProspects
  <2> QED BY <1>1, <2>1, <2>4, <2>5, WorkGoesOn, ListsStay, OnceStays DEF DeskInv
<1>3. CASE Desk!NewWatchlist(c)
  <2> DEFINE u == [t EXCEPT !.list = c]
             l == Desk!ListRow(c, t)
  <2>1. /\ stage[c] = "new list" /\ lists' = lists \cup {l} /\ Desk!Goto(c, "add", u)
        /\ UNCHANGED <<reports, assignments, listed>>
    BY <1>3 DEF Desk!NewWatchlist
  <2>2. l.id = c /\ l.org = t.org
    BY DEF Desk!ListRow
  <2>3. WorkRow(u) /\ u.user = t.user /\ u.prospect = t.prospect /\ u.org = t.org /\ u.list = c
    BY <1>1, <2>1, WorkKept DEF WorkFits, WorkRow
  <2> HIDE DEF u, l
  <2>4. WorkFits("add", u, lists')
    BY <1>1, <2>1, <2>2, <2>3 DEF WorkFits, OfProspects
  <2>5. WorkInv'
    BY <1>1, <2>1, <2>4, WorkGoesOn
  <2>6. ListInv'
    <3>1. \A k \in lists : k.id # c
      BY <1>1, <2>1 DEF ListInv
    <3>2. stage'[c] = "add" /\ \A d \in Calls : d # c => stage'[d] = stage[d]
      BY <1>1, <2>1, CallMoves
    <3> QED BY <1>1, <2>1, <2>2, <3>1, <3>2 DEF ListInv
  <2> QED BY <1>1, <2>1, <2>5, <2>6, RowsStay, OnceStays DEF DeskInv
<1>4. CASE Desk!AddMember(c)
  <2> DEFINE e == Desk!EntryRow(c, t)
  <2>1. /\ stage[c] = "add" /\ Desk!Goto(c, "audit", t) /\ UNCHANGED <<lists, reports, assignments>>
        /\ listed' = IF Desk!Listed(t.list, t.prospect) # {} THEN listed ELSE listed \cup {e}
    BY <1>4 DEF Desk!AddMember
  <2>2. e.list = t.list /\ e.prospect = t.prospect
    BY DEF Desk!EntryRow
  <2> HIDE DEF e
  <2>3. WorkInv' /\ ListInv'
    <3>1. WorkFits("audit", t, lists')
      BY <1>1, <2>1 DEF WorkFits, OfProspects
    <3> QED BY <1>1, <2>1, <3>1, WorkGoesOn, ListsStay
  <2>4. OwnRowsInv'
    <3>1. \E l \in lists : l.id = e.list /\ l.org = OrgOf[e.prospect]
      BY <1>1, <2>1, <2>2 DEF WorkFits, OfProspects
    <3> QED BY <1>1, <2>1, <3>1 DEF OwnRowsInv
  <2>5. Desk!ListedOnce'
    BY <1>1, <2>1, <2>2 DEF Desk!ListedOnce, Desk!Listed
  <2> QED BY <2>3, <2>4, <2>5 DEF DeskInv
<1>5. CASE Desk!RemoveMember(c)
  <2>1. /\ stage[c] = "remove" /\ Desk!Goto(c, "audit", t) /\ UNCHANGED <<lists, reports, assignments>>
        /\ listed' \subseteq listed
    BY <1>5 DEF Desk!RemoveMember
  <2>2. WorkFits("audit", t, lists')
    BY <1>1, <2>1 DEF WorkFits, OfProspects
  <2> QED BY <1>1, <2>1, <2>2, WorkGoesOn, ListsStay, RowsStay, OnceStays DEF DeskInv
<1>6. CASE Desk!InsertAssignment(c)
  <2>1. /\ stage[c] = "insert assignment" /\ Desk!Goto(c, "audit", t) /\ UNCHANGED <<lists, reports, listed>>
        /\ assignments' = assignments \cup {Desk!AssignmentRow(c, t)}
    BY <1>6 DEF Desk!InsertAssignment
  <2>2. Own(Desk!AssignmentRow(c, t))
    BY <1>1, <2>1 DEF WorkFits, OfProspects, Own, Desk!AssignmentRow
  <2>3. OwnRowsInv'
    BY <1>1, <2>1, <2>2 DEF OwnRowsInv
  <2>4. WorkFits("audit", t, lists')
    BY <1>1, <2>1 DEF WorkFits, OfProspects
  <2> QED BY <1>1, <2>1, <2>3, <2>4, WorkGoesOn, ListsStay, OnceStays DEF DeskInv
<1> QED BY <1>2, <1>3, <1>4, <1>5, <1>6

LEMMA DeskBegins ==
  ASSUME Desk!Init
  PROVE  DeskInv
BY DEF Desk!Init, DeskInv, WorkInv, WorkFits, OfProspects, ListInv, OwnRowsInv, Desk!ListedOnce

LEMMA DeskGoesOn ==
  ASSUME KindsAssumption, DeskInv, Desk!Next
  PROVE  DeskInv'
<1>1. ASSUME UNCHANGED <<lists, reports, assignments, listed, stage, work>> PROVE DeskInv'
  BY <1>1 DEF DeskInv, WorkInv, ListInv, OwnRowsInv, Desk!ListedOnce
<1>2. CASE \E c \in Calls : Desk!Step(c)
  BY <1>2, CallBegins, OthersWrite, DeskWrites DEF Desk!Step
<1>3. CASE \/ \E p \in Prospects, s \in Seasons : Desk!ImportLine(p, s)
           \/ \E u \in Users, o \in Orgs : Desk!Leave(u, o)
  BY <1>1, <1>3 DEF Desk!ImportLine, Desk!Leave, Desk!tables
<1> QED BY <1>2, <1>3 DEF Desk!Next

LEMMA DeskStands ==
  ASSUME KindsAssumption
  PROVE  Desk!Spec => []DeskInv
<1>1. DeskInv /\ UNCHANGED Desk!vars => DeskInv'
  BY DEF Desk!vars, Desk!tables, DeskInv, WorkInv, ListInv, OwnRowsInv, Desk!ListedOnce
<1>2. DeskInv /\ [Desk!Next]_(Desk!vars) => DeskInv'
  BY <1>1, DeskGoesOn
<1> QED BY <1>2, DeskBegins, PTL DEF Desk!Spec

LEMMA ViewDeleted ==
  ASSUME DeskInv, Desk!Next, NEW v \in views \ views'
  PROVE  Desk!DeletedByOwner(v)
<1>1. CASE \/ \E p \in Prospects, s \in Seasons : Desk!ImportLine(p, s)
           \/ \E u \in Users, o \in Orgs : Desk!Leave(u, o)
  BY <1>1 DEF Desk!ImportLine, Desk!Leave, Desk!tables
<1>2. ASSUME NEW c \in Calls, Desk!Step(c) PROVE Desk!DeletedByOwner(v)
  <2>1. Desk!DeleteView(c)
    BY <1>2 DEF Desk!Step, Desk!tables, Desk!Begin, Desk!SetScoutRoles, Desk!CreateReport, Desk!NewWatchlist,
       Desk!FindWatchlist, Desk!AddMember, Desk!FindMember, Desk!RemoveMember, Desk!FindScout, Desk!InsertAssignment,
       Desk!SaveView, Desk!ReadSeasons, Desk!StoreScore, Desk!Audit
  <2>2. /\ stage[c] = "delete view" /\ stage'[c] = "done"
        /\ \E id \in Calls : views' = {x \in views : ~(x.id = id /\ Desk!Deletable(x, work[c]))}
    BY <2>1, CallMoves DEF Desk!DeleteView, DeskInv
  <2>3. work[c].user = v.user
    BY <2>2 DEF Desk!Deletable
  <2> QED BY <2>2, <2>3 DEF Desk!DeletedByOwner
<1> QED BY <1>1, <1>2 DEF Desk!Next

(* No row ties a prospect to another organization than his, requests that  *)
(* cross put a prospect on a watchlist once, and whoever deletes views     *)
(* deletes his own, however many users of however many organizations ask   *)
(* for whatever the desk does.                                             *)
THEOREM DeskKeepsToItsOwn ==
  ASSUME KindsAssumption
  PROVE  Desk!Spec => [](Desk!OwnRowsOnly /\ Desk!ListedOnce) /\ Desk!OwnViewsOnly
<1>1. DeskInv /\ [Desk!Next]_(Desk!vars) => [\A v \in views \ views' : Desk!DeletedByOwner(v)]_(Desk!vars)
  BY ViewDeleted
<1> QED BY <1>1, DeskStands, OwnRows, PTL DEF Desk!Spec, Desk!OwnViewsOnly

-----------------------------------------------------------------------------
(* Role scores: where a visit stands with the scores it has read for.      *)
Scored(x, t, a) == x.prospect = t.prospect /\ x.role = a /\ x.season = t.season

(* A score is stored in the place of the one of its role and season.       *)
LEMMA ScoreUpserted ==
  ASSUME NEW a, NEW t, scores' = Desk!Upsert(Desk!ScoreRow(a, t))
  PROVE  LET row == Desk!ScoreRow(a, t)
         IN  /\ row \in scores' /\ Scored(row, t, a) /\ row.version = t.version
             /\ \A x \in scores' : x = row \/ (x \in scores /\ ~Desk!Same(x, row))
             /\ \A x \in scores : Desk!Same(x, row) \/ x \in scores'
BY DEF Desk!Upsert, Desk!ScoreRow, Desk!Same, Scored

LEMMA ScoreKey ==
  ASSUME NEW a, NEW t, NEW x
  PROVE  Desk!Same(x, Desk!ScoreRow(a, t)) <=> Scored(x, t, a)
BY DEF Desk!ScoreRow, Desk!Same, Scored

(* A step of another kind neither stores a score nor reads for scores.     *)
OtherStep(c) == scores' = scores /\ \E label, data : label # "store" /\ Desk!Goto(c, label, data)

LEMMA OtherSteps ==
  ASSUME KindsAssumption, NEW c \in Calls, Desk!Step(c)
  PROVE  OtherStep(c) \/ Desk!ReadSeasons(c) \/ Desk!StoreScore(c)
<1>1. CASE Desk!Begin(c)
  BY <1>1 DEF Desk!Begin, Desk!tables, KindsAssumption, OtherStep
<1>2. CASE \/ Desk!SetScoutRoles(c) \/ Desk!CreateReport(c) \/ Desk!NewWatchlist(c) \/ Desk!AddMember(c)
           \/ Desk!RemoveMember(c) \/ Desk!InsertAssignment(c) \/ Desk!SaveView(c) \/ Desk!DeleteView(c)
  BY <1>2 DEF OtherStep, Desk!SetScoutRoles, Desk!CreateReport, Desk!NewWatchlist, Desk!AddMember, Desk!RemoveMember,
     Desk!InsertAssignment, Desk!SaveView, Desk!DeleteView
<1>3. CASE Desk!FindWatchlist(c) \/ Desk!FindMember(c) \/ Desk!FindScout(c) \/ Desk!Audit(c)
  BY <1>3 DEF OtherStep, Desk!FindWatchlist, Desk!FindMember, Desk!FindScout, Desk!Audit, Desk!tables
<1> QED BY <1>1, <1>2, <1>3 DEF Desk!Step

(* A visit reads the latest season's line, or there is none.               *)
LEMMA SeasonsRead ==
  ASSUME DeskInv, NEW c \in Calls, Desk!ReadSeasons(c)
  PROVE  /\ scores' = scores /\ stage[c] = "profile"
         /\ \/ Desk!Goto(c, "done", None)
            \/ \E u : /\ Desk!Goto(c, "store", u) /\ u.todo = Desk!Computable(u.version)
<1> DEFINE t == work[c]
<1>1. stage[c] = "profile" /\ scores' = scores
  BY DEF Desk!ReadSeasons, Desk!tables
<1>2. WorkRow(t)
  BY <1>1 DEF DeskInv, WorkInv, WorkFits
<1>3. ASSUME NEW s, NEW n, Desk!Goto(c, "store", [t EXCEPT !.season = s, !.version = n, !.todo = Desk!Computable(n)])
      PROVE  \E u : Desk!Goto(c, "store", u) /\ u.todo = Desk!Computable(u.version)
  <2> DEFINE u == [t EXCEPT !.season = s, !.version = n, !.todo = Desk!Computable(n)]
  <2>1. u.todo = Desk!Computable(n) /\ u.version = n
    <3> HIDE DEF t
    <3> QED BY <1>2, LineRead
  <2> QED BY <1>3, <2>1
<1>4. \/ Desk!Goto(c, "done", None)
      \/ \E s, n : Desk!Goto(c, "store", [t EXCEPT !.season = s, !.version = n, !.todo = Desk!Computable(n)])
  BY DEF Desk!ReadSeasons
<1> QED BY <1>1, <1>3, <1>4

(* A visit stores one score that it has not stored.                        *)
LEMMA ScoreStored ==
  ASSUME DeskInv, NEW c \in Calls, Desk!StoreScore(c)
  PROVE  /\ stage[c] = "store"
         /\ \E a, u :
              /\ a \in work[c].todo /\ scores' = Desk!Upsert(Desk!ScoreRow(a, work[c]))
              /\ Desk!Goto(c, IF work[c].todo = {a} THEN "done" ELSE "store", u)
              /\ u.prospect = work[c].prospect /\ u.season = work[c].season /\ u.version = work[c].version
              /\ u.todo = work[c].todo \ {a}
<1> DEFINE t == work[c]
<1>1. stage[c] = "store"
  BY DEF Desk!StoreScore
<1>2. WorkRow(t)
  BY <1>1 DEF DeskInv, WorkInv, WorkFits
<1>3. PICK a : /\ a \in t.todo /\ scores' = Desk!Upsert(Desk!ScoreRow(a, t))
               /\ Desk!Goto(c, IF t.todo = {a} THEN "done" ELSE "store", [t EXCEPT !.todo = @ \ {a}])
  BY DEF Desk!StoreScore
<1> DEFINE u == [t EXCEPT !.todo = @ \ {a}]
<1>4. u.prospect = t.prospect /\ u.season = t.season /\ u.version = t.version /\ u.todo = t.todo \ {a}
  BY <1>2, WorkKept DEF WorkRow
<1>5. Desk!Goto(c, IF t.todo = {a} THEN "done" ELSE "store", u)
  BY <1>3
<1> HIDE DEF u
<1> QED BY <1>1, <1>3, <1>4, <1>5

(* However visits cross: nothing but what is stored is scored, once.       *)
LEMMA ScoresGoOn ==
  ASSUME KindsAssumption, DeskInv, Desk!OneScorePerRole, Desk!Next
  PROVE  Desk!OneScorePerRole'
<1>1. ASSUME UNCHANGED <<scores, stage, work>> PROVE Desk!OneScorePerRole'
  BY <1>1 DEF Desk!OneScorePerRole
<1>2. ASSUME NEW c \in Calls, Desk!Step(c) PROVE Desk!OneScorePerRole'
  <2>1. ASSUME scores' = scores, NEW label, NEW u, Desk!Goto(c, label, u),
               label = "store" => u.todo = Desk!Computable(u.version)
        PROVE  Desk!OneScorePerRole'
    <3> SUFFICES ASSUME NEW d \in Calls, stage'[d] = "store", NEW a \in Desk!Computable(work'[d].version) \ work'[d].todo
                 PROVE  \E x \in scores : Scored(x, work'[d], a)
      BY <2>1 DEF Desk!OneScorePerRole, Scored
    <3>1. CASE d = c
      BY <2>1, <3>1, CallMoves DEF DeskInv
    <3>2. CASE d # c
      BY <2>1, <3>2, CallMoves DEF DeskInv, Desk!OneScorePerRole, Scored
    <3> QED BY <3>1, <3>2
  <2>2. CASE OtherStep(c)
    BY <2>1, <2>2 DEF OtherStep
  <2>3. CASE Desk!ReadSeasons(c)
    BY <2>1, <2>3, SeasonsRead
  <2>4. CASE Desk!StoreScore(c)
    <3> DEFINE t == work[c]
    <3>1. stage[c] = "store"
      BY <2>4, ScoreStored
    <3>2. PICK a, u : /\ a \in t.todo /\ scores' = Desk!Upsert(Desk!ScoreRow(a, t))
                      /\ Desk!Goto(c, IF t.todo = {a} THEN "done" ELSE "store", u)
                      /\ u.prospect = t.prospect /\ u.season = t.season /\ u.version = t.version
                      /\ u.todo = t.todo \ {a}
      BY <2>4, ScoreStored
    <3> DEFINE row == Desk!ScoreRow(a, t)
    <3>3. /\ row \in scores' /\ Scored(row, t, a)
          /\ \A x \in scores' : x = row \/ (x \in scores /\ ~Desk!Same(x, row))
          /\ \A x \in scores : Desk!Same(x, row) \/ x \in scores'
      BY <3>2, ScoreUpserted
    <3> HIDE DEF row
    <3>4. \A x, y \in scores' : x.prospect = y.prospect /\ x.role = y.role /\ x.season = y.season => x = y
      BY <3>3 DEF Desk!OneScorePerRole, Desk!Same
    <3>5. ASSUME NEW d \in Calls, NEW b, \E x \in scores : Scored(x, work[d], b)
          PROVE  \E x \in scores' : Scored(x, work[d], b)
      BY <3>3, <3>5 DEF Desk!Same, Scored
    <3>6. ASSUME NEW d \in Calls, stage'[d] = "store", NEW b \in Desk!Computable(work'[d].version) \ work'[d].todo
          PROVE  \E x \in scores' : Scored(x, work'[d], b)
      <4>1. CASE d # c
        <5>1. stage'[d] = stage[d] /\ work'[d] = work[d]
          BY <3>2, <4>1, CallMoves DEF DeskInv
        <5>2. \E x \in scores : Scored(x, work[d], b)
          BY <3>6, <5>1 DEF Desk!OneScorePerRole, Scored
        <5> QED BY <3>5, <5>1, <5>2
      <4>2. CASE d = c
        <5>1. work'[c] = u
          BY <3>2, CallMoves DEF DeskInv
        <5>2. CASE b = a
          BY <3>2, <3>3, <4>2, <5>1, <5>2 DEF Scored
        <5>3. CASE b # a
          <6>1. b \in Desk!Computable(t.version) \ t.todo
            BY <3>2, <3>6, <4>2, <5>1, <5>3
          <6>2. \E x \in scores : Scored(x, t, b)
            BY <3>1, <6>1 DEF Desk!OneScorePerRole, Scored
          <6>3. \E x \in scores' : Scored(x, t, b)
            BY <3>5, <6>2
          <6> QED BY <3>2, <4>2, <5>1, <6>3 DEF Scored
        <5> QED BY <5>2, <5>3
      <4> QED BY <4>1, <4>2
    <3> QED BY <3>4, <3>6 DEF Desk!OneScorePerRole, Scored
  <2> QED BY <1>2, <2>2, <2>3, <2>4, OtherSteps
<1>3. CASE \/ \E p \in Prospects, s \in Seasons : Desk!ImportLine(p, s)
           \/ \E u \in Users, o \in Orgs : Desk!Leave(u, o)
  BY <1>1, <1>3 DEF Desk!ImportLine, Desk!Leave, Desk!tables
<1> QED BY <1>2, <1>3 DEF Desk!Next

(* However many visits of a page cross, and whatever is imported           *)
(* meanwhile: a prospect has one score per role and season, and a visit    *)
(* finds a score of each role it is done with.                             *)
THEOREM ScoresAreKeptOnce ==
  ASSUME KindsAssumption
  PROVE  Desk!Spec => []Desk!OneScorePerRole
<1>1. DeskInv /\ Desk!OneScorePerRole /\ [Desk!Next]_(Desk!vars) => Desk!OneScorePerRole'
  <2>1. Desk!OneScorePerRole /\ UNCHANGED Desk!vars => Desk!OneScorePerRole'
    BY DEF Desk!vars, Desk!tables, Desk!OneScorePerRole
  <2> QED BY <2>1, ScoresGoOn
<1>2. Desk!Init => Desk!OneScorePerRole
  BY DEF Desk!Init, Desk!OneScorePerRole
<1> QED BY <1>1, <1>2, DeskStands, PTL DEF Desk!Spec

-----------------------------------------------------------------------------
(* One request at a time: what a visit has stored is of the line it read.  *)
OneCall == MaxOpen = 1 /\ IsFiniteSet(Calls)

Stands(c) == stage[c] \notin {"idle", "done"}

VisitInv ==
  /\ \A c, d \in Calls : Stands(c) /\ Stands(d) => c = d
  /\ \A c \in Calls : stage[c] = "store" =>
       \A a \in Desk!Computable(work[c].version) \ work[c].todo, x \in scores :
         Scored(x, work[c], a) => x.version = work[c].version

(* The desk counts as the standard module does.                            *)
LEMMA DeskCounts ==
  ASSUME NEW S
  PROVE  Desk!Cardinality(S) = Cardinality(S)
BY DEF Desk!Cardinality, Cardinality

LEMMA BeginsAlone ==
  ASSUME OneCall, NEW c \in Calls, Desk!Begin(c)
  PROVE  \A d \in Calls : ~Stands(d)
<1>1. Cardinality(Desk!Open) < 1 /\ Desk!Open \subseteq Calls
  BY DeskCounts DEF OneCall, Desk!Begin, Desk!Open
<1>2. IsFiniteSet(Desk!Open)
  BY <1>1, FS_Subset DEF OneCall
<1>3. Desk!Open = {}
  BY <1>1, <1>2, FS_CardinalityType, FS_EmptySet
<1> QED BY <1>3 DEF Desk!Open, Stands

LEMMA StandsAlone ==
  ASSUME OneCall, DeskInv, VisitInv, NEW c \in Calls, Desk!Step(c)
  PROVE  /\ \A d \in Calls : Stands(d) => d = c
         /\ stage[c] = "store" => Desk!StoreScore(c)
<1>1. Stands(c) \/ Desk!Begin(c)
  BY DEF Stands, Desk!Step, Desk!SetScoutRoles, Desk!CreateReport, Desk!NewWatchlist, Desk!FindWatchlist,
     Desk!AddMember, Desk!FindMember, Desk!RemoveMember, Desk!FindScout, Desk!InsertAssignment, Desk!SaveView,
     Desk!DeleteView, Desk!ReadSeasons, Desk!StoreScore, Desk!Audit
<1>2. stage[c] = "store" => Desk!StoreScore(c)
  BY DEF Desk!Step, Desk!Begin, Desk!SetScoutRoles, Desk!CreateReport, Desk!NewWatchlist, Desk!FindWatchlist,
     Desk!AddMember, Desk!FindMember, Desk!RemoveMember, Desk!FindScout, Desk!InsertAssignment, Desk!SaveView,
     Desk!DeleteView, Desk!ReadSeasons, Desk!Audit
<1> QED BY <1>1, <1>2, BeginsAlone DEF VisitInv

LEMMA VisitsGoOn ==
  ASSUME KindsAssumption, OneCall, DeskInv, VisitInv, NEW c \in Calls, Desk!Step(c)
  PROVE  VisitInv' /\ \A d \in Calls : Desk!Refreshes(d)
<1> DEFINE t == work[c]
<1>1. ASSUME NEW label, NEW u, Desk!Goto(c, label, u)
      PROVE  /\ \A d \in Calls : d # c => stage'[d] = stage[d] /\ ~Stands(d) /\ (stage[d] # "store") /\ (stage'[d] # "store")
             /\ stage'[c] = label /\ work'[c] = u
             /\ (\A d, e \in Calls : Stands(d) /\ Stands(e) => d = e)'
  <2>1. /\ stage'[c] = label /\ work'[c] = u
        /\ \A d \in Calls : d # c => stage'[d] = stage[d]
    BY <1>1, CallMoves DEF DeskInv
  <2> QED BY <2>1, StandsAlone DEF Stands
<1>2. ASSUME NEW label, NEW u, Desk!Goto(c, label, u), stage[c] # "store",
             label = "store" => u.todo = Desk!Computable(u.version)
      PROVE  VisitInv' /\ \A d \in Calls : Desk!Refreshes(d)
  <2>1. VisitInv'
    BY <1>1, <1>2 DEF VisitInv
  <2>2. \A d \in Calls : Desk!Refreshes(d)
    BY <1>1, <1>2 DEF Desk!Refreshes
  <2> QED BY <2>1, <2>2
<1>3. CASE stage[c] = "store"
  <2>1. Desk!StoreScore(c)
    BY <1>3, StandsAlone
  <2>2. PICK a, u : /\ a \in t.todo /\ scores' = Desk!Upsert(Desk!ScoreRow(a, t))
                    /\ Desk!Goto(c, IF t.todo = {a} THEN "done" ELSE "store", u)
                    /\ u.prospect = t.prospect /\ u.season = t.season /\ u.version = t.version
                    /\ u.todo = t.todo \ {a}
    BY <2>1, ScoreStored
  <2> DEFINE row == Desk!ScoreRow(a, t)
  <2>3. /\ Scored(row, t, a) /\ row.version = t.version
        /\ \A x \in scores' : x = row \/ (x \in scores /\ ~Scored(x, t, a))
    BY <2>2, ScoreUpserted, ScoreKey
  <2> HIDE DEF row
  <2>4. \A b \in Desk!Computable(t.version) \ (t.todo \ {a}), x \in scores' :
          Scored(x, t, b) => x.version = t.version
    <3> SUFFICES ASSUME NEW b \in Desk!Computable(t.version) \ (t.todo \ {a}), NEW x \in scores', Scored(x, t, b)
                 PROVE  x.version = t.version
      OBVIOUS
    <3>1. CASE x = row
      BY <2>3, <3>1
    <3>2. CASE x # row
      BY <1>3, <2>3, <3>2 DEF VisitInv, Scored
    <3> QED BY <3>1, <3>2
  <2>5. VisitInv'
    BY <1>1, <2>2, <2>4 DEF VisitInv, Scored
  <2>6. Desk!Refreshes(c)
    <3> SUFFICES ASSUME stage'[c] = "done"
                 PROVE  \A b \in Desk!Computable(t.version), x \in scores' : Scored(x, t, b) => x.version = t.version
      BY DEF Desk!Refreshes, Scored
    <3>1. t.todo = {a}
      BY <1>1, <2>2
    <3> QED BY <2>4, <3>1
  <2>7. \A d \in Calls : d # c => Desk!Refreshes(d)
    BY <1>1, <2>2 DEF Desk!Refreshes
  <2> QED BY <2>5, <2>6, <2>7
<1>4. CASE stage[c] # "store"
  <2>1. CASE OtherStep(c)
    BY <1>2, <1>4, <2>1 DEF OtherStep
  <2>2. CASE Desk!ReadSeasons(c)
    BY <1>2, <1>4, <2>2, SeasonsRead
  <2>3. CASE Desk!StoreScore(c)
    BY <1>4, <2>3 DEF Desk!StoreScore
  <2> QED BY <2>1, <2>2, <2>3, OtherSteps
<1> QED BY <1>3, <1>4

(* A visit of a page that crosses no other request leaves the scores of    *)
(* the line it has read, and none of an older one, whatever is imported    *)
(* meanwhile.                                                              *)
THEOREM VisitsRefresh ==
  ASSUME KindsAssumption, MaxOpen = 1, IsFiniteSet(Calls)
  PROVE  Desk!Spec => Desk!VisitRefreshes
<1>1. Desk!Init => VisitInv
  BY DEF Desk!Init, VisitInv, Stands
<1>2. ASSUME UNCHANGED <<scores, stage, work>>, VisitInv PROVE VisitInv' /\ \A c \in Calls : Desk!Refreshes(c)
  BY <1>2 DEF VisitInv, Stands, Scored, Desk!Refreshes
<1>3. DeskInv /\ VisitInv /\ [Desk!Next]_(Desk!vars) => VisitInv' /\ \A c \in Calls : Desk!Refreshes(c)
  <2>1. UNCHANGED Desk!vars => UNCHANGED <<scores, stage, work>>
    BY DEF Desk!vars, Desk!tables
  <2>2. ASSUME \/ \E p \in Prospects, s \in Seasons : Desk!ImportLine(p, s)
               \/ \E u \in Users, o \in Orgs : Desk!Leave(u, o)
        PROVE  UNCHANGED <<scores, stage, work>>
    BY <2>2 DEF Desk!ImportLine, Desk!Leave, Desk!tables
  <2> QED BY <1>2, <2>1, <2>2, VisitsGoOn DEF Desk!Next, OneCall
<1>4. DeskInv /\ VisitInv /\ [Desk!Next]_(Desk!vars) => [\A r \in Calls : Desk!Refreshes(r)]_(Desk!vars)
  BY <1>3
<1>5. DeskInv /\ VisitInv /\ [Desk!Next]_(Desk!vars) => VisitInv'
  BY <1>3
<1> QED BY <1>1, <1>4, <1>5, DeskStands, PTL DEF Desk!Spec, Desk!VisitRefreshes

-----------------------------------------------------------------------------
(***************************************************************************)
(* The fit runs of a need, for any prospects, contracts, floors and        *)
(* requests, which fail anywhere.                                          *)
(***************************************************************************)
CONSTANTS Contracts, GradeKeys

VARIABLES
  need, floors, eligible, expiring, runs, breakdowns, links,
  depths, cut  \* the runs whose depth snapshots are stored, and how many requests were cut short

Fit == INSTANCE FitRuns WITH snapshots <- depths, failures <- cut, pc <- stage, task <- work, Requests <- Calls

(* Null is no row.                                                         *)
NullAssumption == \A t, c : Fit!ScoreRow(t, c) # None

Running == {"requirements", "gather", "score", "replace", "insert", "snapshots", "unlink", "link", "complete"}
Replacing == {"replace", "insert"}

FitRow(t) ==
  t = [run |-> t.run, form |-> t.form, floors |-> t.floors, todo |-> t.todo, now |-> t.now, scored |-> t.scored]

RunFits(label, t, c, sc, sn) ==
  /\ label \in Running => FitRow(t) /\ t.todo \subseteq Prospects /\ t.scored \subseteq Prospects
  /\ label \in Running => \A p \in t.scored : sc[p] # None
  /\ label \in {"requirements", "gather"} => t.scored = {}
  /\ label \in Replacing => t.now \in t.scored
  /\ label \in {"unlink", "link", "complete"} => c \in sn

TablesInv ==
  /\ stage = [c \in Calls |-> stage[c]] /\ work = [c \in Calls |-> work[c]]
  /\ runs = [c \in Calls |-> runs[c]] /\ scores = [p \in Prospects |-> scores[p]]
  /\ eligible \subseteq Prospects /\ cut \in Nat
  /\ \A c \in Calls : runs[c] # None => runs[c].scored \subseteq Prospects

(* A score without a breakdown is one whose breakdown is being replaced,   *)
(* unless a request was cut short.                                         *)
Replaced(p) == \E c \in Calls : stage[c] \in Replacing /\ work[c].now = p

ExplainedInv ==
  cut = 0 => \A p \in Prospects : scores[p] # None => Replaced(p) \/ \E b \in breakdowns : b.of = p

FitInv ==
  /\ TablesInv
  /\ \A c \in Calls : RunFits(stage[c], work[c], c, scores, depths)
  /\ ExplainedInv /\ Fit!CompleteIsWhole

LEMMA FloorsKept ==
  ASSUME NEW t, FitRow(t), NEW x
  PROVE  LET u == [t EXCEPT !.floors = x]
         IN  FitRow(u) /\ u.todo = t.todo /\ u.scored = t.scored
<1> DEFINE a == [run |-> t.run, form |-> t.form, floors |-> x, todo |-> t.todo, now |-> t.now, scored |-> t.scored]
<1>1. [t EXCEPT !.floors = x] = a
  BY DEF FitRow
<1>2. FitRow(a) /\ a.todo = t.todo /\ a.scored = t.scored
  BY DEF FitRow
<1> HIDE DEF a
<1> QED BY <1>1, <1>2

LEMMA TodoKept ==
  ASSUME NEW t, FitRow(t), NEW x
  PROVE  LET u == [t EXCEPT !.todo = x]
         IN  FitRow(u) /\ u.todo = x /\ u.scored = t.scored
<1> DEFINE a == [run |-> t.run, form |-> t.form, floors |-> t.floors, todo |-> x, now |-> t.now, scored |-> t.scored]
<1>1. [t EXCEPT !.todo = x] = a
  BY DEF FitRow
<1>2. FitRow(a) /\ a.todo = x /\ a.scored = t.scored
  BY DEF FitRow
<1> HIDE DEF a
<1> QED BY <1>1, <1>2

LEMMA ScoredKept ==
  ASSUME NEW t, FitRow(t), NEW p
  PROVE  LET u == [t EXCEPT !.todo = @ \ {p}, !.now = p, !.scored = @ \cup {p}]
         IN  /\ FitRow(u) /\ u.todo = t.todo \ {p} /\ u.now = p /\ u.scored = t.scored \cup {p}
             /\ u.run = t.run /\ u.form = t.form /\ u.floors = t.floors
<1> DEFINE a == t.todo \ {p}
           s == t.scored \cup {p}
           b == [run |-> t.run, form |-> t.form, floors |-> t.floors, todo |-> a, now |-> t.now, scored |-> t.scored]
           d == [run |-> t.run, form |-> t.form, floors |-> t.floors, todo |-> a, now |-> p, scored |-> t.scored]
           e == [run |-> t.run, form |-> t.form, floors |-> t.floors, todo |-> a, now |-> p, scored |-> s]
           b1 == [t EXCEPT !.todo = a]
           d1 == [b1 EXCEPT !.now = p]
<1>1. b1 = b
  BY DEF FitRow
<1>2. d1 = d
  <2> HIDE DEF b1
  <2> QED BY <1>1
<1>3. [d1 EXCEPT !.scored = s] = e
  <2> HIDE DEF d1
  <2> QED BY <1>2
<1>4. [t EXCEPT !.todo = @ \ {p}, !.now = p, !.scored = @ \cup {p}] = [d1 EXCEPT !.scored = s]
  BY DEF FitRow
<1>5. /\ FitRow(e) /\ e.todo = a /\ e.now = p /\ e.scored = s
      /\ e.run = t.run /\ e.form = t.form /\ e.floors = t.floors
  BY DEF FitRow
<1> HIDE DEF e, d1
<1> QED BY <1>3, <1>4, <1>5

LEMMA RunMoves ==
  ASSUME TablesInv, NEW c \in Calls, NEW label, NEW data, Fit!Goto(c, label, data)
  PROVE  /\ stage' = [d \in Calls |-> stage'[d]] /\ work' = [d \in Calls |-> work'[d]]
         /\ stage'[c] = label /\ work'[c] = data /\ cut' = cut
         /\ \A d \in Calls : d # c => stage'[d] = stage[d] /\ work'[d] = work[d]
BY DEF TablesInv, Fit!Goto

(* One request goes on and the rows keep: all the requests stand.          *)
LEMMA RunsStand ==
  ASSUME FitInv, NEW c \in Calls, NEW label, NEW data,
         stage'[c] = label, work'[c] = data, \A d \in Calls : d # c => stage'[d] = stage[d] /\ work'[d] = work[d],
         \A p \in Prospects : scores[p] # None => scores'[p] # None,
         depths \subseteq depths', RunFits(label, data, c, scores', depths')
  PROVE  \A d \in Calls : RunFits(stage'[d], work'[d], d, scores', depths')
<1> SUFFICES ASSUME NEW d \in Calls, d # c PROVE RunFits(stage[d], work[d], d, scores', depths')
  OBVIOUS
<1>1. RunFits(stage[d], work[d], d, scores, depths)
  BY DEF FitInv
<1> QED BY <1>1 DEF RunFits

(* A request that neither leaves nor reaches a run's rows.                 *)
Aside(c) ==
  /\ stage[c] \notin Running /\ UNCHANGED <<eligible, runs, scores, breakdowns, depths, links>>
  /\ \E label, data : label \notin Running /\ Fit!Goto(c, label, data)

LEMMA AsideSteps ==
  ASSUME NEW c \in Calls,
         \/ Fit!CreateNeed(c) \/ Fit!UpdateNeed(c) \/ Fit!ClearFloors(c) \/ Fit!InsertFloors(c)
         \/ Fit!ReadActive(c) \/ Fit!Toggle(c) \/ Fit!AuditAndEnd(c)
  PROVE  Aside(c)
<1>1. CASE Fit!CreateNeed(c) \/ Fit!UpdateNeed(c)
  BY <1>1 DEF Aside, Running, Fit!CreateNeed, Fit!UpdateNeed, Fit!Begin, Fit!world, Fit!result
<1>2. CASE Fit!ClearFloors(c)
  <2>1. stage[c] = "clear" /\ UNCHANGED <<eligible, runs, scores, breakdowns, depths, links>>
    BY <1>2 DEF Fit!ClearFloors, Fit!world, Fit!result
  <2>2. Fit!Goto(c, "audit", None) \/ Fit!Goto(c, "floors", work[c])
    BY <1>2 DEF Fit!ClearFloors
  <2> QED BY <2>1, <2>2 DEF Aside, Running
<1>3. CASE Fit!InsertFloors(c)
  <2>1. stage[c] = "floors" /\ UNCHANGED <<eligible, runs, scores, breakdowns, depths, links>>
    BY <1>3 DEF Fit!InsertFloors, Fit!world, Fit!result
  <2>2. Fit!Goto(c, "failed", None) \/ Fit!Goto(c, "audit", None)
    BY <1>3 DEF Fit!InsertFloors
  <2> QED BY <2>1, <2>2 DEF Aside, Running
<1>4. CASE Fit!ReadActive(c) \/ Fit!Toggle(c) \/ Fit!AuditAndEnd(c)
  BY <1>4 DEF Aside, Running, Fit!ReadActive, Fit!Toggle, Fit!AuditAndEnd, Fit!Begin, Fit!world, Fit!result
<1> QED BY <1>1, <1>2, <1>3, <1>4

(* A request that reads for a run, or links for it.                        *)
ReadsOn(c) ==
  \E label, u :
    /\ Fit!Goto(c, label, u) /\ label \in Running \ Replacing /\ stage[c] \notin Replacing
    /\ UNCHANGED <<scores, breakdowns, depths>> /\ eligible' = eligible
    /\ runs' = runs \/ runs' = [runs EXCEPT ![c] = Fit!RunRow("running", {})]
    /\ RunFits(label, u, c, scores, depths)
    /\ \/ links' = links /\ label # "link"
       \/ links' = {} /\ label = "link"
       \/ links' = links \cup Fit!LinkRows(expiring, c) /\ stage[c] = "link" /\ label # "link"
    /\ u.scored = {} \/ (u = work[c] /\ stage[c] \in Running)

LEMMA RunReads ==
  ASSUME FitInv, NEW c \in Calls,
         \/ Fit!RunFit(c) \/ Fit!ComputeFit(c) \/ Fit!ReadRequirements(c) \/ Fit!Gather(c)
         \/ Fit!DeleteLinks(c) \/ Fit!InsertLinks(c)
  PROVE  ReadsOn(c)
<1> DEFINE t == work[c]
<1>1. RunFits(stage[c], t, c, scores, depths) /\ eligible \subseteq Prospects
  BY DEF FitInv, TablesInv
<1>2. ASSUME NEW n, NEW run, NEW todo \in SUBSET Prospects, Fit!Begin(c, n, "requirements", Fit!Task(run, todo)),
             UNCHANGED <<scores, breakdowns, depths, runs, eligible, links>>
      PROVE  ReadsOn(c)
  <2> DEFINE u == Fit!Task(run, todo)
  <2>1. FitRow(u) /\ u.todo = todo /\ u.scored = {}
    BY DEF FitRow, Fit!Task
  <2>2. stage[c] = "idle" /\ Fit!Goto(c, "requirements", u)
    BY <1>2 DEF Fit!Begin
  <2> HIDE DEF u
  <2>3. RunFits("requirements", u, c, scores, depths)
    BY <2>1 DEF RunFits, Running, Replacing
  <2> QED BY <1>2, <2>1, <2>2, <2>3 DEF ReadsOn, Running, Replacing
<1>3. CASE Fit!RunFit(c)
  BY <1>2, <1>3 DEF Fit!RunFit, Fit!world, Fit!result
<1>4. CASE Fit!ComputeFit(c)
  BY <1>2, <1>4 DEF Fit!ComputeFit, Fit!world, Fit!result
<1>5. CASE Fit!ReadRequirements(c)
  <2> DEFINE u == [t EXCEPT !.floors = floors]
  <2>1. /\ stage[c] = "requirements" /\ UNCHANGED <<scores, breakdowns, depths, eligible, links>>
        /\ runs' = runs \/ runs' = [runs EXCEPT ![c] = Fit!RunRow("running", {})]
    BY <1>5 DEF Fit!ReadRequirements, Fit!world
  <2>2. Fit!Goto(c, "score", u) \/ Fit!Goto(c, "gather", u)
    BY <1>5 DEF Fit!ReadRequirements
  <2>3. FitRow(t) /\ t.scored = {} /\ t.todo \subseteq Prospects
    BY <1>1, <2>1 DEF RunFits, Running
  <2>4. FitRow(u) /\ u.todo = t.todo /\ u.scored = t.scored
    <3> HIDE DEF t
    <3> QED BY <2>3, FloorsKept
  <2> HIDE DEF u
  <2>5. RunFits("score", u, c, scores, depths) /\ RunFits("gather", u, c, scores, depths)
    BY <2>3, <2>4 DEF RunFits, Running, Replacing
  <2> QED BY <2>1, <2>2, <2>3, <2>5, <2>4 DEF ReadsOn, Running, Replacing
<1>6. CASE Fit!Gather(c)
  <2> DEFINE u == [t EXCEPT !.todo = eligible]
  <2>1. stage[c] = "gather" /\ UNCHANGED <<scores, breakdowns, depths, eligible, runs, links>> /\ Fit!Goto(c, "score", u)
    BY <1>6 DEF Fit!Gather, Fit!world, Fit!result
  <2>2. FitRow(t) /\ t.scored = {}
    BY <1>1, <2>1 DEF RunFits, Running
  <2>3. FitRow(u) /\ u.todo = eligible /\ u.scored = {}
    <3> HIDE DEF t
    <3> QED BY <2>2, TodoKept
  <2> HIDE DEF u
  <2>4. RunFits("score", u, c, scores, depths)
    BY <1>1, <2>3 DEF RunFits, Running, Replacing
  <2> QED BY <2>1, <2>3, <2>4 DEF ReadsOn, Running, Replacing
<1>7. CASE Fit!DeleteLinks(c)
  <2>1. /\ stage[c] = "unlink" /\ UNCHANGED <<scores, breakdowns, depths, eligible, runs>> /\ links' = {}
        /\ Fit!Goto(c, "link", t)
    BY <1>7 DEF Fit!DeleteLinks, Fit!world
  <2>2. RunFits("link", t, c, scores, depths)
    BY <1>1, <2>1 DEF RunFits, Running, Replacing
  <2> QED BY <2>1, <2>2 DEF ReadsOn, Running, Replacing
<1>8. CASE Fit!InsertLinks(c)
  <2>1. /\ stage[c] = "link" /\ UNCHANGED <<scores, breakdowns, depths, eligible, runs>>
        /\ links' = links \cup Fit!LinkRows(expiring, c) /\ Fit!Goto(c, "complete", t)
    BY <1>8 DEF Fit!InsertLinks, Fit!world
  <2>2. RunFits("complete", t, c, scores, depths)
    BY <1>1, <2>1 DEF RunFits, Running, Replacing
  <2> QED BY <2>1, <2>2 DEF ReadsOn, Running, Replacing
<1> QED BY <1>5, <1>6, <1>7, <1>8, <1>3, <1>4

(* A score is stored, and its breakdown is to be replaced.                 *)
LEMMA ScoreWritten ==
  ASSUME FitInv, NEW c \in Calls, Fit!UpsertScore(c)
  PROVE  /\ stage[c] = "score" /\ UNCHANGED <<eligible, runs, breakdowns, depths, links>>
         /\ \E p \in Prospects : \E u :
              /\ Fit!Goto(c, "replace", u) /\ FitRow(u) /\ u.todo \subseteq Prospects
              /\ u.now = p /\ u.scored = work[c].scored \cup {p}
              /\ Fit!ScoreRow(u, c) = Fit!ScoreRow(work[c], c)
              /\ scores' = [scores EXCEPT ![p] = Fit!ScoreRow(work[c], c)]
<1> DEFINE t == work[c]
<1>1. stage[c] = "score" /\ UNCHANGED <<eligible, runs, breakdowns, depths, links>>
  BY DEF Fit!UpsertScore, Fit!world
<1>2. FitRow(t) /\ t.todo \subseteq Prospects
  BY <1>1 DEF FitInv, RunFits, Running
<1>3. PICK p \in t.todo :
        /\ scores' = [scores EXCEPT ![p] = Fit!ScoreRow(t, c)]
        /\ Fit!Goto(c, "replace", [t EXCEPT !.todo = @ \ {p}, !.now = p, !.scored = @ \cup {p}])
  BY DEF Fit!UpsertScore
<1> DEFINE u == [t EXCEPT !.todo = @ \ {p}, !.now = p, !.scored = @ \cup {p}]
<1>4. /\ FitRow(u) /\ u.todo = t.todo \ {p} /\ u.now = p /\ u.scored = t.scored \cup {p}
      /\ u.run = t.run /\ u.form = t.form /\ u.floors = t.floors
  <2> HIDE DEF t
  <2> QED BY <1>2, ScoredKept
<1>5. Fit!Goto(c, "replace", u)
  BY <1>3
<1> HIDE DEF u
<1>6. Fit!ScoreRow(u, c) = Fit!ScoreRow(t, c)
  BY <1>4 DEF Fit!ScoreRow
<1> QED BY <1>1, <1>2, <1>3, <1>4, <1>5, <1>6

LEMMA BreakdownReplaced ==
  ASSUME NEW c \in Calls, Fit!DeleteBreakdown(c) \/ Fit!InsertBreakdown(c)
  PROVE  /\ stage[c] \in Replacing /\ UNCHANGED <<eligible, runs, scores, depths, links>>
         /\ \/ /\ stage[c] = "replace" /\ Fit!Goto(c, "insert", work[c])
               /\ breakdowns' = {b \in breakdowns : b.of # work[c].now}
            \/ /\ stage[c] = "insert"
               /\ \E label \in {"score", "audit", "snapshots"} : Fit!Goto(c, label, work[c])
               /\ breakdowns' = breakdowns \cup {Fit!BreakdownRow(work[c].now, c)}
<1>1. CASE Fit!DeleteBreakdown(c)
  BY <1>1 DEF Fit!DeleteBreakdown, Fit!world, Replacing
<1>2. CASE Fit!InsertBreakdown(c)
  BY <1>2 DEF Fit!InsertBreakdown, Fit!world, Replacing
<1> QED BY <1>1, <1>2

LEMMA RunEnds ==
  ASSUME NEW c \in Calls, Fit!InsertSnapshots(c) \/ Fit!CompleteRun(c)
  PROVE  /\ stage[c] \in Running \ Replacing /\ UNCHANGED <<eligible, scores, breakdowns, links>>
         /\ \/ /\ Fit!Goto(c, "unlink", work[c]) /\ depths' = depths \cup {c} /\ runs' = runs
            \/ /\ stage[c] = "complete" /\ Fit!Goto(c, "audit", work[c]) /\ depths' = depths
               /\ runs' = [runs EXCEPT ![c] = Fit!RunRow("complete", work[c].scored)]
<1>1. CASE Fit!InsertSnapshots(c)
  BY <1>1 DEF Fit!InsertSnapshots, Fit!world, Running, Replacing
<1>2. CASE Fit!CompleteRun(c)
  BY <1>2 DEF Fit!CompleteRun, Fit!world, Running, Replacing
<1> QED BY <1>1, <1>2

LEMMA StaysExplained ==
  ASSUME FitInv, NEW c \in Calls, cut' = cut, scores' = scores, breakdowns \subseteq breakdowns',
         stage[c] \notin Replacing \/ \E b \in breakdowns' : b.of = work[c].now,
         \A d \in Calls : d # c => stage'[d] = stage[d] /\ work'[d] = work[d]
  PROVE  ExplainedInv'
<1> SUFFICES ASSUME cut = 0, NEW p \in Prospects, scores[p] # None, ~\E b \in breakdowns' : b.of = p
             PROVE  \E d \in Calls : stage'[d] \in Replacing /\ work'[d].now = p
  BY DEF ExplainedInv, Replaced
<1>1. PICK d \in Calls : stage[d] \in Replacing /\ work[d].now = p
  BY DEF FitInv, ExplainedInv, Replaced
<1> QED BY <1>1

LEMMA StaysWhole ==
  ASSUME FitInv, \A p \in Prospects : scores[p] # None => scores'[p] # None, depths \subseteq depths',
         runs' = runs \/ \E c \in Calls : runs' = [runs EXCEPT ![c] = Fit!RunRow("running", {})]
  PROVE  /\ Fit!CompleteIsWhole' /\ runs' = [c \in Calls |-> runs'[c]]
         /\ \A c \in Calls : runs'[c] # None => runs'[c].scored \subseteq Prospects
BY DEF FitInv, TablesInv, Fit!CompleteIsWhole, Fit!RunRow

(* Every step of a request, and every change beside it.                    *)
LEMMA FitStepGoesOn ==
  ASSUME NullAssumption, FitInv, NEW c \in Calls, Fit!Step(c)
  PROVE  FitInv'
<1> DEFINE t == work[c]
<1>1. TablesInv /\ RunFits(stage[c], t, c, scores, depths)
  BY DEF FitInv
<1>2. ASSUME Aside(c) PROVE FitInv'
  <2>1. PICK label, data : label \notin Running /\ Fit!Goto(c, label, data)
    BY <1>2 DEF Aside
  <2>2. stage[c] \notin Replacing /\ UNCHANGED <<eligible, runs, scores, breakdowns, depths>>
    BY <1>2 DEF Aside, Running, Replacing
  <2>3. RunFits(label, data, c, scores, depths)
    BY <2>1 DEF RunFits, Running, Replacing
  <2>4. (\A d \in Calls : RunFits(stage[d], work[d], d, scores, depths))'
    BY <1>1, <2>1, <2>2, <2>3, RunMoves, RunsStand
  <2>5. ExplainedInv' /\ Fit!CompleteIsWhole'
    BY <1>1, <2>1, <2>2, RunMoves, StaysExplained, StaysWhole
  <2>6. TablesInv'
    BY <1>1, <2>1, <2>2, RunMoves DEF TablesInv
  <2> QED BY <2>4, <2>5, <2>6 DEF FitInv
<1>3. ASSUME ReadsOn(c) PROVE FitInv'
  <2>1. PICK label, u :
          /\ Fit!Goto(c, label, u) /\ stage[c] \notin Replacing
          /\ UNCHANGED <<scores, breakdowns, depths>> /\ eligible' = eligible
          /\ runs' = runs \/ runs' = [runs EXCEPT ![c] = Fit!RunRow("running", {})]
          /\ RunFits(label, u, c, scores, depths)
    BY <1>3 DEF ReadsOn
  <2>2. (\A d \in Calls : RunFits(stage[d], work[d], d, scores, depths))'
    BY <1>1, <2>1, RunMoves, RunsStand
  <2>3. ExplainedInv'
    BY <1>1, <2>1, RunMoves, StaysExplained
  <2>4. /\ Fit!CompleteIsWhole' /\ runs' = [d \in Calls |-> runs'[d]]
        /\ \A d \in Calls : runs'[d] # None => runs'[d].scored \subseteq Prospects
    BY <2>1, StaysWhole
  <2>5. TablesInv'
    BY <1>1, <2>1, <2>4, RunMoves DEF TablesInv
  <2> QED BY <2>2, <2>3, <2>4, <2>5 DEF FitInv
<1>4. CASE Fit!UpsertScore(c)
  <2>1. stage[c] = "score" /\ UNCHANGED <<eligible, runs, breakdowns, depths>>
    BY <1>4, ScoreWritten
  <2>2. PICK p \in Prospects : \E u :
          /\ Fit!Goto(c, "replace", u) /\ FitRow(u) /\ u.todo \subseteq Prospects
          /\ u.now = p /\ u.scored = t.scored \cup {p}
          /\ scores' = [scores EXCEPT ![p] = Fit!ScoreRow(t, c)]
    BY <1>4, ScoreWritten
  <2>3. PICK u :
          /\ Fit!Goto(c, "replace", u) /\ FitRow(u) /\ u.todo \subseteq Prospects
          /\ u.now = p /\ u.scored = t.scored \cup {p}
          /\ scores' = [scores EXCEPT ![p] = Fit!ScoreRow(t, c)]
    BY <2>2
  <2>4. \A q \in Prospects : scores'[q] = IF q = p THEN Fit!ScoreRow(t, c) ELSE scores[q]
    BY <1>1, <2>3 DEF TablesInv
  <2>5. \A q \in Prospects : (q = p \/ scores[q] # None) => scores'[q] # None
    BY <2>4 DEF NullAssumption
  <2>6. RunFits("replace", u, c, scores', depths')
    BY <1>1, <2>1, <2>3, <2>5 DEF RunFits, Running, Replacing
  <2>7. (\A d \in Calls : RunFits(stage[d], work[d], d, scores, depths))'
    <3>1. stage'[c] = "replace" /\ work'[c] = u /\ \A d \in Calls : d # c => stage'[d] = stage[d] /\ work'[d] = work[d]
      BY <1>1, <2>3, RunMoves
    <3>2. \A q \in Prospects : scores[q] # None => scores'[q] # None
      BY <2>5
    <3>3. depths \subseteq depths'
      BY <2>1
    <3> HIDE DEF t
    <3> QED BY <2>6, <3>1, <3>2, <3>3, RunsStand
  <2>8. ExplainedInv'
    <3> SUFFICES ASSUME cut' = 0, NEW q \in Prospects, scores'[q] # None, ~\E b \in breakdowns : b.of = q
                 PROVE  \E d \in Calls : stage'[d] \in Replacing /\ work'[d].now = q
      BY <2>1 DEF ExplainedInv, Replaced
    <3>1. CASE q = p
      BY <1>1, <2>3, <3>1, RunMoves DEF Replacing
    <3>2. CASE q # p
      <4>1. PICK d \in Calls : stage[d] \in Replacing /\ work[d].now = q
        BY <1>1, <2>3, <2>4, <3>2, RunMoves DEF FitInv, ExplainedInv, Replaced
      <4>2. d # c
        BY <2>1, <4>1 DEF Replacing
      <4> QED BY <1>1, <2>3, <4>1, <4>2, RunMoves
    <3> QED BY <3>1, <3>2
  <2>9. Fit!CompleteIsWhole'
    BY <2>1, <2>5, StaysWhole
  <2>10. TablesInv'
    BY <1>1, <2>1, <2>3, RunMoves DEF TablesInv
  <2> QED BY <2>7, <2>8, <2>9, <2>10 DEF FitInv
<1>5. CASE Fit!DeleteBreakdown(c) \/ Fit!InsertBreakdown(c)
  <2>1. stage[c] \in Replacing /\ UNCHANGED <<eligible, runs, scores, depths>>
    BY <1>5, BreakdownReplaced
  <2>2. PICK label \in {"insert", "score", "audit", "snapshots"} :
          /\ Fit!Goto(c, label, t)
          /\ \/ label = "insert" /\ breakdowns' = {b \in breakdowns : b.of # t.now}
             \/ breakdowns' = breakdowns \cup {Fit!BreakdownRow(t.now, c)}
    BY <1>5, BreakdownReplaced
  <2>3. RunFits(label, t, c, scores, depths)
    BY <1>1, <2>1 DEF RunFits, Running, Replacing
  <2>4. (\A d \in Calls : RunFits(stage[d], work[d], d, scores, depths))'
    <3>1. \A p \in Prospects : scores[p] # None => scores'[p] # None
      BY <2>1
    <3> QED BY <1>1, <2>1, <2>2, <2>3, <3>1, RunMoves, RunsStand
  <2>5. ExplainedInv'
    <3>1. CASE label = "insert" /\ breakdowns' = {b \in breakdowns : b.of # t.now}
      <4> SUFFICES ASSUME cut = 0, NEW p \in Prospects, scores[p] # None, ~\E b \in breakdowns' : b.of = p
                   PROVE  \E d \in Calls : stage'[d] \in Replacing /\ work'[d].now = p
        BY <1>1, <2>1, <2>2, RunMoves DEF ExplainedInv, Replaced
      <4>1. CASE p = t.now
        BY <1>1, <2>2, <3>1, <4>1, RunMoves DEF Replacing
      <4>2. CASE p # t.now
        <5>1. PICK d \in Calls : stage[d] \in Replacing /\ work[d].now = p
          BY <3>1, <4>2 DEF FitInv, ExplainedInv, Replaced
        <5> QED BY <1>1, <2>2, <4>2, <5>1, RunMoves
      <4> QED BY <4>1, <4>2
    <3>2. CASE breakdowns' = breakdowns \cup {Fit!BreakdownRow(t.now, c)}
      <4>1. \E b \in breakdowns' : b.of = t.now
        <5>1. Fit!BreakdownRow(t.now, c).of = t.now
          BY DEF Fit!BreakdownRow
        <5> QED BY <3>2, <5>1
      <4> QED BY <1>1, <2>1, <2>2, <3>2, <4>1, RunMoves, StaysExplained
    <3> QED BY <2>2, <3>1, <3>2
  <2>6. Fit!CompleteIsWhole'
    BY <2>1, StaysWhole
  <2>7. TablesInv'
    BY <1>1, <2>1, <2>2, RunMoves DEF TablesInv
  <2> QED BY <2>4, <2>5, <2>6, <2>7 DEF FitInv
<1>6. CASE Fit!InsertSnapshots(c) \/ Fit!CompleteRun(c)
  <2>1. stage[c] \in Running \ Replacing /\ UNCHANGED <<eligible, scores, breakdowns>>
    BY <1>6, RunEnds
  <2>2. \/ Fit!Goto(c, "unlink", t) /\ depths' = depths \cup {c} /\ runs' = runs
        \/ /\ stage[c] = "complete" /\ Fit!Goto(c, "audit", t) /\ depths' = depths
           /\ runs' = [runs EXCEPT ![c] = Fit!RunRow("complete", t.scored)]
    BY <1>6, RunEnds
  <2>3. PICK label : Fit!Goto(c, label, t) /\ RunFits(label, t, c, scores, depths')
    BY <1>1, <2>1, <2>2 DEF RunFits, Running, Replacing
  <2>4. depths \subseteq depths'
    BY <2>2
  <2>5. (\A d \in Calls : RunFits(stage[d], work[d], d, scores, depths))'
    BY <1>1, <2>1, <2>3, <2>4, RunMoves, RunsStand
  <2>6. ExplainedInv'
    BY <1>1, <2>1, <2>3, RunMoves, StaysExplained
  <2>7. /\ Fit!CompleteIsWhole' /\ runs' = [d \in Calls |-> runs'[d]]
        /\ \A d \in Calls : runs'[d] # None => runs'[d].scored \subseteq Prospects
    <3>1. CASE runs' = runs
      BY <2>1, <2>4, <3>1, StaysWhole
    <3>2. CASE stage[c] = "complete" /\ depths' = depths /\ runs' = [runs EXCEPT ![c] = Fit!RunRow("complete", t.scored)]
      <4>1. c \in depths /\ t.scored \subseteq Prospects /\ \A p \in t.scored : scores[p] # None
        BY <1>1, <3>2 DEF RunFits, Running
      <4>2. \A d \in Calls : runs'[d] = IF d = c THEN Fit!RunRow("complete", t.scored) ELSE runs[d]
        BY <1>1, <3>2 DEF TablesInv
      <4>3. Fit!RunRow("complete", t.scored).scored = t.scored
        BY DEF Fit!RunRow
      <4>4. Fit!CompleteIsWhole'
        BY <2>1, <3>2, <4>1, <4>2, <4>3 DEF FitInv, Fit!CompleteIsWhole
      <4>5. runs' = [d \in Calls |-> runs'[d]]
        BY <1>1, <3>2 DEF TablesInv
      <4> QED BY <1>1, <4>1, <4>2, <4>3, <4>4, <4>5 DEF TablesInv
    <3> QED BY <2>2, <3>1, <3>2
  <2>8. TablesInv'
    BY <1>1, <2>1, <2>3, <2>7, RunMoves DEF TablesInv
  <2> QED BY <2>5, <2>6, <2>7, <2>8 DEF FitInv
<1> QED BY <1>2, <1>3, <1>4, <1>5, <1>6, AsideSteps, RunReads DEF Fit!Step

LEMMA FitGoesOn ==
  ASSUME NullAssumption, FitInv, Fit!Next
  PROVE  FitInv'
<1>1. ASSUME NEW c \in Calls, Fit!Fail(c) PROVE FitInv'
  <2>1. /\ cut' = cut + 1 /\ stage' = [stage EXCEPT ![c] = "failed"] /\ work' = [work EXCEPT ![c] = None]
        /\ UNCHANGED <<eligible, runs, scores, breakdowns, depths>>
    BY <1>1 DEF Fit!Fail, Fit!world, Fit!result
  <2>2. TablesInv' /\ ExplainedInv'
    <3>1. cut' \in Nat /\ cut' # 0
      BY <2>1 DEF FitInv, TablesInv
    <3>2. stage' = [d \in Calls |-> stage'[d]] /\ work' = [d \in Calls |-> work'[d]]
      BY <2>1 DEF FitInv, TablesInv
    <3>3. TablesInv'
      BY <2>1, <3>1, <3>2 DEF FitInv, TablesInv
    <3> QED BY <3>1, <3>3 DEF ExplainedInv
  <2>3. RunFits("failed", None, c, scores, depths)
    BY DEF RunFits, Running, Replacing
  <2>4. (\A d \in Calls : RunFits(stage[d], work[d], d, scores, depths))'
    BY <2>1, <2>3, RunsStand DEF FitInv, TablesInv
  <2>5. Fit!CompleteIsWhole'
    BY <2>1, StaysWhole
  <2> QED BY <2>2, <2>4, <2>5 DEF FitInv
<1>2. ASSUME UNCHANGED <<runs, scores, breakdowns, depths, stage, work, cut>>, eligible' \subseteq Prospects
      PROVE  FitInv'
  BY <1>2 DEF FitInv, TablesInv, RunFits, ExplainedInv, Replaced, Fit!CompleteIsWhole
<1>3. CASE \/ \E p \in Prospects : Fit!ChangeGroup(p)
           \/ \E k \in Contracts : Fit!Extend(k)
  BY <1>2, <1>3 DEF Fit!ChangeGroup, Fit!Extend, Fit!result, FitInv, TablesInv
<1> QED BY <1>1, <1>3, FitStepGoesOn DEF Fit!Next

LEMMA FitBegins ==
  ASSUME Fit!Init
  PROVE  FitInv
<1>1. TablesInv
  BY DEF Fit!Init, TablesInv
<1>2. \A c \in Calls : RunFits(stage[c], work[c], c, scores, depths)
  BY DEF Fit!Init, RunFits, Running, Replacing
<1>3. ExplainedInv /\ Fit!CompleteIsWhole
  BY DEF Fit!Init, ExplainedInv, Fit!CompleteIsWhole
<1> QED BY <1>1, <1>2, <1>3 DEF FitInv

LEMMA FitStands ==
  ASSUME NullAssumption
  PROVE  Fit!Spec => []FitInv
<1>1. FitInv /\ UNCHANGED Fit!vars => FitInv'
  BY DEF Fit!vars, Fit!world, Fit!result, FitInv, TablesInv, RunFits, ExplainedInv, Replaced, Fit!CompleteIsWhole
<1>2. FitInv /\ [Fit!Next]_(Fit!vars) => FitInv'
  BY <1>1, FitGoesOn
<1> QED BY <1>2, FitBegins, PTL DEF Fit!Spec

(* However many runs cross, and wherever they are cut short: a run that    *)
(* says it is complete has its depth stored and a score for every prospect *)
(* it counts; and with no request cut short, every score has a breakdown   *)
(* between requests.                                                       *)
THEOREM RunsAreWhole ==
  ASSUME NullAssumption
  PROVE  Fit!Spec => [](Fit!CompleteIsWhole /\ Fit!NeverUnexplained)
<1>1. FitInv => Fit!CompleteIsWhole /\ Fit!NeverUnexplained
  BY DEF FitInv, ExplainedInv, Replaced, Replacing, Fit!NeverUnexplained, Fit!Quiet, Fit!Open
<1> QED BY <1>1, FitStands, PTL

(* One request at a time.                                                  *)
AloneAssumption == MaxOpen = 1 /\ IsFiniteSet(Calls) /\ IsFiniteSet(Prospects)

(* The prospects whose breakdown is not that of their score, and those     *)
(* whose breakdown is being replaced.                                      *)
Breakdowns(p, bd) == {b \in bd : b.of = p}
Torn(sc, bd) == {p \in Prospects : sc[p] # None /\ Breakdowns(p, bd) # {[of |-> p, from |-> sc[p].from]}}
Under(st, wk) == {wk[c].now : c \in {d \in Calls : st[d] \in Replacing}}

OnlyOne(c, st) == \A d \in Calls : st[d] \notin {"idle", "done", "failed"} => d = c

(* What a run has scored is of its own computation, and what it replaces   *)
(* is gone; no more scores than requests cut short are torn, but for the   *)
(* one whose breakdown is being replaced; the links are those of one run.  *)
RanksHold(c, st, wk, sc) ==
  st[c] \in Running => \A p \in wk[c].scored : sc[p] = Fit!ScoreRow(wk[c], c)
Cleared(c, st, wk, bd) == st[c] = "insert" => Breakdowns(wk[c].now, bd) = {}
LinksHold(c, st, ln) == st[c] = "link" => ln = {}

AloneInv ==
  /\ \A c, d \in Calls : stage[c] \notin {"idle", "done", "failed"} => OnlyOne(c, stage)
  /\ \A c \in Calls : RanksHold(c, stage, work, scores) /\ Cleared(c, stage, work, breakdowns) /\ LinksHold(c, stage, links)
  /\ Cardinality(Torn(scores, breakdowns) \ Under(stage, work)) <= cut
  /\ \A x, y \in links : x.from = y.from

LEMMA FitCounts ==
  ASSUME NEW S
  PROVE  Fit!Cardinality(S) = Cardinality(S)
BY DEF Fit!Cardinality, Cardinality

LEMMA FewerTorn ==
  ASSUME AloneAssumption, NEW S, NEW T, S \subseteq T, T \subseteq Prospects, NEW n \in Nat, Cardinality(T) <= n
  PROVE  Cardinality(S) <= n
<1>1. IsFiniteSet(T) /\ IsFiniteSet(S)
  BY FS_Subset DEF AloneAssumption
<1>2. Cardinality(S) <= Cardinality(T) /\ Cardinality(S) \in Nat /\ Cardinality(T) \in Nat
  BY <1>1, FS_Subset, FS_CardinalityType
<1> QED BY <1>2

LEMMA OneMoreTorn ==
  ASSUME AloneAssumption, NEW S, NEW T, NEW x, S \subseteq T \cup {x}, S \subseteq Prospects, T \subseteq Prospects,
         NEW n \in Nat, Cardinality(T) <= n
  PROVE  Cardinality(S) <= n + 1
<1>1. IsFiniteSet(T) /\ IsFiniteSet(S) /\ IsFiniteSet(T \cup {x})
  BY FS_Subset, FS_AddElement DEF AloneAssumption
<1>2. Cardinality(T \cup {x}) = Cardinality(T) \/ Cardinality(T \cup {x}) = Cardinality(T) + 1
  BY <1>1, FS_AddElement
<1>3. Cardinality(S) <= Cardinality(T \cup {x}) /\ Cardinality(S) \in Nat /\ Cardinality(T) \in Nat
  BY <1>1, FS_Subset, FS_CardinalityType
<1> QED BY <1>2, <1>3

LEMMA UnderOne ==
  ASSUME NEW c \in Calls, NEW st, NEW wk, OnlyOne(c, st)
  PROVE  Under(st, wk) = IF st[c] \in Replacing THEN {wk[c].now} ELSE {}
BY DEF Under, OnlyOne, Replacing

LEMMA RunsAlone ==
  ASSUME AloneAssumption, AloneInv, NEW c \in Calls, Fit!Step(c) \/ Fit!Fail(c)
  PROVE  OnlyOne(c, stage)
<1>1. ASSUME NEW n, NEW label, NEW data, Fit!Begin(c, n, label, data) PROVE OnlyOne(c, stage)
  <2>1. Cardinality(Fit!Open) < 1 /\ Fit!Open \subseteq Calls
    BY <1>1, FitCounts DEF AloneAssumption, Fit!Begin, Fit!Open
  <2>2. IsFiniteSet(Fit!Open)
    BY <2>1, FS_Subset DEF AloneAssumption
  <2>3. Fit!Open = {}
    BY <2>1, <2>2, FS_CardinalityType, FS_EmptySet
  <2> QED BY <2>3 DEF Fit!Open, OnlyOne
<1>2. ASSUME stage[c] \notin {"idle", "done", "failed"} PROVE OnlyOne(c, stage)
  BY <1>2 DEF AloneInv
<1>3. CASE Fit!CreateNeed(c) \/ Fit!UpdateNeed(c) \/ Fit!ReadActive(c) \/ Fit!RunFit(c) \/ Fit!ComputeFit(c)
  BY <1>1, <1>3 DEF Fit!CreateNeed, Fit!UpdateNeed, Fit!ReadActive, Fit!RunFit, Fit!ComputeFit
<1>4. CASE \/ Fit!ClearFloors(c) \/ Fit!InsertFloors(c) \/ Fit!Toggle(c) \/ Fit!AuditAndEnd(c)
           \/ Fit!ReadRequirements(c) \/ Fit!Gather(c) \/ Fit!UpsertScore(c) \/ Fit!DeleteBreakdown(c)
           \/ Fit!InsertBreakdown(c)
  BY <1>2, <1>4 DEF Fit!ClearFloors, Fit!InsertFloors, Fit!Toggle, Fit!AuditAndEnd, Fit!ReadRequirements,
     Fit!Gather, Fit!UpsertScore, Fit!DeleteBreakdown, Fit!InsertBreakdown
<1>5. CASE \/ Fit!InsertSnapshots(c) \/ Fit!DeleteLinks(c) \/ Fit!InsertLinks(c) \/ Fit!CompleteRun(c) \/ Fit!Fail(c)
  BY <1>2, <1>5 DEF Fit!InsertSnapshots, Fit!DeleteLinks, Fit!InsertLinks, Fit!CompleteRun, Fit!Fail, Fit!Open
<1> QED BY <1>3, <1>4, <1>5 DEF Fit!Step

(* One request has gone on alone: what there is to show.                   *)
LEMMA AloneGoesOn ==
  ASSUME AloneAssumption, FitInv, AloneInv, NEW c \in Calls, OnlyOne(c, stage),
         \A d \in Calls : d # c => stage'[d] = stage[d],
         RanksHold(c, stage', work', scores'), Cleared(c, stage', work', breakdowns'), LinksHold(c, stage', links'),
         \A x, y \in links' : x.from = y.from,
         cut' \in Nat,
         Cardinality(Torn(scores', breakdowns') \ (IF stage'[c] \in Replacing THEN {work'[c].now} ELSE {})) <= cut'
  PROVE  AloneInv'
<1>1. OnlyOne(c, stage')
  BY DEF OnlyOne
<1>2. \A d \in Calls : d # c => stage'[d] \in {"idle", "done", "failed"}
  BY <1>1 DEF OnlyOne
<1>3. \A d \in Calls : /\ RanksHold(d, stage', work', scores') /\ Cleared(d, stage', work', breakdowns')
                       /\ LinksHold(d, stage', links')
  BY <1>2 DEF RanksHold, Cleared, LinksHold, Running
<1>4. \A d \in Calls : stage'[d] \notin {"idle", "done", "failed"} => OnlyOne(d, stage')
  BY <1>1, <1>2
<1>5. Under(stage', work') = IF stage'[c] \in Replacing THEN {work'[c].now} ELSE {}
  BY <1>1, UnderOne
<1> QED BY <1>3, <1>4, <1>5 DEF AloneInv

LEMMA AloneSteps ==
  ASSUME AloneAssumption, FitInv, AloneInv, NEW c \in Calls, Fit!Step(c)
  PROVE  AloneInv'
<1> DEFINE t == work[c]
           torn == Torn(scores, breakdowns)
<1>1. /\ TablesInv /\ RunFits(stage[c], t, c, scores, depths) /\ cut \in Nat
      /\ RanksHold(c, stage, work, scores) /\ Cleared(c, stage, work, breakdowns) /\ LinksHold(c, stage, links)
      /\ \A x, y \in links : x.from = y.from
  BY DEF FitInv, TablesInv, AloneInv
<1>2. OnlyOne(c, stage)
  BY RunsAlone
<1>3. Cardinality(torn \ (IF stage[c] \in Replacing THEN {t.now} ELSE {})) <= cut /\ torn \subseteq Prospects
  BY <1>2, UnderOne DEF AloneInv, Torn
<1>4. ASSUME NEW label, NEW u, Fit!Goto(c, label, u), stage[c] \notin Replacing, label \notin Replacing,
             UNCHANGED <<scores, breakdowns>>,
             label \in Running => u.scored = {} \/ (u = t /\ stage[c] \in Running),
             label = "link" => links' = {}, \A x, y \in links' : x.from = y.from
      PROVE  AloneInv'
  <2>1. stage'[c] = label /\ work'[c] = u /\ cut' = cut /\ \A d \in Calls : d # c => stage'[d] = stage[d]
    BY <1>1, <1>4, RunMoves
  <2>2. /\ RanksHold(c, stage', work', scores') /\ Cleared(c, stage', work', breakdowns') /\ LinksHold(c, stage', links')
    BY <1>1, <1>4, <2>1 DEF RanksHold, Cleared, LinksHold, Replacing
  <2>3. Cardinality(torn \ {}) <= cut
    BY <1>3, <1>4
  <2>4. Cardinality(Torn(scores', breakdowns') \ (IF stage'[c] \in Replacing THEN {work'[c].now} ELSE {})) <= cut'
    BY <1>4, <2>1, <2>3
  <2> HIDE DEF torn, t
  <2> QED BY <1>1, <1>2, <1>4, <2>1, <2>2, <2>4, AloneGoesOn
<1>5. ASSUME Aside(c) PROVE AloneInv'
  <2>1. PICK label, data : label \notin Running /\ Fit!Goto(c, label, data)
    BY <1>5 DEF Aside
  <2>2. stage[c] \notin Replacing /\ label \notin Replacing /\ label # "link" /\ UNCHANGED <<scores, breakdowns, links>>
    BY <1>5, <2>1 DEF Aside, Running, Replacing
  <2> QED BY <1>1, <1>4, <2>1, <2>2
<1>6. ASSUME ReadsOn(c) PROVE AloneInv'
  <2>1. PICK label, u :
          /\ Fit!Goto(c, label, u) /\ label \in Running \ Replacing /\ stage[c] \notin Replacing
          /\ UNCHANGED <<scores, breakdowns>>
          /\ \/ links' = links /\ label # "link"
             \/ links' = {} /\ label = "link"
             \/ links' = links \cup Fit!LinkRows(expiring, c) /\ stage[c] = "link" /\ label # "link"
          /\ u.scored = {} \/ (u = work[c] /\ stage[c] \in Running)
    BY <1>6 DEF ReadsOn
  <2>2. \A x \in Fit!LinkRows(expiring, c) : x.from = c
    BY DEF Fit!LinkRows
  <2>3. \A x, y \in links' : x.from = y.from
    BY <1>1, <2>1, <2>2 DEF LinksHold
  <2> QED BY <1>4, <2>1, <2>3
<1>7. CASE Fit!UpsertScore(c)
  <2>1. stage[c] = "score" /\ UNCHANGED <<breakdowns, links>>
    BY <1>7, ScoreWritten
  <2>2. PICK p \in Prospects : \E u :
          /\ Fit!Goto(c, "replace", u) /\ u.now = p /\ u.scored = t.scored \cup {p}
          /\ Fit!ScoreRow(u, c) = Fit!ScoreRow(t, c) /\ scores' = [scores EXCEPT ![p] = Fit!ScoreRow(t, c)]
    BY <1>7, ScoreWritten
  <2>3. PICK u :
          /\ Fit!Goto(c, "replace", u) /\ u.now = p /\ u.scored = t.scored \cup {p}
          /\ Fit!ScoreRow(u, c) = Fit!ScoreRow(t, c) /\ scores' = [scores EXCEPT ![p] = Fit!ScoreRow(t, c)]
    BY <2>2
  <2>4. \A q \in Prospects : scores'[q] = IF q = p THEN Fit!ScoreRow(t, c) ELSE scores[q]
    BY <1>1, <2>3 DEF TablesInv
  <2>5. /\ stage'[c] = "replace" /\ work'[c] = u /\ cut' = cut
        /\ \A d \in Calls : d # c => stage'[d] = stage[d]
    BY <1>1, <2>3, RunMoves
  <2>6. t.scored \subseteq Prospects /\ \A q \in t.scored : scores[q] = Fit!ScoreRow(t, c)
    BY <1>1, <2>1 DEF RunFits, RanksHold, Running
  <2>7. /\ RanksHold(c, stage', work', scores') /\ Cleared(c, stage', work', breakdowns') /\ LinksHold(c, stage', links')
    BY <2>3, <2>4, <2>5, <2>6 DEF RanksHold, Cleared, LinksHold
  <2>8. Torn(scores', breakdowns') \ {p} \subseteq torn
    BY <2>1, <2>4 DEF Torn
  <2>9. Cardinality(Torn(scores', breakdowns') \ {p}) <= cut'
    <3>1. Cardinality(torn \ {}) <= cut /\ torn \ {} = torn
      BY <1>3, <2>1 DEF Replacing
    <3> HIDE DEF torn
    <3> QED BY <1>1, <1>3, <2>5, <2>8, <3>1, FewerTorn
  <2>10. \A x, y \in links' : x.from = y.from
    BY <1>1, <2>1
  <2>11. Cardinality(Torn(scores', breakdowns') \ (IF stage'[c] \in Replacing THEN {work'[c].now} ELSE {})) <= cut'
    BY <2>3, <2>5, <2>9 DEF Replacing
  <2> HIDE DEF t, torn
  <2> QED BY <1>1, <1>2, <2>5, <2>7, <2>10, <2>11, AloneGoesOn
<1>8. CASE Fit!DeleteBreakdown(c) \/ Fit!InsertBreakdown(c)
  <2> DEFINE now == t.now
  <2>1. /\ stage[c] \in Replacing /\ UNCHANGED <<scores, links>>
        /\ now \in t.scored /\ t.scored \subseteq Prospects /\ \A q \in t.scored : scores[q] = Fit!ScoreRow(t, c)
    BY <1>1, <1>8, BreakdownReplaced DEF RunFits, RanksHold, Running, Replacing
  <2>2. Cardinality(torn \ {now}) <= cut /\ torn \ {now} \subseteq Prospects
    BY <1>3, <2>1
  <2>3. ASSUME NEW label, Fit!Goto(c, label, t), label # "link",
               label = "insert" => Breakdowns(now, breakdowns') = {},
               Torn(scores', breakdowns') \ (IF label \in Replacing THEN {now} ELSE {}) \subseteq torn \ {now}
        PROVE  AloneInv'
    <3>1. /\ stage'[c] = label /\ work'[c] = t /\ cut' = cut
          /\ \A d \in Calls : d # c => stage'[d] = stage[d]
      BY <1>1, <2>3, RunMoves
    <3>2. /\ RanksHold(c, stage', work', scores') /\ Cleared(c, stage', work', breakdowns') /\ LinksHold(c, stage', links')
      BY <2>1, <2>3, <3>1 DEF RanksHold, Cleared, LinksHold
    <3>3. Cardinality(Torn(scores', breakdowns') \ (IF label \in Replacing THEN {now} ELSE {})) <= cut'
      <4> HIDE DEF torn, now
      <4> QED BY <1>1, <2>2, <2>3, <3>1, FewerTorn
    <3>4. \A x, y \in links' : x.from = y.from
      BY <1>1, <2>1
    <3>5. Cardinality(Torn(scores', breakdowns') \ (IF stage'[c] \in Replacing THEN {work'[c].now} ELSE {})) <= cut'
      BY <3>1, <3>3
    <3> HIDE DEF t, torn, now
    <3> QED BY <1>1, <1>2, <3>1, <3>2, <3>4, <3>5, AloneGoesOn
  <2>4. CASE Fit!Goto(c, "insert", t) /\ breakdowns' = {b \in breakdowns : b.of # now}
    <3>1. /\ Breakdowns(now, breakdowns') = {}
          /\ \A p \in Prospects : p # now => Breakdowns(p, breakdowns') = Breakdowns(p, breakdowns)
      BY <2>4 DEF Breakdowns
    <3>2. Torn(scores', breakdowns') \ {now} \subseteq torn \ {now}
      BY <2>1, <3>1 DEF Torn
    <3> HIDE DEF now, torn
    <3> QED BY <2>3, <2>4, <3>1, <3>2 DEF Replacing
  <2>5. CASE /\ stage[c] = "insert" /\ breakdowns' = breakdowns \cup {Fit!BreakdownRow(now, c)}
             /\ \E label \in {"score", "audit", "snapshots"} : Fit!Goto(c, label, t)
    <3>1. Fit!BreakdownRow(now, c) = [of |-> now, from |-> c] /\ scores[now].from = c
      BY <2>1 DEF Fit!BreakdownRow, Fit!ScoreRow
    <3>2. Breakdowns(now, breakdowns) = {}
      BY <1>1, <2>5 DEF Cleared
    <3>3. Breakdowns(now, breakdowns') = {[of |-> now, from |-> c]}
      BY <2>5, <3>1, <3>2 DEF Breakdowns
    <3>4. \A p \in Prospects : p # now => Breakdowns(p, breakdowns') = Breakdowns(p, breakdowns)
      BY <2>5, <3>1 DEF Breakdowns
    <3>5. Torn(scores', breakdowns') \ {} \subseteq torn \ {now}
      BY <2>1, <3>1, <3>3, <3>4 DEF Torn
    <3> HIDE DEF now, torn, t
    <3> QED BY <2>3, <2>5, <3>5 DEF Replacing
  <2> QED BY <1>8, <2>4, <2>5, BreakdownReplaced
<1>9. CASE Fit!InsertSnapshots(c) \/ Fit!CompleteRun(c)
  <2>1. stage[c] \in Running \ Replacing /\ UNCHANGED <<scores, breakdowns, links>>
    BY <1>9, RunEnds
  <2>2. PICK label \in {"unlink", "audit"} : Fit!Goto(c, label, t)
    BY <1>9, RunEnds
  <2> QED BY <1>1, <1>4, <2>1, <2>2 DEF Replacing
<1> QED BY <1>5, <1>6, <1>7, <1>8, <1>9, AsideSteps, RunReads DEF Fit!Step

LEMMA AloneKeeps ==
  ASSUME AloneAssumption, FitInv, AloneInv, Fit!Next
  PROVE  AloneInv'
<1>1. ASSUME NEW c \in Calls, Fit!Fail(c) PROVE AloneInv'
  <2> DEFINE torn == Torn(scores, breakdowns)
             rest == torn \ (IF stage[c] \in Replacing THEN {work[c].now} ELSE {})
  <2>1. cut' = cut + 1 /\ stage' = [stage EXCEPT ![c] = "failed"] /\ UNCHANGED <<scores, breakdowns, links>> /\ cut \in Nat
    BY <1>1 DEF Fit!Fail, Fit!result, FitInv, TablesInv
  <2>2. stage'[c] = "failed" /\ \A d \in Calls : d # c => stage'[d] = stage[d]
    BY <2>1 DEF FitInv, TablesInv
  <2>3. OnlyOne(c, stage)
    BY <1>1, RunsAlone
  <2>4. Cardinality(rest) <= cut /\ torn \subseteq Prospects
    BY <2>3, UnderOne DEF AloneInv, Torn
  <2>5. torn \subseteq rest \cup {work[c].now} /\ rest \subseteq Prospects
    BY <2>4
  <2>6. Cardinality(torn) <= cut'
    <3> HIDE DEF torn, rest
    <3> QED BY <2>1, <2>4, <2>5, OneMoreTorn
  <2>7. Cardinality(Torn(scores', breakdowns') \ (IF stage'[c] \in Replacing THEN {work'[c].now} ELSE {})) <= cut'
    <3>1. torn = torn \ {} /\ "failed" \notin Replacing
      BY DEF Replacing
    <3> QED BY <2>1, <2>2, <2>6, <3>1
  <2>8. /\ RanksHold(c, stage', work', scores') /\ Cleared(c, stage', work', breakdowns') /\ LinksHold(c, stage', links')
        /\ cut' \in Nat /\ \A x, y \in links' : x.from = y.from
    BY <2>1, <2>2 DEF RanksHold, Cleared, LinksHold, Running, AloneInv
  <2> HIDE DEF torn, rest
  <2> QED BY <2>2, <2>3, <2>7, <2>8, AloneGoesOn
<1>2. CASE \/ \E p \in Prospects : Fit!ChangeGroup(p)
           \/ \E k \in Contracts : Fit!Extend(k)
  BY <1>2 DEF Fit!ChangeGroup, Fit!Extend, Fit!result, AloneInv
<1> QED BY <1>1, <1>2, AloneSteps DEF Fit!Next

LEMMA AloneBegins ==
  ASSUME AloneAssumption, Fit!Init
  PROVE  AloneInv
<1>1. Torn(scores, breakdowns) \ Under(stage, work) = {}
  BY DEF Fit!Init, Torn
<1>2. Cardinality(Torn(scores, breakdowns) \ Under(stage, work)) <= cut
  <2>1. Cardinality({}) = 0 /\ cut = 0
    BY FS_EmptySet DEF Fit!Init
  <2> HIDE DEF Torn, Under
  <2> QED BY <1>1, <2>1
<1> QED BY <1>2 DEF Fit!Init, AloneInv, OnlyOne, RanksHold, Cleared, LinksHold, Running

(* Runs that come one after the other: between requests a score has the    *)
(* breakdown of its own computation and no other, but for one score per    *)
(* request cut short, and the links are those of one run; a run that is    *)
(* complete ranks all it has evaluated.                                    *)
THEOREM RunsAlonePure ==
  ASSUME NullAssumption, MaxOpen = 1, IsFiniteSet(Calls), IsFiniteSet(Prospects)
  PROVE  Fit!Spec => [](Fit!OneBreakdown /\ Fit!LinksOfOneRun) /\ Fit!RankedByOneRun
<1>1. AloneAssumption
  BY DEF AloneAssumption
<1>2. Fit!Init => AloneInv
  BY <1>1, AloneBegins
<1>3. FitInv /\ AloneInv /\ [Fit!Next]_(Fit!vars) => AloneInv'
  <2>1. AloneInv /\ UNCHANGED Fit!vars => AloneInv'
    BY DEF Fit!vars, Fit!world, Fit!result, AloneInv
  <2> QED BY <1>1, <2>1, AloneKeeps
<1>4. FitInv /\ AloneInv => Fit!OneBreakdown /\ Fit!LinksOfOneRun
  <2> SUFFICES ASSUME FitInv, AloneInv, Fit!Quiet PROVE Fit!OneBreakdown /\ Fit!LinksOfOneRun
    BY DEF AloneInv, Fit!OneBreakdown, Fit!LinksOfOneRun
  <2>1. Under(stage, work) = {}
    BY DEF Fit!Quiet, Fit!Open, Under, Replacing
  <2>2. Cardinality(Torn(scores, breakdowns)) <= cut
    <3>1. Torn(scores, breakdowns) \ Under(stage, work) = Torn(scores, breakdowns)
      BY <2>1
    <3> QED BY <3>1 DEF AloneInv
  <2> QED BY <2>2, FitCounts DEF AloneInv, Torn, Breakdowns, Fit!OneBreakdown, Fit!LinksOfOneRun
<1>5. FitInv /\ AloneInv /\ [Fit!Next]_(Fit!vars) => [\A r \in Calls : Fit!RanksAll(r)]_(Fit!vars)
  BY DEF AloneInv, RanksHold, Running, Fit!RanksAll
<1> QED BY <1>2, <1>3, <1>4, <1>5, FitStands, PTL DEF Fit!Spec, Fit!RankedByOneRun

-----------------------------------------------------------------------------
(***************************************************************************)
(* Links to frozen reports, for any teams, users and requests, which die   *)
(* anywhere.                                                               *)
(***************************************************************************)
CONSTANTS Teams, SeasonsOf, MaxEdits

VARIABLES records, sections

Shared == INSTANCE SharedReports WITH failures <- cut, pc <- stage, task <- work, Requests <- Calls

ShareRow(t) ==
  t = [user |-> t.user, org |-> t.org, team |-> t.team, season |-> t.season, since |-> t.since,
       contracts |-> t.contracts, rules |-> t.rules]

ReportShape(x) ==
  x = [id |-> x.id, org |-> x.org, team |-> x.team, season |-> x.season, by |-> x.by, token |-> x.token]

(* What a request has read is no older than it, and read in this order.    *)
ShareFits(label, t, rec) ==
  /\ label \in {"contracts", "rules", "insert"} =>
       ShareRow(t) /\ t.team \in Teams /\ OrgOf[t.team] = t.org /\ t.since \in Nat /\ t.since <= rec[t.team]
  /\ label \in {"rules", "insert"} => t.contracts \in Nat /\ t.since <= t.contracts /\ t.contracts <= rec[t.team]
  /\ label = "insert" =>
       t.rules \in Nat /\ t.contracts <= t.rules /\ t.rules <= rec[t.team] /\ t.season \in SeasonsOf[t.team]

OfItsRequest(s, st, wk, rec) ==
  /\ s.report \in Calls /\ st[s.report] = "done" /\ ShareFits("insert", wk[s.report], rec)
  /\ \E i \in DOMAIN Shared!SectionTypes : s = Shared!SectionRow(s.report, wk[s.report], i)

Filed(x, st) ==
  /\ ReportShape(x) /\ x.id \in Calls /\ st[x.id] = "done"
  /\ OrgOf[x.team] = x.org /\ x.season \in SeasonsOf[x.team]

SharedInv ==
  /\ stage = [c \in Calls |-> stage[c]] /\ work = [c \in Calls |-> work[c]] /\ records \in [Teams -> Nat]
  /\ \A c \in Calls : ShareFits(stage[c], work[c], records)
  /\ \A s \in sections : OfItsRequest(s, stage, work, records)
  /\ \A x \in reports : Filed(x, stage)

LEMMA ShareMoves ==
  ASSUME SharedInv, NEW c \in Calls, NEW label, NEW data, Shared!Goto(c, label, data)
  PROVE  /\ stage' = [d \in Calls |-> stage'[d]] /\ work' = [d \in Calls |-> work'[d]]
         /\ stage'[c] = label /\ work'[c] = data
         /\ \A d \in Calls : d # c => stage'[d] = stage[d] /\ work'[d] = work[d]
BY DEF SharedInv, Shared!Goto

(* The token of a report may be cleared: the rest of it stays.             *)
SameReport(x, y) == y = x \/ y = [x EXCEPT !.token = None]

LEMMA KeptFiled ==
  ASSUME NEW x, NEW y, ReportShape(x), SameReport(x, y)
  PROVE  ReportShape(y) /\ y.id = x.id /\ y.org = x.org /\ y.team = x.team /\ y.season = x.season
<1>1. CASE y = [x EXCEPT !.token = None]
  <2>1. y = [id |-> x.id, org |-> x.org, team |-> x.team, season |-> x.season, by |-> x.by, token |-> None]
    BY <1>1 DEF ReportShape
  <2> QED BY <2>1 DEF ReportShape
<1> QED BY <1>1 DEF SameReport

LEMMA ShareGoesOn ==
  ASSUME SharedInv, NEW c \in Calls, NEW label, NEW data, Shared!Goto(c, label, data), stage[c] # "done",
         ShareFits(label, data, records), records' = records, sections' = sections,
         \A y \in reports' : \E x \in reports : SameReport(x, y)
  PROVE  SharedInv'
<1>1. \A d \in Calls : ShareFits(stage'[d], work'[d], records)
  BY ShareMoves DEF SharedInv
<1>2. ASSUME NEW s \in sections PROVE OfItsRequest(s, stage', work', records)
  <2>1. OfItsRequest(s, stage, work, records)
    BY DEF SharedInv
  <2>2. s.report \in Calls /\ s.report # c
    BY <2>1 DEF OfItsRequest
  <2>3. stage'[s.report] = stage[s.report] /\ work'[s.report] = work[s.report]
    BY <2>2, ShareMoves
  <2> QED BY <2>1, <2>3 DEF OfItsRequest
<1>3. ASSUME NEW y \in reports' PROVE Filed(y, stage')
  <2>1. PICK x \in reports : SameReport(x, y)
    OBVIOUS
  <2>2. Filed(x, stage)
    BY DEF SharedInv
  <2>3. stage'[x.id] = stage[x.id]
    BY <2>2, ShareMoves DEF Filed
  <2> QED BY <2>1, <2>2, <2>3, KeptFiled DEF Filed
<1> QED BY <1>1, <1>2, <1>3, ShareMoves DEF SharedInv

(* A step that neither reads for a report nor stores one.                  *)
NoReport(c) ==
  /\ stage[c] # "done" /\ records' = records /\ sections' = sections
  /\ \A y \in reports' : \E x \in reports : SameReport(x, y)
  /\ \A x \in reports : \E y \in reports' : SameReport(x, y)
  /\ \E label, data : label \notin {"contracts", "rules", "insert"} /\ Shared!Goto(c, label, data)

LEMMA NoReports ==
  ASSUME NEW c \in Calls,
         \/ Shared!OpenLink(c) \/ Shared!ReadSections(c) \/ Shared!Revoke(c) \/ Shared!ClearToken(c)
         \/ Shared!AuditRevocation(c) \/ Shared!Die(c)
  PROVE  NoReport(c)
<1>1. \A x : SameReport(x, x)
  BY DEF SameReport
<1>2. CASE Shared!OpenLink(c)
  <2>1. stage[c] = "idle" /\ UNCHANGED <<records, sections, reports>>
    BY <1>2 DEF Shared!OpenLink
  <2>2. (\E x \in reports : Shared!Goto(c, "sections", [report |-> x])) \/ Shared!Goto(c, "done", None)
    BY <1>2 DEF Shared!OpenLink
  <2> QED BY <1>1, <2>1, <2>2 DEF NoReport
<1>3. CASE Shared!Revoke(c)
  <2>1. stage[c] = "idle" /\ UNCHANGED <<records, sections, reports>>
    BY <1>3 DEF Shared!Revoke
  <2>2. \E label, data : label \in {"clear", "done"} /\ Shared!Goto(c, label, data)
    BY <1>3 DEF Shared!Revoke
  <2> QED BY <1>1, <2>1, <2>2 DEF NoReport
<1>4. CASE Shared!ReadSections(c) \/ Shared!AuditRevocation(c) \/ Shared!Die(c)
  <2>1. stage[c] # "done" /\ UNCHANGED <<records, sections, reports>> /\ \E data : Shared!Goto(c, "done", data)
    BY <1>4 DEF Shared!ReadSections, Shared!AuditRevocation, Shared!Die
  <2> QED BY <1>1, <2>1 DEF NoReport
<1>5. CASE Shared!ClearToken(c)
  <2>1. stage[c] = "clear" /\ UNCHANGED <<records, sections>> /\ Shared!Goto(c, "audit", work[c])
    BY <1>5 DEF Shared!ClearToken
  <2>2. reports' = {IF x.id = work[c].report.id THEN [x EXCEPT !.token = None] ELSE x : x \in reports}
    BY <1>5 DEF Shared!ClearToken
  <2>3. /\ \A y \in reports' : \E x \in reports : SameReport(x, y)
        /\ \A x \in reports : \E y \in reports' : SameReport(x, y)
    BY <2>2 DEF SameReport
  <2> QED BY <2>1, <2>3 DEF NoReport
<1> QED BY <1>2, <1>3, <1>4, <1>5

LEMMA ContractsRead ==
  ASSUME NEW t, ShareRow(t), NEW x
  PROVE  LET u == [t EXCEPT !.contracts = x]
         IN  /\ ShareRow(u) /\ u.contracts = x /\ u.org = t.org /\ u.team = t.team /\ u.season = t.season
             /\ u.since = t.since
<1> DEFINE a == [user |-> t.user, org |-> t.org, team |-> t.team, season |-> t.season, since |-> t.since,
                 contracts |-> x, rules |-> t.rules]
<1>1. [t EXCEPT !.contracts = x] = a
  BY DEF ShareRow
<1>2. ShareRow(a) /\ a.contracts = x /\ a.org = t.org /\ a.team = t.team /\ a.season = t.season /\ a.since = t.since
  BY DEF ShareRow
<1> HIDE DEF a
<1> QED BY <1>1, <1>2

LEMMA RulesRead ==
  ASSUME NEW t, ShareRow(t), NEW x
  PROVE  LET u == [t EXCEPT !.rules = x]
         IN  /\ ShareRow(u) /\ u.rules = x /\ u.org = t.org /\ u.team = t.team /\ u.season = t.season
             /\ u.since = t.since /\ u.contracts = t.contracts
<1> DEFINE a == [user |-> t.user, org |-> t.org, team |-> t.team, season |-> t.season, since |-> t.since,
                 contracts |-> t.contracts, rules |-> x]
<1>1. [t EXCEPT !.rules = x] = a
  BY DEF ShareRow
<1>2. /\ ShareRow(a) /\ a.rules = x /\ a.org = t.org /\ a.team = t.team /\ a.season = t.season /\ a.since = t.since
      /\ a.contracts = t.contracts
  BY DEF ShareRow
<1> HIDE DEF a
<1> QED BY <1>1, <1>2

LEMMA ReportsRead ==
  ASSUME SharedInv, NEW c \in Calls, Shared!Create(c) \/ Shared!ReadContracts(c) \/ Shared!ReadRules(c)
  PROVE  SharedInv' /\ UNCHANGED <<reports, sections>>
<1> DEFINE t == work[c]
<1>1. ShareFits(stage[c], t, records) /\ records \in [Teams -> Nat]
  BY DEF SharedInv
<1>2. stage[c] # "done" /\ UNCHANGED <<records, reports, sections>>
  BY DEF Shared!Create, Shared!ReadContracts, Shared!ReadRules
<1>3. ASSUME NEW label, NEW u, Shared!Goto(c, label, u), ShareFits(label, u, records) PROVE SharedInv'
  BY <1>2, <1>3, ShareGoesOn DEF SameReport
<1>4. ASSUME Shared!Goto(c, "done", None) PROVE SharedInv'
  BY <1>3, <1>4 DEF ShareFits
<1>5. ASSUME NEW u \in Users, NEW o \in Orgs, NEW m \in Teams, NEW s, OrgOf[m] = o,
             Shared!Goto(c, "contracts", [user |-> u, org |-> o, team |-> m, season |-> s, since |-> records[m],
                                          contracts |-> 0, rules |-> 0])
      PROVE  SharedInv'
  <2> DEFINE v == [user |-> u, org |-> o, team |-> m, season |-> s, since |-> records[m], contracts |-> 0, rules |-> 0]
  <2>1. ShareRow(v) /\ v.team = m /\ v.org = o /\ v.since = records[m] /\ records[m] \in Nat
    BY <1>1 DEF ShareRow
  <2> HIDE DEF v
  <2>2. ShareFits("contracts", v, records)
    BY <1>5, <2>1 DEF ShareFits
  <2> QED BY <1>3, <1>5, <2>2 DEF v
<1>6. CASE Shared!Create(c)
  BY <1>4, <1>5, <1>6 DEF Shared!Create
<1>7. CASE Shared!ReadContracts(c)
  <2> DEFINE n == records[t.team]
             u == [t EXCEPT !.contracts = n]
  <2>1. stage[c] = "contracts" /\ Shared!Goto(c, "rules", u)
    BY <1>7 DEF Shared!ReadContracts
  <2>2. ShareRow(t) /\ t.team \in Teams /\ OrgOf[t.team] = t.org /\ t.since \in Nat /\ t.since <= records[t.team]
    BY <1>1, <2>1 DEF ShareFits
  <2>3. ShareRow(u) /\ u.contracts = n /\ u.org = t.org /\ u.team = t.team /\ u.since = t.since
    <3> HIDE DEF t, n
    <3> QED BY <2>2, ContractsRead
  <2> HIDE DEF u, t
  <2>4. ShareFits("rules", u, records)
    BY <1>1, <2>2, <2>3 DEF ShareFits
  <2> QED BY <1>2, <1>3, <2>1, <2>4
<1>8. CASE Shared!ReadRules(c)
  <2> DEFINE n == records[t.team]
             u == [t EXCEPT !.rules = n]
  <2>1. /\ stage[c] = "rules"
        /\ (t.season \in SeasonsOf[t.team] /\ Shared!Goto(c, "insert", u)) \/ Shared!Goto(c, "done", None)
    BY <1>8 DEF Shared!ReadRules
  <2>2. /\ ShareRow(t) /\ t.team \in Teams /\ OrgOf[t.team] = t.org /\ t.since \in Nat /\ t.since <= records[t.team]
        /\ t.contracts \in Nat /\ t.since <= t.contracts /\ t.contracts <= records[t.team]
    BY <1>1, <2>1 DEF ShareFits
  <2>3. /\ ShareRow(u) /\ u.rules = n /\ u.org = t.org /\ u.team = t.team /\ u.since = t.since
        /\ u.season = t.season /\ u.contracts = t.contracts
    <3> HIDE DEF t, n
    <3> QED BY <2>2, RulesRead
  <2> HIDE DEF u, t
  <2>4. t.season \in SeasonsOf[t.team] => ShareFits("insert", u, records)
    BY <1>1, <2>2, <2>3 DEF ShareFits
  <2> QED BY <1>2, <1>3, <1>4, <2>1, <2>4
<1> QED BY <1>2, <1>6, <1>7, <1>8

(* The report and its sections are stored together, and the report has not *)
(* been there.                                                             *)
LEMMA ReportStored ==
  ASSUME SharedInv, NEW c \in Calls, Shared!Insert(c)
  PROVE  SharedInv' /\ Shared!NeverBack
<1> DEFINE t == work[c]
           new == {Shared!SectionRow(c, t, i) : i \in DOMAIN Shared!SectionTypes}
           row == Shared!ReportRow(c, t)
<1>1. /\ stage[c] = "insert" /\ Shared!Goto(c, "done", t) /\ records' = records
      /\ reports' = reports \cup {row} /\ sections' = sections \cup new
  BY DEF Shared!Insert
<1>2. ShareFits("insert", t, records)
  BY <1>1 DEF SharedInv
<1>3. stage'[c] = "done" /\ work'[c] = t /\ \A d \in Calls : d # c => stage'[d] = stage[d] /\ work'[d] = work[d]
  BY <1>1, ShareMoves
<1>4. \A s \in new : s.report = c
  BY DEF Shared!SectionRow
<1>5. \A s \in new : OfItsRequest(s, stage', work', records)
  BY <1>2, <1>3, <1>4 DEF OfItsRequest
<1>6. ReportShape(row) /\ row.id = c /\ row.org = t.org /\ row.team = t.team /\ row.season = t.season
  BY DEF Shared!ReportRow, ReportShape
<1>7. Filed(row, stage')
  <2> HIDE DEF row
  <2> QED BY <1>2, <1>3, <1>6 DEF Filed, ShareFits
<1> HIDE DEF row, new, t
<1>8. ASSUME NEW s \in sections PROVE OfItsRequest(s, stage', work', records)
  <2>1. OfItsRequest(s, stage, work, records)
    BY DEF SharedInv
  <2>2. s.report \in Calls /\ s.report # c
    BY <1>1, <2>1 DEF OfItsRequest
  <2> QED BY <1>3, <2>1, <2>2 DEF OfItsRequest
<1>9. ASSUME NEW x \in reports PROVE Filed(x, stage')
  BY <1>1, <1>3 DEF SharedInv, Filed
<1>10. \A d \in Calls : ShareFits(stage'[d], work'[d], records)
  BY <1>3 DEF SharedInv, ShareFits
<1>11. SharedInv'
  <2>1. \A s \in sections' : OfItsRequest(s, stage', work', records)
    BY <1>1, <1>5, <1>8
  <2>2. \A x \in reports' : Filed(x, stage')
    BY <1>1, <1>7, <1>9
  <2>3. stage' = [d \in Calls |-> stage'[d]] /\ work' = [d \in Calls |-> work'[d]] /\ records' \in [Teams -> Nat]
    BY <1>1, ShareMoves DEF SharedInv
  <2> QED BY <1>1, <1>10, <2>1, <2>2, <2>3 DEF SharedInv
<1>12. \A x \in reports : x.id # c
  BY <1>1 DEF SharedInv, Filed
<1> QED BY <1>1, <1>4, <1>11, <1>12 DEF Shared!NeverBack

LEMMA ShareStepGoesOn ==
  ASSUME SharedInv, NEW c \in Calls, Shared!Step(c)
  PROVE  SharedInv' /\ Shared!NeverBack
<1>1. ASSUME NoReport(c) PROVE SharedInv' /\ Shared!NeverBack
  <2>1. PICK label, data : label \notin {"contracts", "rules", "insert"} /\ Shared!Goto(c, label, data)
    BY <1>1 DEF NoReport
  <2>2. ShareFits(label, data, records)
    BY <2>1 DEF ShareFits
  <2>3. SharedInv'
    BY <1>1, <2>1, <2>2, ShareGoesOn DEF NoReport
  <2> QED BY <1>1, <2>3 DEF NoReport, SameReport, Shared!NeverBack
<1>2. CASE Shared!Create(c) \/ Shared!ReadContracts(c) \/ Shared!ReadRules(c)
  BY <1>2, ReportsRead DEF Shared!NeverBack
<1> QED BY <1>1, <1>2, NoReports, ReportStored DEF Shared!Step

LEMMA SharedGoesOn ==
  ASSUME SharedInv, Shared!Next
  PROVE  SharedInv' /\ Shared!NeverBack
<1>1. ASSUME NEW m \in Teams, Shared!Edit(m) PROVE SharedInv' /\ Shared!NeverBack
  <2>1. UNCHANGED <<stage, work, sections, reports>> /\ records' = [records EXCEPT ![m] = @ + 1]
    BY <1>1 DEF Shared!Edit
  <2>2. records' \in [Teams -> Nat] /\ \A n \in Teams : records[n] \in Nat /\ records[n] <= records'[n]
    BY <2>1 DEF SharedInv
  <2>3. \A label, t : ShareFits(label, t, records) => ShareFits(label, t, records')
    BY <2>2 DEF ShareFits
  <2>4. \A c \in Calls : ShareFits(stage'[c], work'[c], records')
    BY <2>1, <2>3 DEF SharedInv
  <2>5. \A s \in sections : OfItsRequest(s, stage, work, records) => OfItsRequest(s, stage', work', records')
    BY <2>1, <2>3 DEF OfItsRequest
  <2> QED BY <2>1, <2>2, <2>4, <2>5 DEF SharedInv, Shared!NeverBack
<1>2. ASSUME NEW u \in Users, NEW o \in Orgs, Shared!Leave(u, o) PROVE SharedInv' /\ Shared!NeverBack
  BY <1>2 DEF Shared!Leave, SharedInv, Shared!NeverBack
<1> QED BY <1>1, <1>2, ShareStepGoesOn DEF Shared!Next

(* The sections of a report are those of its request, which has read the   *)
(* records in order.                                                       *)
LEMMA SectionsOfOne ==
  ASSUME SharedInv
  PROVE  Shared!OfOneRequest /\ Shared!ReportsOwn
<1>1. ASSUME NEW c \in Calls, NEW s \in Shared!SectionsOf(c), s.type # "disclaimer"
      PROVE  /\ ShareFits("insert", work[c], records)
             /\ \E head : s.content = <<head, work[c].contracts, work[c].rules>>
  <2> DEFINE t == work[c]
  <2>1. s \in sections /\ s.report = c
    BY DEF Shared!SectionsOf
  <2>2. PICK i \in DOMAIN Shared!SectionTypes : s = Shared!SectionRow(c, t, i)
    BY <2>1 DEF SharedInv, OfItsRequest
  <2>3. s.type = Shared!SectionTypes[i] /\ s.content = Shared!Content(Shared!SectionTypes[i], t)
    BY <2>2 DEF Shared!SectionRow
  <2>4. s.content = IF s.type = "commitments" THEN <<SeasonsOf[t.team], t.contracts, t.rules>>
                    ELSE <<{t.season}, t.contracts, t.rules>>
    <3> HIDE DEF t
    <3> QED BY <1>1, <2>3 DEF Shared!Content
  <2>5. ShareFits("insert", t, records)
    BY <2>1 DEF SharedInv, OfItsRequest
  <2> QED BY <2>4, <2>5
<1>2. Shared!OfOneRequest
  <2> SUFFICES ASSUME NEW c \in Calls, NEW s \in Shared!SectionsOf(c), NEW z \in Shared!SectionsOf(c),
                      s.type # "disclaimer"
               PROVE  /\ work[c].since <= s.content[2] /\ s.content[2] <= s.content[3]
                      /\ s.content[3] <= records[work[c].team]
                      /\ z.type # "disclaimer" => Tail(s.content) = Tail(z.content)
    BY DEF Shared!OfOneRequest
  <2> DEFINE t == work[c]
  <2>1. PICK a : s.content = <<a, t.contracts, t.rules>>
    BY <1>1
  <2>2. ShareFits("insert", t, records)
    BY <1>1
  <2>3. ASSUME z.type # "disclaimer" PROVE Tail(s.content) = Tail(z.content)
    <3>1. PICK b : z.content = <<b, t.contracts, t.rules>>
      BY <1>1, <2>3
    <3>2. \A h, m, n : Tail(<<h, m, n>>) = <<m, n>>
      OBVIOUS
    <3> HIDE DEF t
    <3> QED BY <2>1, <3>1, <3>2
  <2>4. s.content[2] = t.contracts /\ s.content[3] = t.rules
    <3> HIDE DEF t
    <3> QED BY <2>1
  <2> HIDE DEF t
  <2>5. t.since <= t.contracts /\ t.contracts <= t.rules /\ t.rules <= records[t.team]
    BY <2>2 DEF ShareFits
  <2> QED BY <2>3, <2>4, <2>5 DEF t
<1>3. Shared!ReportsOwn
  BY DEF SharedInv, Filed, Shared!ReportsOwn
<1> QED BY <1>2, <1>3

LEMMA SharedBegins ==
  ASSUME Shared!Init
  PROVE  SharedInv
BY DEF Shared!Init, SharedInv, ShareFits

(* A frozen report is of a team and a season of its organization; all but  *)
(* its disclaimer is of one request's reads, made in order and after it    *)
(* was asked for; it never changes, and its link, once revoked, never      *)
(* stands again, whatever is edited and whoever dies.                      *)
THEOREM ReportsStayFrozen ==
  Shared!Spec => [](Shared!OfOneRequest /\ Shared!ReportsOwn) /\ Shared!LinksStayRevoked
<1>1. SharedInv /\ UNCHANGED Shared!vars => SharedInv'
  BY DEF Shared!vars, SharedInv
<1>2. SharedInv /\ [Shared!Next]_(Shared!vars) => SharedInv'
  BY <1>1, SharedGoesOn
<1>3. SharedInv /\ [Shared!Next]_(Shared!vars) => [Shared!NeverBack]_(Shared!vars)
  BY SharedGoesOn
<1> QED BY <1>2, <1>3, SharedBegins, SectionsOfOne, PTL DEF Shared!Spec, Shared!LinksStayRevoked
=============================================================================
