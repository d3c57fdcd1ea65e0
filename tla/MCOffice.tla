------------------------------ MODULE MCOffice ------------------------------
(***************************************************************************)
(* The scouting office of an organization, one part of the model at a      *)
(* time. Its draft board (the constants of the cfg) is edited by one user  *)
(* after the other, or by requests that fail, or while a scout ranks its   *)
(* prospects; it stays as it is made in the other parts. These are a       *)
(* second draft board, edited by two requests at once, a free-agent board  *)
(* and the consensus of every set of rankings, and, of the desk, two fit   *)
(* runs that may fail around one organizational need, three of them one    *)
(* after the other, the reports, watchlists, assignments and views of two  *)
(* organizations, profile pages that compute role scores at once or one by *)
(* one, and links to frozen reports. They share the variables they have by *)
(* one name; those a part does not have are null.                          *)
(***************************************************************************)
EXTENDS DraftBoard, TLC

CONSTANTS ann, bob, p1, p2, p3, e1, e2, m1, jo, al, f1, f2, d1, d2, r1, r2, r3, u1, u2, a1, a2, t1, t2

VARIABLES
  part,                                                                        \* the part that runs
  board2, versions2, rankings2, consensus2,                                    \* of the second draft board
  entries2, snapshots2, history2, pc2, task2, failures2,                       \* of it and of other parts
  status, drafted, members, edits,                                             \* of CfaBoard
  need, floors, eligible, expiring, scores, runs, breakdowns, links, audits,   \* of FitRuns
  lines, assigned, reports, lists, assignments, views,                         \* of Scouting
  records, sections                                                            \* of SharedReports

boardVars == <<board2, versions2, rankings2, consensus2>>
requestVars == <<pc2, task2, failures2>>
cfaVars == <<status, drafted, edits>>
fitVars == <<need, floors, eligible, expiring, runs, breakdowns, links>>
deskVars == <<lines, assigned, reports, lists, assignments, views>>
sharedVars == <<records, sections>>
allVars ==
  <<vars, part, boardVars, entries2, snapshots2, history2, requestVars, cfaVars, members, fitVars, scores, audits,
    deskVars, sharedVars>>

MCRole == ann :> "scouting_director" @@ bob :> "analyst"
MCGroup == p1 :> "D" @@ p2 :> "F" @@ p3 :> "D"
MCRoleScore == p1 :> 50 @@ p2 :> None @@ p3 :> 70
MCFitScore == p1 :> 40 @@ p2 :> 30 @@ p3 :> None
MCFirstOrder == <<p1, p3>>

(* Forms of one field and of two, on an unlocked board only and on any.    *)
RoundForm == [round |-> "first", note |-> "n"]
MCForms == {RoundForm, [floor |-> "depth"], [note |-> "m", recommendation |-> "take"]}

Edited == INSTANCE DraftBoard WITH ScoutRanks <- {}, MaxFailures <- 0

Failing ==
  INSTANCE DraftBoard WITH Users <- {ann}, ScoutRanks <- {}, DirectorRanks <- {}, Forms <- {},
    Statuses <- {}, MaxVersion <- 5

Ranked ==
  INSTANCE DraftBoard WITH Users <- {ann}, Prospects <- {p1}, DirectorRanks <- {}, Forms <- {},
    Statuses <- {}, MaxFailures <- 0, MaxVersion <- 5

Crossing ==
  INSTANCE DraftBoard WITH board <- board2, entries <- entries2, versions <- versions2, snapshots <- snapshots2,
    history <- history2, rankings <- rankings2, consensus <- consensus2, pc <- pc2, task <- task2, failures <- failures2,
    Users <- {ann}, Prospects <- {p1}, FirstOrder <- <<p1>>, Editors <- {e1, e2}, Submitters <- {}, Scouts <- {},
    Forms <- {RoundForm}, Statuses <- {"locked"}, MaxFailures <- 1, MaxVersion <- 3

Cfa ==
  INSTANCE CfaBoard WITH entries <- entries2, history <- history2, pc <- pc2, task <- task2, failures <- failures2,
    Agent <- p1 :> jo @@ p2 :> None @@ p3 :> None, Fields <- {"agent", "staff"},
    Values <- "agent" :> {al} @@ "staff" :> {m1}, FirstMembers <- {m1}, Role <- [e \in Editors |-> "analyst"],
    MaxFailures <- 1, MaxEdits <- 4

(* The ranks that four scouts may give a prospect, one to six.             *)
FourScouts == 1..4
Ranked6 == [FourScouts -> 1..6 \cup {None}]

FitRole == [r \in {f1, f2, r1, r2, r3} |-> "scouting_director"]
OfficeSymmetry == Permutations({f1, f2}) \cup Permutations({d1, d2}) \cup Permutations({r1, r2, r3})
DeskRole == u1 :> "scouting_director" @@ u2 :> "scout"

Fit ==
  INSTANCE FitRuns WITH snapshots <- snapshots2, pc <- pc2, task <- task2, failures <- failures2,
    Prospects <- {d1, d2}, Contracts <- {"c1"}, GradeKeys <- {"skating", "compete"},
    Requests <- {f1, f2}, Role <- FitRole, MaxOpen <- 2, MaxFailures <- 1

Alone ==
  INSTANCE FitRuns WITH snapshots <- snapshots2, pc <- pc2, task <- task2, failures <- failures2,
    Prospects <- {d1, d2}, Contracts <- {"c1"}, GradeKeys <- {"skating"},
    Requests <- {r1, r2, r3}, Role <- FitRole, MaxOpen <- 1, MaxFailures <- 1

Desk ==
  INSTANCE Scouting WITH entries <- entries2, pc <- pc2, task <- task2, Orgs <- {"o1", "o2"}, Prospects <- {p1, p2}, OrgOf <- p1 :> "o1" @@ p2 :> "o2",
    Users <- {u1, u2}, Role <- DeskRole, Archetypes <- {a1}, Requests <- {r1, r2}, Seasons <- {}, MaxVersion <- 0,
    MaxOpen <- 2, Kinds <- {"roles", "report", "watch", "new list", "unwatch", "assign", "save view", "delete view"}

Lists ==
  INSTANCE Scouting WITH entries <- entries2, pc <- pc2, task <- task2, Orgs <- {"o1", "o2"}, Prospects <- {p1, p2}, OrgOf <- p1 :> "o1" @@ p2 :> "o2",
    Users <- {u1, u2}, Role <- DeskRole, Archetypes <- {a1}, Requests <- {r1, r2, r3}, Seasons <- {}, MaxVersion <- 0,
    MaxOpen <- 2, Kinds <- {"watch", "new list", "unwatch"}

Visits ==
  INSTANCE Scouting WITH entries <- entries2, pc <- pc2, task <- task2, Orgs <- {"o1"}, Prospects <- {p1}, OrgOf <- p1 :> "o1", Users <- {u1, u2}, Role <- DeskRole,
    Archetypes <- {a1, a2}, Requests <- {r1, r2, r3}, Seasons <- 1..2, MaxVersion <- 2, MaxOpen <- 2, Kinds <- {"profile"}

Visit ==
  INSTANCE Scouting WITH entries <- entries2, pc <- pc2, task <- task2, Orgs <- {"o1"}, Prospects <- {p1}, OrgOf <- p1 :> "o1", Users <- {u1, u2}, Role <- DeskRole,
    Archetypes <- {a1, a2}, Requests <- {r1, r2, r3}, Seasons <- 1..2, MaxVersion <- 2, MaxOpen <- 1, Kinds <- {"profile"}

Shared ==
  INSTANCE SharedReports WITH pc <- pc2, task <- task2, failures <- failures2,
    Orgs <- {"o1", "o2"}, Teams <- {t1, t2}, Users <- {u1}, Requests <- {r1, r2, r3},
    OrgOf <- t1 :> "o1" @@ t2 :> "o2", SeasonsOf <- t1 :> {"s1"} @@ t2 :> {"s1", "s2"},
    Role <- u1 :> "analyst", MaxEdits <- 1, MaxFailures <- 1

NoBoard == board2 = None /\ versions2 = None /\ rankings2 = None /\ consensus2 = None
NoRequests == pc2 = None /\ task2 = None /\ failures2 = None
NoCfa == status = None /\ drafted = None /\ edits = None
NoFit ==
  /\ need = None /\ floors = None /\ eligible = None /\ expiring = None
  /\ runs = None /\ breakdowns = None /\ links = None
NoDesk ==
  /\ lines = None /\ assigned = None /\ reports = None
  /\ lists = None /\ assignments = None /\ views = None
NoScores == scores = None /\ audits = None
NoShared == records = None /\ sections = None

NotCrossing == NoCfa /\ NoFit /\ NoDesk /\ NoScores /\ NoShared /\ members = None
NotDraft == NoBoard /\ NoRequests /\ NotCrossing /\ entries2 = None /\ snapshots2 = None /\ history2 = None
NotCfa == NoBoard /\ NoFit /\ NoDesk /\ NoScores /\ NoShared /\ snapshots2 = None
NotFit == NoBoard /\ NoCfa /\ NoDesk /\ NoShared /\ history2 = None /\ entries2 = None /\ members = None
NotDesk == NoBoard /\ NoCfa /\ NoFit /\ NoShared /\ history2 = None /\ snapshots2 = None /\ failures2 = None
NotShared ==
  /\ NoBoard /\ NoCfa /\ NoFit /\ history2 = None /\ snapshots2 = None /\ entries2 = None
  /\ scores = None /\ lines = None /\ assigned = None /\ lists = None /\ assignments = None

OfficeInit ==
  /\ Init
  /\ \/ part \in {"editing", "failing", "ranked"} /\ NotDraft
     \/ part = "crossing" /\ Crossing!Init /\ NotCrossing
     \/ part = "agents" /\ Cfa!Init /\ NotCfa
     \/ part = "fit" /\ Fit!Init /\ NotFit
     \/ part = "fit alone" /\ Alone!Init /\ NotFit
     \/ part = "desk" /\ Desk!Init /\ NotDesk
     \/ part = "lists" /\ Lists!Init /\ NotDesk
     \/ part = "visits" /\ Visits!Init /\ NotDesk
     \/ part = "visit" /\ Visit!Init /\ NotDesk
     \/ part = "shared" /\ Shared!Init /\ NotShared
     \/ /\ part = "numbers" /\ rankings2 \in Ranked6 /\ NotCrossing /\ NoRequests
        /\ board2 = None /\ versions2 = None /\ consensus2 = None /\ entries2 = None /\ snapshots2 = None /\ history2 = None

(* What a step of a part leaves alone: the variables it does not have.     *)
KeepsDraft ==
  UNCHANGED <<part, boardVars, entries2, snapshots2, history2, requestVars, cfaVars, fitVars, deskVars, sharedVars,
              scores, audits, members>>
KeepsCrossing == UNCHANGED <<part, vars, cfaVars, fitVars, deskVars, sharedVars, scores, audits, members>>
KeepsCfa == UNCHANGED <<part, vars, boardVars, fitVars, deskVars, sharedVars, scores, audits, snapshots2>>
KeepsFit == UNCHANGED <<part, vars, boardVars, cfaVars, deskVars, sharedVars, history2, entries2, members>>
KeepsDesk == UNCHANGED <<part, vars, boardVars, cfaVars, fitVars, sharedVars, history2, snapshots2, failures2>>
KeepsShared ==
  UNCHANGED <<part, vars, boardVars, cfaVars, fitVars, history2, snapshots2, entries2, scores, lines, assigned, lists,
              assignments>>

OfficeNext ==
  \/ part = "editing" /\ Edited!Next /\ KeepsDraft
  \/ part = "failing" /\ Failing!Next /\ KeepsDraft
  \/ part = "ranked" /\ Ranked!Next /\ KeepsDraft
  \/ part = "crossing" /\ Crossing!Next /\ KeepsCrossing
  \/ part = "agents" /\ Cfa!Next /\ KeepsCfa
  \/ part = "fit" /\ Fit!Next /\ KeepsFit
  \/ part = "fit alone" /\ Alone!Next /\ KeepsFit
  \/ part = "desk" /\ Desk!Next /\ KeepsDesk
  \/ part = "lists" /\ Lists!Next /\ KeepsDesk
  \/ part = "visits" /\ Visits!Next /\ KeepsDesk
  \/ part = "visit" /\ Visit!Next /\ KeepsDesk
  \/ part = "shared" /\ Shared!Next /\ KeepsShared

OfficeSpec == OfficeInit /\ [][OfficeNext]_allVars

-----------------------------------------------------------------------------
(* Ranked from the other end of the list, the scouts' consensus is the     *)
(* mirror image: neither mean nor median prefers a side, and the measures  *)
(* of disagreement are the same (computeConsensus).                        *)
Mirrored(S) ==
  LET c == ConsensusOf(S, rankings2)
      d == ConsensusOf(S, [u \in S |-> 7 - rankings2[u]])
  IN  /\ d.mean = 700 - c.mean /\ d.median = 70 - c.median
      /\ d.best = 7 - c.worst /\ d.worst = 7 - c.best
      /\ d.spread = c.spread /\ d.deviation = c.deviation
      /\ d.insufficient = c.insufficient /\ d.disagree = c.disagree

(* The deviation is that of all pairs of submitted ranks: its square, with *)
(* an allowance of the rounding, is half their mean squared difference.    *)
DeviationOfPairs(S) ==
  LET n == Cardinality(S)
      pairs == MapThenSumSet(LAMBDA p : (rankings2[p[1]] - rankings2[p[2]]) * (rankings2[p[1]] - rankings2[p[2]]), S \X S)
      d == ConsensusOf(S, rankings2).deviation
  IN  /\ pairs * 5000 <= (d + 1) * (d + 1) * n * n
      /\ d > 0 => (d - 1) * (d - 1) * n * n <= pairs * 5000

(* Any consensus treats both ends of the list alike and measures the       *)
(* scouts' disagreement as the pairs of their ranks do; what is logged     *)
(* under a version, however requests cross, has its snapshot and is of one *)
(* edit; priorities number the candidates of a free-agent board, and an    *)
(* entry's history explains every field, but for one entry for each        *)
(* request that failed; links to reports are made and revoked in the audit *)
(* log, but for such a request.                                            *)
OthersTold ==
  /\ part = "numbers" =>
       LET S == {u \in FourScouts : rankings2[u] # None} IN S # {} => Mirrored(S) /\ DeviationOfPairs(S)
  /\ part = "crossing" => Crossing!HistoryHasSnapshot /\ Crossing!OneEditPerVersion
  /\ part = "agents" => Cfa!PrioritiesDense /\ Cfa!HistoryExplains /\ Cfa!UnexplainedPerFailure
  /\ part = "shared" => Shared!SharingAudited

(* Rows and requests keep their types.                                     *)
DeskTypeOK ==
  CASE part = "crossing" -> Crossing!TypeOK
    [] part = "agents" -> Cfa!TypeOK
    [] part = "fit" -> Fit!TypeOK
    [] part = "fit alone" -> Alone!TypeOK
    [] part = "desk" -> Desk!TypeOK
    [] part = "lists" -> Lists!TypeOK
    [] part = "visits" -> Visits!TypeOK
    [] part = "visit" -> Visit!TypeOK
    [] part \in {"editing", "failing", "ranked"} -> TypeOK
    [] OTHER -> TRUE

(* No row ties a prospect to another organization than his, whichever      *)
(* request of whichever organization wrote which part of it, and requests  *)
(* that cross put a prospect on a watchlist once; a link shows the whole   *)
(* of one frozen report of an own team; rows keep their types.             *)
OneOrganization ==
  /\ DeskTypeOK
  /\ part = "desk" => Desk!OwnRowsOnly
  /\ part = "lists" => Lists!OwnRowsOnly /\ Lists!ListedOnce
  /\ part = "shared" => Shared!FrozenAndOwn /\ Shared!OfOneRequest

(* Runs that cross never leave a score unexplained, and a run that says it *)
(* is complete is; one after the other, between requests, a score has its  *)
(* own breakdown and no other, but for one score per failure, and the      *)
(* links are those of one run.  Two visits of a page at once leave one     *)
(* score per role and season, and every score of the line each has read.   *)
ScoresWhole ==
  CASE part = "fit" -> Fit!NeverUnexplained /\ Fit!CompleteIsWhole
    [] part = "fit alone" -> Alone!OneBreakdown /\ Alone!LinksOfOneRun /\ Alone!CompleteIsWhole
    [] part = "visits" -> Visits!OneScorePerRole
    [] OTHER -> TRUE

(* A visit that has not crossed another leaves the scores of the line it   *)
(* has read, and none of an older one among those it has computed; a run   *)
(* that has not crossed another leaves all it evaluated ranked by itself;  *)
(* views are deleted by who has saved them; a shared report never changes  *)
(* and its link, once revoked, never stands again.                         *)
LastWriterTold ==
  [][/\ part = "visit" => \A r \in {r1, r2, r3} : Visit!Refreshes(r)
     /\ part = "fit alone" => \A r \in {r1, r2, r3} : Alone!RanksAll(r)
     /\ part = "desk" => \A v \in views \ views' : Desk!DeletedByOwner(v)
     /\ part = "shared" => Shared!NeverBack]_allVars
=============================================================================
