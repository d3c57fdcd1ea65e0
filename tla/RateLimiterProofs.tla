------------------------- MODULE RateLimiterProofs -------------------------
(***************************************************************************)
(* Proofs about what leaves the server for the NHL.  RateLimiter: the chain*)
(* of promises of a host serves its requests one at a time, in order, and  *)
(* spaced by the host's interval, for any number of hosts and requests.    *)
(* LeagueViews: what the visitors of the two league pages are shown, for   *)
(* any number of visits, dates and seasons, any times to live, and reports *)
(* that change without end.                                                *)
(***************************************************************************)
EXTENDS RateLimiter, LeagueViews, TLAPS

(* The request at the end of a host's chain is the latest one made to it.  *)
QueueInv ==
  /\ \A r \in Requests : pc[r] = "idle" <=> host[r] = None
  /\ \A r \in Requests : host[r] # None => ticket[r] >= 1
  /\ \A h \in Hosts : queue[h] # None => host[queue[h]] = h
  /\ \A r \in Requests : host[r] # None =>
       queue[host[r]] # None /\ ticket[r] <= ticket[queue[host[r]]]
  /\ \A r, s \in Requests :
       host[r] # None /\ host[r] = host[s] /\ ticket[r] = ticket[s] => r = s

(* A request is chained behind the one its host saw just before it.        *)
ChainInv ==
  \A r \in Requests : host[r] # None =>
    \/ prev[r] = None /\ ticket[r] = 1
    \/ /\ prev[r] \in Requests
       /\ host[prev[r]] = host[r]
       /\ ticket[r] = ticket[prev[r]] + 1

(* A timer is armed for the end of the interval of the last start.         *)
TimerInv ==
  \A r \in Requests : pc[r] = "sleeping" =>
    lastStart[host[r]] # None /\ wake[r] = lastStart[host[r]] + Interval[host[r]]

IInv == TypeOK /\ QueueInv /\ ChainInv /\ Serialized /\ TimerInv

USE IntervalAssumption, EarlyAssumption, IdleAssumption, NoneAssumption

-----------------------------------------------------------------------------
(* When a request's turn has come, everyone chained before it has settled. *)
LEMMA EarlierSettled ==
  ASSUME IInv, NEW r \in Requests, pc[r] = "chained", MyTurn(r),
         NEW s \in Requests, host[s] = host[r], ticket[s] < ticket[r]
  PROVE  Settled(s)
<1> USE DEF IInv, TypeOK, QueueInv
<1>1. host[r] \in Hosts /\ ticket[s] >= 1
  OBVIOUS
<1>2. PICK p \in Requests : /\ p = prev[r]
                            /\ host[p] = host[r]
                            /\ ticket[r] = ticket[p] + 1
                            /\ Settled(p)
  BY <1>1 DEF ChainInv, MyTurn
<1>3. CASE ticket[s] = ticket[p]
  BY <1>1, <1>2, <1>3
<1>4. CASE ticket[s] < ticket[p]
  BY <1>1, <1>2, <1>4 DEF Serialized, Underway, Settled
<1> QED BY <1>1, <1>2, <1>3, <1>4

(* The request whose turn it is, or whose timer runs, is the only one of   *)
(* its host with a timer.                                                  *)
LEMMA Alone ==
  ASSUME IInv, NEW r \in Requests,
         (pc[r] = "chained" /\ MyTurn(r)) \/ pc[r] = "sleeping",
         NEW s \in Requests, pc[s] = "sleeping", host[s] = host[r]
  PROVE  s = r
<1> SUFFICES ASSUME s # r PROVE FALSE
  OBVIOUS
<1>1. host[r] \in Hosts /\ ticket[r] \in Nat /\ ticket[s] \in Nat
  BY DEF IInv, TypeOK, QueueInv
<1>2. ticket[s] # ticket[r]
  BY <1>1 DEF IInv, QueueInv
<1>3. CASE ticket[r] < ticket[s]
  BY <1>3 DEF IInv, Serialized, Underway, Settled
<1>4. CASE ticket[s] < ticket[r]
  <2>1. CASE pc[r] = "sleeping"
    BY <1>4, <2>1 DEF IInv, Serialized, Underway, Settled
  <2>2. CASE pc[r] = "chained" /\ MyTurn(r)
    BY <1>4, <2>2, EarlierSettled DEF Settled
  <2> QED BY <2>1, <2>2
<1> QED BY <1>1, <1>2, <1>3, <1>4

-----------------------------------------------------------------------------
LEMMA InitIInv == Init => IInv
BY DEF Init, IInv, TypeOK, QueueInv, ChainInv, Serialized, Underway, Settled, TimerInv

LEMMA AcquireIInv ==
  ASSUME IInv, NEW r \in Requests, NEW h \in Hosts, Acquire(r, h)
  PROVE  IInv'
<1> USE DEF IInv, Acquire
<1>1. TypeOK'
  BY DEF TypeOK
<1>2. QueueInv'
  <2>1. host[r] = None
    BY DEF QueueInv
  <2>2. ticket'[r] \in Nat /\ ticket'[r] >= 1
    BY DEF TypeOK
  <2>3. \A s \in Requests : host[s] = h => ticket[s] < ticket'[r]
    BY <2>2 DEF TypeOK, QueueInv
  <2> QED BY <1>1, <2>1, <2>2, <2>3 DEF TypeOK, QueueInv
<1>3. ChainInv'
  BY DEF TypeOK, QueueInv, ChainInv
<1>4. Serialized'
  <2>1. host[r] = None
    BY DEF QueueInv
  <2>2. \A s \in Requests : host[s] = h => ticket[s] < ticket'[r]
    BY DEF TypeOK, QueueInv
  <2> QED BY <2>1, <2>2 DEF TypeOK, QueueInv, Serialized, Underway, Settled
<1>5. TimerInv'
  BY DEF TypeOK, QueueInv, TimerInv
<1> QED BY <1>1, <1>2, <1>3, <1>4, <1>5

(* The start of a request whose turn has come, with or without a sleep.    *)
LEMMA StartIInv ==
  ASSUME IInv, NEW r \in Requests, Start(r),
         (pc[r] = "chained" /\ MyTurn(r)) \/ pc[r] = "sleeping"
  PROVE  IInv'
<1> USE DEF IInv, Start
<1>0. host[r] \in Hosts
  BY DEF TypeOK, QueueInv
<1>1. TypeOK'
  BY DEF TypeOK
<1>2. QueueInv' /\ ChainInv'
  BY <1>0 DEF TypeOK, QueueInv, ChainInv
<1>3. Serialized'
  <2>1. \A s \in Requests : host[s] = host[r] /\ ticket[s] < ticket[r] => Settled(s)
    BY EarlierSettled DEF Serialized, Underway
  <2> QED BY <2>1 DEF TypeOK, Serialized, Underway, Settled
<1>4. TimerInv'
  BY <1>0, Alone DEF TypeOK, TimerInv
<1> QED BY <1>1, <1>2, <1>3, <1>4

LEMMA SleepIInv ==
  ASSUME IInv, NEW r \in Requests, Sleep(r)
  PROVE  IInv'
<1> USE DEF IInv, Sleep, MustWait
<1>0. host[r] \in Hosts
  BY DEF TypeOK, QueueInv
<1>1. TypeOK'
  BY <1>0 DEF TypeOK
<1>2. QueueInv' /\ ChainInv'
  BY <1>0 DEF TypeOK, QueueInv, ChainInv
<1>3. Serialized'
  <2>1. \A s \in Requests : host[s] = host[r] /\ ticket[s] < ticket[r] => Settled(s)
    BY EarlierSettled
  <2> QED BY <2>1 DEF TypeOK, Serialized, Underway, Settled
<1>4. TimerInv'
  BY <1>0 DEF TypeOK, TimerInv
<1> QED BY <1>1, <1>2, <1>3, <1>4

LEMMA SleepFailsIInv ==
  ASSUME IInv, NEW r \in Requests, SleepFails(r)
  PROVE  IInv'
BY DEF IInv, SleepFails, TypeOK, QueueInv, ChainInv, Serialized, Underway, Settled, TimerInv

LEMMA NextIInv == IInv /\ [Next]_vars => IInv'
<1> SUFFICES ASSUME IInv, [Next]_vars PROVE IInv'
  OBVIOUS
<1>1. CASE Tick
  BY <1>1 DEF IInv, Tick, TypeOK, QueueInv, ChainInv, Serialized, Underway, Settled, TimerInv
<1>2. ASSUME NEW r \in Requests, NEW h \in Hosts, Acquire(r, h) PROVE IInv'
  BY <1>2, AcquireIInv
<1>3. ASSUME NEW r \in Requests, StartAtOnce(r) PROVE IInv'
  BY <1>3, StartIInv DEF StartAtOnce
<1>4. ASSUME NEW r \in Requests, Sleep(r) PROVE IInv'
  BY <1>4, SleepIInv
<1>5. ASSUME NEW r \in Requests, Wake(r) PROVE IInv'
  BY <1>5, StartIInv DEF Wake
<1>6. ASSUME NEW r \in Requests, SleepFails(r) PROVE IInv'
  BY <1>6, SleepFailsIInv
<1>7. CASE UNCHANGED vars
  BY <1>7 DEF vars, IInv, TypeOK, QueueInv, ChainInv, Serialized, Underway, Settled, TimerInv
<1> QED BY <1>1, <1>2, <1>3, <1>4, <1>5, <1>6, <1>7 DEF Next, Step

LEMMA Invariance == Spec => []IInv
BY InitIInv, NextIInv, PTL DEF Spec

-----------------------------------------------------------------------------
(* The variables keep their types, whatever hosts and requests there are.  *)
THEOREM TypeCorrect == Spec => []TypeOK
BY Invariance, PTL DEF IInv

(* One host's requests are served one at a time and in the order acquire   *)
(* was called.                                                             *)
THEOREM SerializedAlways == Spec => []Serialized
BY Invariance, PTL DEF IInv

(* Two starts to one host are at least an interval apart, less the early   *)
(* firing of a timer.                                                      *)
THEOREM SpacingHolds == Spec => Spacing
<1> DEFINE Apart == \A h \in Hosts :
      lastStart'[h] # lastStart[h] /\ lastStart[h] # None
        => lastStart'[h] - lastStart[h] >= Interval[h] - Early
<1>1. ASSUME IInv, [Next]_vars PROVE [Apart]_vars
  <2> SUFFICES ASSUME NEW h \in Hosts,
                      lastStart'[h] # lastStart[h], lastStart[h] # None
               PROVE  lastStart'[h] - lastStart[h] >= Interval[h] - Early
    OBVIOUS
  <2>1. PICK r \in Requests : StartAtOnce(r) \/ Wake(r)
    BY <1>1 DEF Next, Step, Tick, Sleep, SleepFails, Acquire, vars
  <2>2. host[r] = h /\ lastStart'[h] = now
    BY <1>1, <2>1 DEF IInv, TypeOK, QueueInv, StartAtOnce, Wake, Start
  <2>3. now \in Nat /\ lastStart[h] \in Nat /\ Interval[h] \in Nat
    BY <1>1 DEF IInv, TypeOK
  <2>4. CASE StartAtOnce(r)
    BY <2>2, <2>3, <2>4 DEF StartAtOnce, MustWait
  <2>5. CASE Wake(r)
    BY <1>1, <2>2, <2>3, <2>5 DEF Wake, IInv, TimerInv
  <2> QED BY <2>1, <2>4, <2>5
<1> QED BY <1>1, Invariance, PTL DEF Spec, Spacing
-----------------------------------------------------------------------------
(***************************************************************************)
(* The pages.                                                              *)
(*                                                                         *)
(* The invariant: a visit is shown what was heard after it began, or what  *)
(* a board in memory says whose time to live has not passed since it was   *)
(* asked for; what is kept of a season was not fetched later than now; and *)
(* a season has a download in progress just when it is marked.             *)
(***************************************************************************)
VisitRow(x) == x = [at |-> x.at, page |-> x.page, since |-> x.since, what |-> x.what, heard |-> x.heard]

(* What a visit x may be at time t.                                        *)
VisitOK(x, t) ==
  /\ VisitRow(x) /\ x.since \in Nat /\ x.since <= t
  /\ x.at \in {"asked", "answered"} => x.page \in Dates
  /\ x.at = "answered" => x.heard \in Nat /\ x.since <= x.heard
  /\ x.at = "downloading" => x.page \in Seasons /\ x.what \in Seq(Answers)
  /\ x.at = "shown" /\ x.page \in Dates => x.since - x.heard < BoardTtl(x.page, x.what)

(* What is kept of a board of date d, and of a season, at time t.          *)
BoardOK(b, d) == b.at \in Nat /\ b.heard \in Nat /\ b.at <= b.heard /\ b.ttl = BoardTtl(d, b.board)
CopyOK(c, t) == c \in Copies /\ c.fetchedAt <= t

VisitsInv ==
  /\ visit = [v \in Visits |-> visit[v]]
  /\ \A v \in Visits : visit[v] # Nothing => VisitOK(visit[v], clock)

BoardsInv ==
  /\ boards = [d \in Dates |-> boards[d]]
  /\ \A d \in Dates : boards[d] # Nothing => BoardOK(boards[d], d)

CopiesInv ==
  /\ memory = [s \in Seasons |-> memory[s]]
  /\ \A s \in Seasons : memory[s] # Nothing => CopyOK(memory[s], clock)
  /\ files = [s \in Seasons |-> files[s]]
  /\ \A s \in Seasons : files[s] \notin {Nothing, Junk} => CopyOK(files[s], clock)

JobsInv ==
  /\ job \in [Seasons -> Seq(Answers) \cup {Nothing}]
  /\ refreshing \subseteq Seasons
  /\ OneRefresh

PagesInv ==
  /\ clock \in Nat /\ league \in [Seasons -> Nat]
  /\ VisitsInv /\ BoardsInv /\ CopiesInv /\ JobsInv

USE TimesAssumption, PagesAssumption

-----------------------------------------------------------------------------
(* Visits and copies stay as good as they are while time goes on.          *)
LEMMA VisitStaysOK ==
  ASSUME NEW x, NEW t \in Nat, NEW u \in Nat, t <= u, VisitOK(x, t)
  PROVE  VisitOK(x, u)
BY DEF VisitOK

LEMMA CopyStaysOK ==
  ASSUME NEW c, NEW t \in Nat, NEW u \in Nat, t <= u, CopyOK(c, t)
  PROVE  CopyOK(c, u)
BY DEF CopyOK, Copies

(* A board lives for some time.                                            *)
LEMMA BoardLives ==
  ASSUME NEW d, NEW b
  PROVE  BoardTtl(d, b) \in Nat \ {0}
BY DEF BoardTtl

(* A visit that has come to something.                                     *)
LEMMA RowSet ==
  ASSUME NEW x, VisitRow(x), NEW a, NEW w, NEW h
  PROVE  [x EXCEPT !.at = a, !.what = w, !.heard = h] =
           [at |-> a, page |-> x.page, since |-> x.since, what |-> w, heard |-> h]
<1> DEFINE y == [x EXCEPT !.at = a]
           z == [y EXCEPT !.what = w]
<1>1. y = [at |-> a, page |-> x.page, since |-> x.since, what |-> x.what, heard |-> x.heard]
  BY DEF VisitRow
<1>2. z = [at |-> a, page |-> x.page, since |-> x.since, what |-> w, heard |-> x.heard]
  <2> HIDE DEF y
  <2> QED BY <1>1
<1>3. [z EXCEPT !.heard = h] = [at |-> a, page |-> x.page, since |-> x.since, what |-> w, heard |-> h]
  <2> HIDE DEF z
  <2> QED BY <1>2
<1> QED BY <1>3

(* Where one visit moves, to where a visit may be, all are.                *)
LEMMA OneVisitMoves ==
  ASSUME VisitsInv, NEW v \in Visits, NEW x, visit' = [visit EXCEPT ![v] = x],
         clock' = clock, VisitOK(x, clock)
  PROVE  VisitsInv'
<1>1. visit' = [w \in Visits |-> visit'[w]]
  BY DEF VisitsInv
<1>2. ASSUME NEW w \in Visits, visit'[w] # Nothing PROVE VisitOK(visit'[w], clock)
  <2>1. CASE w = v
    BY <2>1 DEF VisitsInv
  <2>2. CASE w # v
    BY <1>2, <2>2 DEF VisitsInv
  <2> QED BY <2>1, <2>2
<1> QED BY <1>1, <1>2 DEF VisitsInv

(* A visit that has failed shows nothing.                                  *)
LEMMA FailedOK ==
  ASSUME VisitsInv, NEW v \in Visits, visit[v] # Nothing, visit' = Failed(v), clock' = clock
  PROVE  VisitsInv'
<1> DEFINE x == [visit[v] EXCEPT !.at = "failed"]
<1>1. visit' = [visit EXCEPT ![v] = x]
  BY DEF Failed
<1>2. VisitOK(x, clock)
  <2>1. VisitOK(visit[v], clock)
    BY DEF VisitsInv
  <2>2. x = [at |-> "failed", page |-> visit[v].page, since |-> visit[v].since,
             what |-> visit[v].what, heard |-> visit[v].heard]
    BY <2>1 DEF VisitOK, VisitRow
  <2> QED BY <2>1, <2>2 DEF VisitOK, VisitRow
<1> HIDE DEF x
<1> QED BY <1>1, <1>2, OneVisitMoves

-----------------------------------------------------------------------------
(* The scoreboard.                                                         *)
LEMMA ScoreboardAsked ==
  ASSUME PagesInv, NEW v \in Visits, NEW d \in Dates, getScoreboard(v, d)
  PROVE  VisitsInv'
<1> DEFINE hit == boards[d]
           asked == [at |-> "asked", page |-> d, since |-> clock, what |-> Nothing, heard |-> Nothing]
           shown == [at |-> "shown", page |-> d, since |-> clock, what |-> hit.board, heard |-> hit.heard]
           lives == hit # Nothing /\ clock - hit.at < hit.ttl
<1>1. visit' = [visit EXCEPT ![v] = IF lives THEN shown ELSE asked] /\ clock' = clock
  <2>1. [asked EXCEPT !.at = "shown", !.what = hit.board, !.heard = hit.heard] = shown
    <3>1. VisitRow(asked) /\ asked.page = d /\ asked.since = clock
      BY DEF VisitRow
    <3> HIDE DEF asked
    <3> QED BY <3>1, RowSet
  <2>2. CASE lives
    BY <2>1, <2>2 DEF getScoreboard
  <2>3. CASE ~lives
    BY <2>3 DEF getScoreboard
  <2> QED BY <2>2, <2>3
<1>2. VisitOK(asked, clock)
  BY DEF VisitOK, VisitRow, PagesInv
<1>3. ASSUME lives PROVE VisitOK(shown, clock)
  <2>1. BoardOK(hit, d) /\ clock \in Nat
    BY <1>3 DEF PagesInv, BoardsInv
  <2>2. clock - hit.heard < BoardTtl(d, hit.board)
    BY <1>3, <2>1, BoardLives DEF BoardOK
  <2> HIDE DEF hit
  <2> QED BY <2>1, <2>2 DEF VisitOK, VisitRow
<1> HIDE DEF asked, shown, lives
<1>4. VisitOK(IF lives THEN shown ELSE asked, clock)
  BY <1>2, <1>3
<1> QED BY <1>1, <1>4, OneVisitMoves DEF PagesInv

LEMMA BoardAnswered ==
  ASSUME PagesInv, NEW v \in Visits, AnswerBoard(v)
  PROVE  VisitsInv'
<1>1. visit[v] # Nothing /\ visit[v].at = "asked" /\ clock' = clock /\ VisitsInv /\ clock \in Nat
  BY DEF AnswerBoard, PagesInv
<1>2. CASE visit' = Failed(v)
  BY <1>1, <1>2, FailedOK
<1>3. ASSUME NEW body, visit' = [visit EXCEPT ![v] = [@ EXCEPT !.at = "answered", !.what = body, !.heard = clock]]
      PROVE  VisitsInv'
  <2> DEFINE x == [at |-> "answered", page |-> visit[v].page, since |-> visit[v].since, what |-> body, heard |-> clock]
  <2>1. VisitOK(visit[v], clock)
    BY <1>1 DEF VisitsInv
  <2>2. visit' = [visit EXCEPT ![v] = x]
    <3>1. [visit[v] EXCEPT !.at = "answered", !.what = body, !.heard = clock] = x
      BY <2>1, RowSet DEF VisitOK
    <3> QED BY <1>3, <3>1
  <2>3. VisitOK(x, clock)
    BY <1>1, <2>1 DEF VisitOK, VisitRow
  <2> HIDE DEF x
  <2> QED BY <1>1, <2>2, <2>3, OneVisitMoves
<1> QED BY <1>2, <1>3 DEF AnswerBoard

LEMMA BoardReceived ==
  ASSUME PagesInv, NEW v \in Visits, ReceiveBoard(v)
  PROVE  VisitsInv' /\ BoardsInv'
<1> DEFINE board == parseScoreboard(visit[v].what)
           d == visit[v].page
<1>1. visit[v] # Nothing /\ visit[v].at = "answered" /\ clock' = clock /\ VisitsInv /\ BoardsInv
  BY DEF ReceiveBoard, PagesInv
<1>2. VisitOK(visit[v], clock)
  BY <1>1 DEF VisitsInv
<1>3. /\ d \in Dates /\ visit[v].since \in Nat /\ visit[v].heard \in Nat
      /\ visit[v].since <= visit[v].heard /\ visit[v].since <= clock
  BY <1>1, <1>2 DEF VisitOK
<1>4. CASE board = Nothing
  <2>1. visit' = Failed(v) /\ boards' = boards
    BY <1>4 DEF ReceiveBoard
  <2> QED BY <1>1, <2>1, FailedOK DEF BoardsInv
<1>5. CASE board # Nothing
  <2> DEFINE x == [at |-> "shown", page |-> d, since |-> visit[v].since, what |-> board, heard |-> visit[v].heard]
             b == [at |-> visit[v].since, ttl |-> BoardTtl(d, board), board |-> board, heard |-> visit[v].heard]
  <2>1. visit' = Shown(v, board, visit[v].heard) /\ boards' = [boards EXCEPT ![d] = b]
    BY <1>5 DEF ReceiveBoard, BoardAt
  <2>2. visit' = [visit EXCEPT ![v] = x]
    <3>1. [visit[v] EXCEPT !.at = "shown", !.what = board, !.heard = visit[v].heard] = x
      BY <1>2, RowSet DEF VisitOK
    <3> QED BY <2>1, <3>1 DEF Shown
  <2>3. VisitOK(x, clock)
    <3>1. BoardTtl(d, board) \in Nat \ {0}
      BY BoardLives
    <3>2. visit[v].since - visit[v].heard < BoardTtl(d, board)
      BY <1>3, <3>1
    <3> HIDE DEF board, d
    <3> QED BY <1>3, <3>2 DEF VisitOK, VisitRow
  <2>4. BoardOK(b, d)
    BY <1>3 DEF BoardOK
  <2>5. VisitsInv'
    <3> HIDE DEF x
    <3> QED BY <1>1, <2>2, <2>3, OneVisitMoves
  <2>6. BoardsInv'
    <3> HIDE DEF b, d
    <3> QED BY <1>1, <1>3, <2>1, <2>4 DEF BoardsInv
  <2> QED BY <2>5, <2>6
<1> QED BY <1>4, <1>5

-----------------------------------------------------------------------------
(* The situations.                                                         *)
LEMMA RowGrows ==
  ASSUME NEW x, VisitRow(x), NEW w
  PROVE  [x EXCEPT !.what = w] = [at |-> x.at, page |-> x.page, since |-> x.since, what |-> w, heard |-> x.heard]
BY DEF VisitRow

(* Nobody is shown anything who was there before.                          *)
LEMMA NobodyNew ==
  ASSUME \A v \in Visits : visit[v] = Nothing => visit'[v] = Nothing
  PROVE  StaleIsRefreshed
BY DEF StaleIsRefreshed

LEMMA OneNotNew ==
  ASSUME VisitsInv, NEW v \in Visits, visit[v] # Nothing, NEW x, visit' = [visit EXCEPT ![v] = x]
  PROVE  StaleIsRefreshed
<1>1. ASSUME NEW w \in Visits, visit[w] = Nothing PROVE visit'[w] = Nothing
  BY <1>1 DEF VisitsInv
<1> QED BY <1>1, NobodyNew

(* Nothing is overwritten where nothing is kept.                           *)
LEMMA NothingKept ==
  ASSUME CopiesInv, memory' = memory, clock' = clock
  PROVE  NeverOlder
BY DEF NeverOlder, CopiesInv, CopyOK, Copies

(* What is kept for a season now was fetched now.                          *)
LEMMA NewCopyKept ==
  ASSUME CopiesInv, clock \in Nat, clock' = clock, NEW s \in Seasons, NEW got \in Seq(Answers),
         memory' = [memory EXCEPT ![s] = Raw(got)], writeFile(s, Raw(got))
  PROVE  CopiesInv' /\ NeverOlder
<1> DEFINE raw == Raw(got)
<1>1. CopyOK(raw, clock) /\ raw.fetchedAt = clock
  BY DEF Raw, CopyOK, Copies
<1>2. PICK file \in {files[s], Junk, raw} : files' = [files EXCEPT ![s] = file]
  BY DEF writeFile
<1> HIDE DEF raw
<1>3. memory' = [memory EXCEPT ![s] = raw]
  BY DEF raw
<1>4. CopiesInv'
  BY <1>1, <1>2, <1>3 DEF CopiesInv
<1>5. NeverOlder
  <2> SUFFICES ASSUME NEW u \in Seasons
               PROVE  /\ memory'[u] # Junk
                      /\ memory[u] # Nothing /\ memory'[u] # Nothing => memory'[u].fetchedAt >= memory[u].fetchedAt
    BY DEF NeverOlder
  <2>1. memory[u] # Nothing => memory[u].fetchedAt \in Nat /\ memory[u].fetchedAt <= clock /\ memory[u] # Junk
    BY DEF CopiesInv, CopyOK, Copies
  <2>2. memory'[u] = IF u = s THEN raw ELSE memory[u]
    BY <1>3 DEF CopiesInv
  <2>3. raw # Junk
    BY <1>1 DEF CopyOK
  <2> QED BY <1>1, <2>1, <2>2, <2>3
<1> QED BY <1>4, <1>5

LEMMA SeasonVisited ==
  ASSUME PagesInv, NEW v \in Visits, NEW s \in Seasons, getTeamSituations(v, s)
  PROVE  VisitsInv' /\ CopiesInv' /\ JobsInv' /\ StaleIsRefreshed /\ NeverOlder
<1> DEFINE raw == IF memory[s] # Nothing THEN memory[s] ELSE readFile(s)
           asked(at, what, heard) == [at |-> at, page |-> s, since |-> clock, what |-> what, heard |-> heard]
<1>1. visit[v] = Nothing /\ clock' = clock /\ clock \in Nat /\ VisitsInv /\ CopiesInv /\ JobsInv
  BY DEF getTeamSituations, PagesInv
<1>2. VisitOK(asked("failed", <<>>, Nothing), clock) /\ VisitOK(asked("downloading", <<>>, Nothing), clock)
  <2>1. VisitOK(asked("failed", <<>>, Nothing), clock)
    BY <1>1 DEF VisitOK, VisitRow
  <2>2. <<>> \in Seq(Answers)
    OBVIOUS
  <2>3. VisitOK(asked("downloading", <<>>, Nothing), clock)
    BY <1>1, <2>2 DEF VisitOK, VisitRow
  <2> QED BY <2>1, <2>3
<1>3. raw # Nothing => CopyOK(raw, clock)
  BY <1>1 DEF CopiesInv, readFile
<1>4. CASE raw = Nothing
  <2>1. visit' = [visit EXCEPT ![v] = asked("downloading", <<>>, Nothing)] /\ UNCHANGED seasonVars
    BY <1>4 DEF getTeamSituations
  <2>2. VisitsInv'
    <3>1. VisitOK(asked("downloading", <<>>, Nothing), clock)
      BY <1>2
    <3> HIDE DEF asked
    <3> QED BY <1>1, <2>1, <3>1, OneVisitMoves
  <2>3. StaleIsRefreshed
    <3> SUFFICES ASSUME NEW w \in Visits, visit[w] = Nothing, visit'[w] # Nothing
                 PROVE  visit'[w].at \notin {"shown", "failed"}
      BY DEF StaleIsRefreshed
    <3>1. w = v /\ visit'[w] = asked("downloading", <<>>, Nothing)
      BY <1>1, <2>1 DEF VisitsInv
    <3> QED BY <3>1
  <2> QED BY <1>1, <2>1, <2>2, <2>3, NothingKept DEF seasonVars, CopiesInv, JobsInv, OneRefresh
<1>5. CASE raw # Nothing
  <2>1. PICK x : /\ visit' = [visit EXCEPT ![v] = x] /\ x.page = s
                 /\ x.at \in {"shown", "failed"} /\ VisitOK(x, clock)
    <3>1. CASE Junk \in Range(raw.reports)
      <4>1. visit' = [visit EXCEPT ![v] = asked("failed", <<>>, Nothing)]
        BY <1>5, <3>1 DEF getTeamSituations
      <4> WITNESS asked("failed", <<>>, Nothing)
      <4> QED BY <1>2, <4>1
    <3>2. CASE Junk \notin Range(raw.reports)
      <4> DEFINE y == asked("downloading", <<>>, Nothing)
      <4>1. visit' = [visit EXCEPT ![v] = [y EXCEPT !.at = "shown", !.what = raw.reports, !.heard = raw.fetchedAt]]
        BY <1>5, <3>2 DEF getTeamSituations
      <4>2. [y EXCEPT !.at = "shown", !.what = raw.reports, !.heard = raw.fetchedAt]
              = asked("shown", raw.reports, raw.fetchedAt)
        <5>1. VisitRow(y) /\ y.page = s /\ y.since = clock
          BY DEF VisitRow
        <5> HIDE DEF y, raw
        <5> QED BY <5>1, RowSet
      <4> DEFINE x == asked("shown", raw.reports, raw.fetchedAt)
      <4>3. visit' = [visit EXCEPT ![v] = x]
        BY <4>1, <4>2
      <4>4. VisitOK(x, clock) /\ x.at = "shown" /\ x.page = s
        <5> HIDE DEF raw
        <5> QED BY <1>1 DEF VisitOK, VisitRow
      <4> HIDE DEF x
      <4> QED BY <4>3, <4>4
    <3> QED BY <3>1, <3>2
  <2>2. memory' = [memory EXCEPT ![s] = raw] /\ files' = files
    BY <1>5 DEF getTeamSituations
  <2>3. IF Stale(s, raw) /\ s \notin refreshing
        THEN refreshing' = refreshing \cup {s} /\ job' = [job EXCEPT ![s] = <<>>]
        ELSE UNCHANGED <<refreshing, job>>
    BY <1>5 DEF getTeamSituations
  <2>4. memory[s] # Nothing => raw = memory[s]
    OBVIOUS
  <2> HIDE DEF raw
  <2>5. VisitsInv'
    BY <1>1, <2>1, OneVisitMoves
  <2>6. CopiesInv'
    BY <1>1, <1>3, <1>5, <2>2 DEF CopiesInv
  <2>7. JobsInv'
    <3>1. <<>> \in Seq(Answers) /\ <<>> # Nothing
      <4>1. <<>> \in Seq(Answers)
        OBVIOUS
      <4>2. Nothing \notin Seq(Answers)
        OBVIOUS
      <4> QED BY <4>1, <4>2
    <3>2. CASE Stale(s, raw) /\ s \notin refreshing
      BY <1>1, <2>3, <3>1, <3>2 DEF JobsInv, OneRefresh
    <3>3. CASE ~(Stale(s, raw) /\ s \notin refreshing)
      BY <1>1, <2>3, <3>3 DEF JobsInv, OneRefresh
    <3> QED BY <3>2, <3>3
  <2>8. StaleIsRefreshed
    <3> SUFFICES ASSUME NEW w \in Visits, visit[w] = Nothing, visit'[w] # Nothing
                 PROVE  \/ ~Live(visit'[w].page)
                        \/ clock - memory'[visit'[w].page].fetchedAt <= InSeasonTtl
                        \/ visit'[w].page \in refreshing'
      BY DEF StaleIsRefreshed
    <3>1. w = v /\ visit'[w].page = s
      BY <1>1, <2>1 DEF VisitsInv
    <3>2. memory'[s] = raw /\ raw.fetchedAt \in Nat
      BY <1>1, <1>3, <1>5, <2>2 DEF CopiesInv, CopyOK, Copies
    <3> QED BY <1>1, <2>3, <3>1, <3>2 DEF Stale
  <2>9. NeverOlder
    BY <1>1, <1>3, <1>5, <2>2, <2>4 DEF NeverOlder, CopiesInv, CopyOK, Copies
  <2> QED BY <2>5, <2>6, <2>7, <2>8, <2>9
<1> QED BY <1>4, <1>5

LEMMA ReportDownloaded ==
  ASSUME PagesInv, NEW v \in Visits, Download(v)
  PROVE  VisitsInv' /\ StaleIsRefreshed
<1>1. /\ visit[v] # Nothing /\ visit[v].at = "downloading" /\ VisitOK(visit[v], clock)
      /\ VisitsInv /\ clock' = clock
  BY DEF Download, PagesInv, VisitsInv
<1>2. CASE visit' = Failed(v)
  BY <1>1, <1>2, FailedOK, OneNotNew DEF Failed
<1>3. ASSUME NEW answer \in {league[visit[v].page], Junk}, visit' = [visit EXCEPT ![v].what = Append(@, answer)]
      PROVE  VisitsInv' /\ StaleIsRefreshed
  <2> DEFINE w == Append(visit[v].what, answer)
             x == [at |-> visit[v].at, page |-> visit[v].page, since |-> visit[v].since, what |-> w, heard |-> visit[v].heard]
  <2>1. visit[v].page \in Seasons /\ visit[v].what \in Seq(Answers) /\ visit[v].page \notin Dates
    BY <1>1 DEF VisitOK
  <2>2. answer \in Answers
    BY <2>1 DEF PagesInv, Answers
  <2>3. w \in Seq(Answers)
    BY <2>1, <2>2
  <2> HIDE DEF w
  <2>4. visit' = [visit EXCEPT ![v] = x]
    <3>1. [visit[v] EXCEPT !.what = w] = x
      BY <1>1, RowGrows DEF VisitOK
    <3> QED BY <1>3, <3>1 DEF w
  <2>5. VisitOK(x, clock)
    BY <1>1, <2>1, <2>3 DEF VisitOK, VisitRow
  <2> HIDE DEF x
  <2> QED BY <1>1, <2>4, <2>5, OneVisitMoves, OneNotNew
<1> QED BY <1>2, <1>3 DEF Download

LEMMA AllDownloaded ==
  ASSUME PagesInv, NEW v \in Visits, Downloaded(v)
  PROVE  VisitsInv' /\ CopiesInv' /\ StaleIsRefreshed /\ NeverOlder
<1> DEFINE s == visit[v].page
           got == visit[v].what
<1>1. /\ visit[v] # Nothing /\ visit[v].at = "downloading" /\ VisitOK(visit[v], clock)
      /\ VisitsInv /\ CopiesInv /\ clock' = clock /\ clock \in Nat
  BY DEF Downloaded, PagesInv, VisitsInv
<1>2. /\ writeFile(s, Raw(got)) /\ memory' = [memory EXCEPT ![s] = Raw(got)] /\ visit' = Page(v, Raw(got))
  BY DEF Downloaded
<1>3. s \in Seasons /\ s \notin Dates /\ got \in Seq(Answers)
  BY <1>1 DEF VisitOK
<1>4. CopiesInv' /\ NeverOlder
  <2> HIDE DEF s, got
  <2> QED BY <1>1, <1>2, <1>3, NewCopyKept
<1>5. VisitsInv' /\ StaleIsRefreshed
  <2>1. CASE visit' = Failed(v)
    BY <1>1, <2>1, FailedOK, OneNotNew DEF Failed
  <2>2. CASE visit' = Shown(v, Raw(got).reports, Raw(got).fetchedAt)
    <3> DEFINE w == Raw(got).reports
               h == Raw(got).fetchedAt
               x == [at |-> "shown", page |-> s, since |-> visit[v].since, what |-> w, heard |-> h]
    <3>1. [visit[v] EXCEPT !.at = "shown", !.what = w, !.heard = h] = x
      BY <1>1, RowSet DEF VisitOK
    <3>2. visit' = [visit EXCEPT ![v] = x]
      BY <2>2, <3>1 DEF Shown
    <3>3. VisitOK(x, clock)
      <4> HIDE DEF w, h
      <4> QED BY <1>1, <1>3 DEF VisitOK, VisitRow
    <3> HIDE DEF x
    <3> QED BY <1>1, <3>2, <3>3, OneVisitMoves, OneNotNew
  <2> QED BY <1>2, <2>1, <2>2 DEF Page
<1> QED BY <1>4, <1>5

(* A refresh gets one more report, gives up, or keeps what it has fetched. *)
LEMMA SeasonRefreshed ==
  ASSUME PagesInv, NEW s \in Seasons, Refresh(s)
  PROVE  CopiesInv' /\ JobsInv' /\ NeverOlder
<1>1. /\ job[s] # Nothing /\ job[s] \in Seq(Answers) /\ CopiesInv /\ JobsInv /\ clock' = clock
      /\ clock \in Nat /\ league[s] \in Answers
  BY DEF Refresh, PagesInv, JobsInv, Answers
<1>2. ASSUME NEW answer \in {league[s], Junk}, job' = [job EXCEPT ![s] = Append(@, answer)],
             UNCHANGED <<memory, files, refreshing>>
      PROVE  CopiesInv' /\ JobsInv' /\ NeverOlder
  <2>1. Append(job[s], answer) \in Seq(Answers)
    BY <1>1 DEF Answers
  <2>2. JobsInv'
    BY <1>1, <1>2, <2>1 DEF JobsInv, OneRefresh
  <2> QED BY <1>1, <1>2, <2>2, NothingKept DEF CopiesInv
<1>3. ASSUME job' = [job EXCEPT ![s] = Nothing], NEW ok, refreshing' = Freed(s, ok) PROVE JobsInv'
  BY <1>1, <1>3 DEF JobsInv, OneRefresh, Freed
<1>4. ASSUME memory' = [memory EXCEPT ![s] = Raw(job[s])], writeFile(s, Raw(job[s])) PROVE CopiesInv' /\ NeverOlder
  BY <1>1, <1>4, NewCopyKept
<1>5. ASSUME UNCHANGED <<memory, files>> PROVE CopiesInv' /\ NeverOlder
  BY <1>1, <1>5, NothingKept DEF CopiesInv
<1> QED BY <1>2, <1>3, <1>4, <1>5 DEF Refresh

-----------------------------------------------------------------------------
LEMMA ClockTicks ==
  ASSUME PagesInv, Pass
  PROVE  PagesInv' /\ StaleIsRefreshed /\ NeverOlder
<1>1. /\ clock \in Nat /\ clock' = clock + 1 /\ visit' = visit /\ boards' = boards /\ memory' = memory
      /\ files' = files /\ league' = league /\ UNCHANGED <<job, refreshing>>
  BY DEF Pass, PagesInv, nhlVars, seasonVars
<1>2. VisitsInv'
  BY <1>1, VisitStaysOK DEF PagesInv, VisitsInv
<1>3. CopiesInv'
  <2>1. \A s \in Seasons : memory[s] # Nothing => CopyOK(memory[s], clock + 1)
    BY <1>1, CopyStaysOK DEF PagesInv, CopiesInv
  <2>2. \A s \in Seasons : files[s] \notin {Nothing, Junk} => CopyOK(files[s], clock + 1)
    BY <1>1, CopyStaysOK DEF PagesInv, CopiesInv
  <2> QED BY <1>1, <2>1, <2>2 DEF PagesInv, CopiesInv
<1>4. StaleIsRefreshed
  BY <1>1, NobodyNew
<1>5. NeverOlder
  BY <1>1 DEF PagesInv, NeverOlder, CopiesInv, CopyOK, Copies
<1> QED BY <1>1, <1>2, <1>3, <1>4, <1>5 DEF PagesInv, BoardsInv, JobsInv, OneRefresh

LEMMA ProcessRestarts ==
  ASSUME PagesInv, Restart
  PROVE  PagesInv' /\ StaleIsRefreshed /\ NeverOlder
<1>1. clock' = clock /\ league' = league /\ files' = files /\ clock \in Nat
  BY DEF Restart, PagesInv, nhlVars
<1>2. ASSUME NEW v \in Visits
      PROVE  /\ visit[v] = Nothing => visit'[v] = Nothing
             /\ visit'[v] # Nothing => VisitOK(visit'[v], clock)
  <2>1. visit[v] # Nothing => VisitOK(visit[v], clock)
    BY DEF PagesInv, VisitsInv
  <2>2. CASE visit[v] = Nothing \/ visit[v].at = "shown"
    BY <2>1, <2>2 DEF Restart
  <2>3. CASE visit[v] # Nothing /\ visit[v].at # "shown"
    <3> DEFINE x == [at |-> "failed", page |-> visit[v].page, since |-> visit[v].since,
                     what |-> visit[v].what, heard |-> visit[v].heard]
    <3>1. [visit[v] EXCEPT !.at = "failed"] = x
      BY <2>1, <2>3 DEF VisitOK, VisitRow
    <3>2. visit'[v] = x
      BY <2>3, <3>1 DEF Restart
    <3>3. VisitOK(x, clock)
      BY <2>1, <2>3 DEF VisitOK, VisitRow
    <3> HIDE DEF x
    <3> QED BY <2>3, <3>2, <3>3
  <2> QED BY <2>2, <2>3
<1>3. VisitsInv'
  <2>1. visit' = [v \in Visits |-> visit'[v]]
    BY DEF Restart
  <2> QED BY <1>1, <1>2, <2>1 DEF VisitsInv
<1>4. StaleIsRefreshed
  BY <1>2, NobodyNew
<1>5. /\ boards' = [d \in Dates |-> Nothing] /\ memory' = [s \in Seasons |-> Nothing]
      /\ refreshing' = {} /\ job' = [s \in Seasons |-> Nothing]
  BY DEF Restart
<1>6. BoardsInv' /\ CopiesInv' /\ JobsInv'
  BY <1>1, <1>5 DEF PagesInv, BoardsInv, CopiesInv, JobsInv, OneRefresh
<1>7. NeverOlder
  BY <1>5 DEF NeverOlder
<1> QED BY <1>1, <1>3, <1>4, <1>6, <1>7 DEF PagesInv

LEMMA BoardVisited ==
  ASSUME PagesInv, ScoreboardNext
  PROVE  PagesInv' /\ StaleIsRefreshed /\ NeverOlder
<1>1. ASSUME NEW g \in Games, Play(g) PROVE PagesInv' /\ StaleIsRefreshed /\ NeverOlder
  <2>1. UNCHANGED <<clock, league, visit, boards, memory, files, refreshing, job>>
    BY <1>1 DEF Play, seasonVars
  <2> QED BY <2>1, NobodyNew, NothingKept DEF PagesInv, VisitsInv, BoardsInv, CopiesInv, JobsInv, OneRefresh
<1>2. ASSUME NEW v \in Visits,
             (\E d \in Dates : getScoreboard(v, d)) \/ AnswerBoard(v) \/ ReceiveBoard(v)
      PROVE  PagesInv' /\ StaleIsRefreshed /\ NeverOlder
  <2>1. UNCHANGED <<clock, league, memory, files, refreshing, job>>
    BY <1>2 DEF getScoreboard, AnswerBoard, ReceiveBoard, seasonVars, nhlVars
  <2>2. VisitsInv' /\ BoardsInv'
    <3>1. ASSUME boards' = boards PROVE BoardsInv'
      BY <3>1 DEF PagesInv, BoardsInv
    <3> QED BY <1>2, <3>1, ScoreboardAsked, BoardAnswered, BoardReceived DEF getScoreboard, AnswerBoard
  <2>3. StaleIsRefreshed
    <3>1. ASSUME NEW d \in Dates, getScoreboard(v, d) PROVE StaleIsRefreshed
      <4> SUFFICES ASSUME NEW w \in Visits, visit[w] = Nothing, visit'[w] # Nothing
                   PROVE  visit'[w].page \notin Seasons
        BY DEF StaleIsRefreshed
      <4> DEFINE asked == [at |-> "asked", page |-> d, since |-> clock, what |-> Nothing, heard |-> Nothing]
                 shown == [asked EXCEPT !.at = "shown", !.what = boards[d].board, !.heard = boards[d].heard]
      <4>1. \/ visit' = [visit EXCEPT ![v] = asked]
            \/ visit' = [visit EXCEPT ![v] = shown]
        BY <3>1 DEF getScoreboard
      <4>2. asked.page = d
        OBVIOUS
      <4>3. shown.page = d
        BY RowSet DEF VisitRow
      <4> HIDE DEF asked, shown
      <4>4. w = v
        BY <4>1 DEF PagesInv, VisitsInv
      <4>5. visit'[w] = asked \/ visit'[w] = shown
        BY <4>1, <4>4 DEF PagesInv, VisitsInv
      <4> QED BY <4>2, <4>3, <4>5
    <3>2. ASSUME AnswerBoard(v) \/ ReceiveBoard(v) PROVE StaleIsRefreshed
      <4>1. visit[v] # Nothing /\ \E x : visit' = [visit EXCEPT ![v] = x]
        BY <3>2 DEF AnswerBoard, ReceiveBoard, Failed, Shown
      <4> QED BY <4>1, OneNotNew DEF PagesInv
    <3> QED BY <1>2, <3>1, <3>2
  <2> QED BY <2>1, <2>2, <2>3, NothingKept DEF PagesInv, CopiesInv, JobsInv, OneRefresh
<1> QED BY <1>1, <1>2 DEF ScoreboardNext

LEMMA SituationsVisited ==
  ASSUME PagesInv, SituationsNext
  PROVE  PagesInv' /\ StaleIsRefreshed /\ NeverOlder
<1>1. ASSUME NEW s \in Seasons, Publish(s) PROVE PagesInv' /\ StaleIsRefreshed /\ NeverOlder
  <2>1. UNCHANGED <<clock, visit, boards, memory, files, refreshing, job>> /\ league' = [league EXCEPT ![s] = @ + 1]
    BY <1>1 DEF Publish, seasonVars
  <2>2. league' \in [Seasons -> Nat]
    BY <2>1 DEF PagesInv
  <2> QED BY <2>1, <2>2, NobodyNew, NothingKept DEF PagesInv, VisitsInv, BoardsInv, CopiesInv, JobsInv, OneRefresh
<1>2. ASSUME NEW s \in Seasons, Refresh(s) PROVE PagesInv' /\ StaleIsRefreshed /\ NeverOlder
  <2>1. UNCHANGED <<clock, league, boards, visit>>
    BY <1>2 DEF Refresh, nhlVars
  <2>2. CopiesInv' /\ JobsInv' /\ NeverOlder
    BY <1>2, SeasonRefreshed
  <2> QED BY <2>1, <2>2, NobodyNew DEF PagesInv, VisitsInv, BoardsInv
<1>3. ASSUME NEW v \in Visits, NEW s \in Seasons, getTeamSituations(v, s)
      PROVE  PagesInv' /\ StaleIsRefreshed /\ NeverOlder
  <2>1. UNCHANGED <<clock, league, boards>>
    BY <1>3 DEF getTeamSituations, nhlVars
  <2> QED BY <1>3, <2>1, SeasonVisited DEF PagesInv, BoardsInv
<1>4. ASSUME NEW v \in Visits, Download(v) PROVE PagesInv' /\ StaleIsRefreshed /\ NeverOlder
  <2>1. UNCHANGED <<clock, league, boards, memory, files, refreshing, job>>
    BY <1>4 DEF Download, nhlVars, seasonVars
  <2> QED BY <1>4, <2>1, ReportDownloaded, NothingKept DEF PagesInv, BoardsInv, CopiesInv, JobsInv, OneRefresh
<1>5. ASSUME NEW v \in Visits, Downloaded(v) PROVE PagesInv' /\ StaleIsRefreshed /\ NeverOlder
  <2>1. UNCHANGED <<clock, league, boards, refreshing, job>>
    BY <1>5 DEF Downloaded, nhlVars
  <2> QED BY <1>5, <2>1, AllDownloaded DEF PagesInv, BoardsInv, JobsInv, OneRefresh
<1> QED BY <1>1, <1>2, <1>3, <1>4, <1>5 DEF SituationsNext

(* What a visitor is shown is fresh, and a season has one download.        *)
LEMMA InvTold ==
  ASSUME PagesInv
  PROVE  BoardsFresh /\ OneRefresh
BY DEF PagesInv, VisitsInv, VisitOK, BoardsFresh, JobsInv

LEMMA PagesBegin ==
  ASSUME PagesInit
  PROVE  PagesInv
<1>1. VisitsInv /\ BoardsInv /\ JobsInv
  BY DEF PagesInit, VisitsInv, BoardsInv, JobsInv, OneRefresh
<1>2. CopiesInv
  <2>1. [i \in 1..Reports |-> 0] \in Seq(Answers)
    BY DEF Answers
  <2> DEFINE first == [fetchedAt |-> 0, reports |-> [i \in 1..Reports |-> 0]]
  <2>2. CopyOK(first, 0)
    BY <2>1 DEF CopyOK, Copies
  <2>3. files \in [Seasons -> {Nothing, first}] /\ memory = [s \in Seasons |-> Nothing] /\ clock = 0
    BY DEF PagesInit
  <2> HIDE DEF first
  <2> QED BY <2>2, <2>3 DEF CopiesInv
<1> QED BY <1>1, <1>2 DEF PagesInit, PagesInv

(* Whoever visits, whatever the sources answer and however often the       *)
(* process restarts: a board is never older than its time to live, a       *)
(* season is refreshed by one download at a time, who is shown a stale     *)
(* copy leaves a refresh under way, and no download gives way to an older. *)
THEOREM PagesToldAlways == PagesSpec => PagesTold
<1>1. PagesInv /\ [PagesNext]_pageVars => PagesInv'
  <2>1. PagesInv /\ UNCHANGED pageVars => PagesInv'
    BY DEF pageVars, PagesInv, VisitsInv, BoardsInv, CopiesInv, JobsInv, OneRefresh
  <2> QED BY <2>1, ClockTicks, ProcessRestarts, BoardVisited, SituationsVisited DEF PagesNext
<1>2. PagesInv /\ [PagesNext]_pageVars => [StaleIsRefreshed /\ NeverOlder]_pageVars
  BY ClockTicks, ProcessRestarts, BoardVisited, SituationsVisited DEF PagesNext
<1>3. PagesInv => BoardsFresh /\ OneRefresh
  BY InvTold
<1> QED BY <1>1, <1>2, <1>3, PagesBegin, PTL DEF PagesSpec, PagesTold
=============================================================================
