------------------------ MODULE ScenarioApplyProofs ------------------------
(***************************************************************************)
(* Proofs about ScenarioApply, whatever requests, scenarios and records    *)
(* there are and however the requests interleave.  On either database a    *)
(* scenario is logged all at once or not at all.  On the embedded one,     *)
(* where a transaction excludes every other statement, the records hang    *)
(* together, no contract season is owed for twice or on top of its charge, *)
(* no contract leaves twice, and the applies and edits implement the       *)
(* OfficialLedger.                                                         *)
(***************************************************************************)
EXTENDS ScenarioApply, BasicFacts, FiniteSetTheorems, TLAPS

(***************************************************************************)
(* What is logged, on either database.  The rows of a scenario are a list, *)
(* so the moves that are read from it are; what a transaction has logged   *)
(* is what it read, as far as it is; and so is what it commits.            *)
(***************************************************************************)

(* The shape of the state.                                                 *)
ShapeInv ==
  /\ pc \in [Requests -> PcLabels]
  /\ DOMAIN plan = Requests /\ DOMAIN at = Requests
  /\ DOMAIN loaded = Requests /\ DOMAIN mine = Requests

(* The enabled moves of a list of rows are a list.                         *)
LEMMA EnabledIsSeq ==
  ASSUME NEW s, IsSeq(rows[s])
  PROVE  IsSeq(EnabledMoves(s))
<1> DEFINE enabled == {i \in DOMAIN rows[s] : rows[s][i].enabled}
<1>1. DOMAIN rows[s] = 1..Len(rows[s]) /\ Len(rows[s]) \in Nat
  BY IsSeqDomain
<1>2. IsFiniteSet(1..Len(rows[s]))
  BY <1>1, FS_Interval
<1>3. IsFiniteSet(enabled)
  BY <1>1, <1>2, FS_Subset
<1>4. Cardinality(enabled) \in Nat
  BY <1>3, FS_CardinalityType
<1> DEFINE n == Cardinality(enabled)
<1>5. EnabledMoves(s) = [i \in 1..n |-> EnabledMoves(s)[i]]
  BY DEF EnabledMoves
<1> QED BY <1>4, <1>5, FunctionIsSeq

-----------------------------------------------------------------------------
RowsInv == DOMAIN rows = Scenarios /\ \A s \in Scenarios : IsSeq(rows[s])

(* An apply works on a scenario there is.                                  *)
ScnInv ==
  /\ DOMAIN scn = Requests
  /\ \A r \in Requests : pc[r] \in {"gated", "checked"} => scn[r] \in Scenarios

(* What an apply has read, from then on.                                   *)
PlannedInv ==
  \A r \in Requests :
    pc[r] \in {"planned", "load", "write", "applied"} => IsSeq(plan[r]) /\ AllParsed(plan[r])

(* What r's transaction has logged: the moves it is past, as its own.      *)
Wrote(r) ==
  /\ at[r] \in 1..Len(plan[r]) + 1
  /\ Len(mine[r].log) = at[r] - 1
  /\ \A i \in 1..Len(mine[r].log) : mine[r].log[i].by = r /\ mine[r].log[i].kind = plan[r][i].kind

WritesInv ==
  \A r \in Requests :
    /\ mine[r].log \in Seq(LogEntries(Requests))
    /\ Open(r) => Wrote(r)
    /\ ~Open(r) => mine[r] = NoWrites
    /\ pc[r] = "write" => at[r] \in DOMAIN plan[r]

(* What r's request has logged, all of it or nothing.                      *)
Block(r) ==
  IF pc[r] = "applied"
  THEN \E n \in 0..Len(db.log) :
         /\ LoggedBy(r) = n + 1..n + Len(plan[r])
         /\ \A i \in 1..Len(plan[r]) : db.log[n + i].kind = plan[r][i].kind
  ELSE LoggedBy(r) = {}

LogInv ==
  /\ ShapeInv /\ RowsInv /\ ScnInv /\ PlannedInv /\ WritesInv
  /\ db.log \in Seq(LogEntries(Requests))
  /\ \A r \in Requests : Block(r)

LEMMA LogInvTells == LogInv => AllOrNothing
  BY DEF LogInv, AllOrNothing, Block, ShapeInv

(* What a move writes to the log: its kind, as r's.                        *)
LEMMA WrittenLog ==
  ASSUME NEW r \in Requests, Parsed(TheMove(r)), NEW v \in Written(r)
  PROVE  \E e \in LogEntries(Requests) :
           e.by = r /\ e.kind = TheMove(r).kind /\ v.log = Append(View(r).log, e)
<1> DEFINE m == TheMove(r)
<1>1. CASE m.kind \in Incoming
  <2>1. PICK p \in (IF loaded[r] = None THEN NewPlayer(r) ELSE {loaded[r]}), c \in NewContract(r) :
          v = Arrive(View(r), m, p, c, r)
    BY <1>1 DEF Written
  <2>2. c \in Contracts
    <3>1. c \in Unused(View(r).contracts, {d \in Contracts : ~ContractLocked(d, r)})
      BY DEF NewContract, NewId
    <3> QED BY <3>1 DEF Unused
  <2>3. LogEntry(m, c, "player_in", r) \in LogEntries(Requests)
    BY <2>2 DEF LogEntry, LogEntries, Parsed
  <2>4. v.log = Append(View(r).log, LogEntry(m, c, "player_in", r))
    BY <2>1 DEF Arrive
  <2> QED BY <2>3, <2>4 DEF LogEntry
<1>2. CASE m.kind \notin Incoming
  <2>1. v = Move(View(r), m, loaded[r], r)
    BY <1>2 DEF Written
  <2>2. m.contract \in Contracts /\ m.kind \in Kinds
    BY <1>2 DEF Parsed
  <2>3. \A item \in {"player_out", "assignment", "extension"} :
          LogEntry(m, m.contract, item, r) \in LogEntries(Requests)
    BY <2>2 DEF LogEntry, LogEntries
  <2>4. CASE m.kind \in Departures
    <3>1. v = Depart(View(r), m, loaded[r], r)
      BY <2>1, <2>4 DEF Move, Departures, Assignments
    <3>2. v.log = Append(View(r).log, LogEntry(m, m.contract, "player_out", r))
      BY <3>1 DEF Depart
    <3> QED BY <2>3, <3>2 DEF LogEntry
  <2>5. CASE m.kind \in Assignments
    <3>1. v = Assign(View(r), m, loaded[r], r)
      BY <2>1, <2>5 DEF Move, Departures, Assignments
    <3>2. v.log = Append(View(r).log, LogEntry(m, m.contract, "assignment", r))
      BY <3>1 DEF Assign
    <3> QED BY <2>3, <3>2 DEF LogEntry
  <2>6. CASE m.kind = "extension"
    <3>1. v = Extend(View(r), m, loaded[r], r)
      BY <2>1, <2>6 DEF Move, Departures, Assignments
    <3>2. v.log = Append(View(r).log, LogEntry(m, m.contract, "extension", r))
      BY <3>1 DEF Extend
    <3> QED BY <2>3, <3>2 DEF LogEntry
  <2> QED BY <1>2, <2>2, <2>4, <2>5, <2>6 DEF Kinds
<1> QED BY <1>1, <1>2

(* What is added to the view's log is added to what the transaction wrote. *)
LEMMA OverlayLog ==
  ASSUME NEW r \in Requests, NEW v, NEW e, e \in LogEntries(Requests),
         db.log \in Seq(LogEntries(Requests)), mine[r].log \in Seq(LogEntries(Requests)),
         v.log = Append(View(r).log, e)
  PROVE  /\ Overlay(r, v).log = Append(mine[r].log, e)
         /\ db.log \o Overlay(r, v).log = v.log
<1>1. v.log = Append(db.log \o mine[r].log, e)
  BY DEF View
<1>2. Overlay(r, v).log = SubSeq(v.log, Len(db.log) + 1, Len(v.log))
  BY DEF Overlay
<1> DEFINE S == LogEntries(Requests)  d == db.log  w == mine[r].log
<1>3. d \in Seq(S) /\ w \in Seq(S) /\ e \in S
  OBVIOUS
<1> HIDE DEF S, d, w
<1>4. \A x \in S : /\ SubSeq(Append(d \o w, x), Len(d) + 1, Len(Append(d \o w, x))) = Append(w, x)
                  /\ d \o Append(w, x) = Append(d \o w, x)
  BY <1>3, AppendToLast
<1> QED BY <1>1, <1>2, <1>3, <1>4 DEF d, w

-----------------------------------------------------------------------------
(* The steps.  What r has logged is told from its place and the log.       *)
LEMMA BlockSame ==
  ASSUME NEW r, Block(r), db'.log = db.log, plan'[r] = plan[r], pc'[r] = "applied" <=> pc[r] = "applied"
  PROVE  Block(r)'
  BY DEF Block, LoggedBy

(* Nothing of what is logged changes.                                      *)
LEMMA LogUnchanged ==
  ASSUME LogInv, RowsInv', db'.log = db.log, UNCHANGED <<pc, scn, plan, at, mine>>,
         DOMAIN loaded' = Requests
  PROVE  LogInv'
<1>1. ShapeInv' /\ ScnInv' /\ PlannedInv'
  BY DEF LogInv, ShapeInv, ScnInv, PlannedInv, AllParsed
<1>2. WritesInv'
  BY DEF LogInv, WritesInv, Wrote, Open
<1>3. \A r \in Requests : Block(r)'
  BY BlockSame DEF LogInv
<1> QED BY <1>1, <1>2, <1>3 DEF LogInv

(* A step of a request outside its transaction.                            *)
LEMMA LogQuiet ==
  ASSUME LogInv, NEW r \in Requests, ~Open(r), pc[r] # "applied",
         NEW l \in PcLabels, l \notin {"load", "write", "applied"}, pc' = [pc EXCEPT ![r] = l],
         RowsInv', db'.log = db.log, at' = at,
         DOMAIN mine' = Requests, mine' = mine \/ \A q \in Requests : mine'[q] = mine[q],
         DOMAIN loaded' = Requests,
         DOMAIN scn' = Requests, \A q \in Requests \ {r} : scn'[q] = scn[q],
         l \in {"gated", "checked"} => scn'[r] \in Scenarios,
         DOMAIN plan' = Requests, \A q \in Requests \ {r} : plan'[q] = plan[q],
         l = "planned" => IsSeq(plan'[r]) /\ AllParsed(plan'[r])
  PROVE  LogInv'
<1>1. pc'[r] = l /\ \A q \in Requests \ {r} : pc'[q] = pc[q]
  BY DEF LogInv, ShapeInv
<1>2. DOMAIN mine' = Requests /\ \A q \in Requests : mine'[q] = mine[q]
  BY DEF LogInv, ShapeInv, WritesInv
<1>3. ShapeInv'
  BY <1>2 DEF LogInv, ShapeInv
<1>4. ScnInv' /\ PlannedInv'
  BY <1>1 DEF LogInv, ScnInv, PlannedInv, AllParsed
<1>5. WritesInv'
  BY <1>1, <1>2 DEF LogInv, WritesInv, Wrote, Open
<1>6. Block(r)'
  BY <1>1 DEF LogInv, Block, LoggedBy
<1>7. \A q \in Requests \ {r} : Block(q)'
  BY <1>1, BlockSame DEF LogInv
<1> QED BY <1>3, <1>4, <1>5, <1>6, <1>7 DEF LogInv

(* A step of an open transaction that is not its commit.                   *)
LEMMA LogWithin ==
  ASSUME LogInv, NEW r \in Requests, pc[r] # "applied",
         NEW l \in PcLabels, l \in {"load", "write", "refused"}, pc' = [pc EXCEPT ![r] = l],
         l \in {"load", "write"} => IsSeq(plan[r]) /\ AllParsed(plan[r]),
         UNCHANGED <<db, rows, scn, plan>>, DOMAIN loaded' = Requests,
         DOMAIN at' = Requests, \A q \in Requests \ {r} : at'[q] = at[q],
         DOMAIN mine' = Requests, \A q \in Requests \ {r} : mine'[q] = mine[q],
         mine'[r].log \in Seq(LogEntries(Requests)),
         IF l \in {"load", "write"} THEN Wrote(r)' ELSE mine'[r] = NoWrites,
         l = "write" => at'[r] \in DOMAIN plan[r]
  PROVE  LogInv'
<1>1. pc'[r] = l /\ \A q \in Requests \ {r} : pc'[q] = pc[q]
  BY DEF LogInv, ShapeInv
<1>2. ShapeInv'
  BY DEF LogInv, ShapeInv
<1>3. RowsInv' /\ ScnInv' /\ PlannedInv'
  BY <1>1 DEF LogInv, RowsInv, ScnInv, PlannedInv, AllParsed
<1>4. WritesInv'
  <2>1. \A q \in Requests \ {r} : Wrote(q) => Wrote(q)'
    BY DEF Wrote
  <2> QED BY <1>1, <2>1 DEF LogInv, WritesInv, Open
<1>5. Block(r)'
  BY <1>1 DEF LogInv, Block, LoggedBy
<1>6. \A q \in Requests \ {r} : Block(q)'
  BY <1>1, BlockSame DEF LogInv
<1> QED BY <1>2, <1>3, <1>4, <1>5, <1>6 DEF LogInv

LEMMA LogEnds ==
  ASSUME LogInv, NEW r \in Requests, Open(r), End(r, "refused"),
         UNCHANGED <<db, rows, scn, plan, at>>
  PROVE  LogInv'
<1>1. /\ mine'[r] = NoWrites /\ DOMAIN mine' = Requests /\ \A q \in Requests \ {r} : mine'[q] = mine[q]
      /\ DOMAIN loaded' = Requests /\ DOMAIN at' = Requests
  BY DEF End, LogInv, ShapeInv
<1>2. mine'[r].log \in Seq(LogEntries(Requests))
  BY <1>1, EmptySeq DEF NoWrites
<1> QED BY <1>1, <1>2, LogWithin DEF End, Open, PcLabels

LEMMA LogBegin ==
  ASSUME LogInv, NEW r \in Requests, Begin(r)
  PROVE  LogInv'
<1>1. IsSeq(plan[r]) /\ AllParsed(plan[r]) /\ mine' = mine /\ mine[r] = NoWrites /\ at'[r] = 1
  BY DEF Begin, Goto, LogInv, ShapeInv, PlannedInv, WritesInv, Open
<1>2. Len(plan[r]) \in Nat
  BY <1>1, IsSeqDomain
<1>3. Len(mine'[r].log) = 0
  BY <1>1, EmptySeq DEF NoWrites
<1>4. Wrote(r)'
  BY <1>1, <1>2, <1>3 DEF Begin, Wrote
<1> QED BY <1>1, <1>4, LogWithin DEF Begin, Goto, LogInv, ShapeInv, WritesInv, PcLabels

LEMMA LogLoad ==
  ASSUME LogInv, NEW r \in Requests, Load(r)
  PROVE  LogInv'
<1>1. Open(r) /\ UNCHANGED <<db, rows, scn, plan, at>>
  BY DEF Load, Open
<1>2. CASE End(r, "refused")
  BY <1>1, <1>2, LogEnds
<1>3. CASE Goto(r, "write") /\ \E found : loaded' = [loaded EXCEPT ![r] = found]
  <2>1. IsSeq(plan[r]) /\ AllParsed(plan[r]) /\ mine' = mine /\ Wrote(r)
    BY <1>1, <1>3 DEF Load, Goto, LogInv, PlannedInv, WritesInv
  <2>2. Wrote(r)'
    BY <1>1, <2>1 DEF Wrote
  <2> QED BY <1>1, <1>3, <2>1, <2>2, LogWithin DEF Load, Goto, LogInv, ShapeInv, WritesInv, PcLabels
<1> QED BY <1>2, <1>3 DEF Load

LEMMA LogWrite ==
  ASSUME LogInv, NEW r \in Requests, Write(r)
  PROVE  LogInv'
<1>1. Open(r) /\ UNCHANGED <<db, rows, scn, plan>>
  BY DEF Write, Open
<1>2. CASE Duplicate(r)
  BY <1>1, <1>2, LogEnds DEF Write
<1>3. CASE ~Duplicate(r)
  <2>1. PICK v \in Written(r) : mine' = [mine EXCEPT ![r] = Overlay(r, v)]
    BY <1>3 DEF Write
  <2>2. /\ at' = [at EXCEPT ![r] = @ + 1] /\ pc' = [pc EXCEPT ![r] = "load"]
        /\ loaded' = [loaded EXCEPT ![r] = None]
    BY <1>3 DEF Write
  <2>3. /\ IsSeq(plan[r]) /\ AllParsed(plan[r]) /\ Wrote(r) /\ at[r] \in DOMAIN plan[r]
        /\ db.log \in Seq(LogEntries(Requests)) /\ mine[r].log \in Seq(LogEntries(Requests))
    BY <1>1 DEF Write, LogInv, PlannedInv, WritesInv
  <2>4. Parsed(TheMove(r))
    BY <2>3 DEF AllParsed, TheMove
  <2>5. PICK e \in LogEntries(Requests) :
          e.by = r /\ e.kind = TheMove(r).kind /\ v.log = Append(View(r).log, e)
    BY <2>4, WrittenLog
  <2>6. Overlay(r, v).log = Append(mine[r].log, e)
    <3>1. db.log \in Seq(LogEntries(Requests)) /\ mine[r].log \in Seq(LogEntries(Requests))
      BY <2>3
    <3>2. v.log = Append(View(r).log, e)
      BY <2>5
    <3> QED BY <3>1, <3>2, OverlayLog
  <2>7. mine'[r].log = Append(mine[r].log, e) /\ at'[r] = at[r] + 1
    BY <2>1, <2>2, <2>6 DEF LogInv, ShapeInv
  <2>8. /\ mine'[r].log \in Seq(LogEntries(Requests)) /\ Len(mine'[r].log) = Len(mine[r].log) + 1
        /\ \A i \in 1..Len(mine[r].log) : mine'[r].log[i] = mine[r].log[i]
        /\ mine'[r].log[Len(mine[r].log) + 1] = e
    BY <2>3, <2>7, AppendProperties
  <2>9. Len(mine[r].log) \in Nat /\ at[r] \in 1..Len(plan[r]) /\ Len(plan[r]) \in Nat /\ Len(mine[r].log) + 1 = at[r]
    BY <2>3, LenProperties, IsSeqDomain DEF Wrote
  <2>10. Wrote(r)'
    <3>1. at'[r] \in 1..Len(plan[r]) + 1 /\ Len(mine'[r].log) = at'[r] - 1
      BY <2>7, <2>8, <2>9
    <3>2. \A i \in 1..Len(mine'[r].log) : mine'[r].log[i].by = r /\ mine'[r].log[i].kind = plan[r][i].kind
      <4> SUFFICES ASSUME NEW i \in 1..Len(mine'[r].log)
                   PROVE  mine'[r].log[i].by = r /\ mine'[r].log[i].kind = plan[r][i].kind
        OBVIOUS
      <4>1. CASE i \in 1..Len(mine[r].log)
        BY <2>3, <2>8, <4>1 DEF Wrote
      <4>2. CASE i = Len(mine[r].log) + 1
        BY <2>5, <2>8, <2>9, <4>2 DEF TheMove
      <4> QED BY <2>8, <2>9, <4>1, <4>2
    <3> QED BY <1>1, <3>1, <3>2 DEF Wrote
  <2>11. /\ DOMAIN mine' = Requests /\ \A q \in Requests \ {r} : mine'[q] = mine[q]
         /\ DOMAIN at' = Requests /\ \A q \in Requests \ {r} : at'[q] = at[q]
         /\ DOMAIN loaded' = Requests
    BY <2>1, <2>2 DEF LogInv, ShapeInv
  <2> QED BY <1>1, <2>2, <2>3, <2>8, <2>10, <2>11, LogWithin DEF Write, PcLabels
<1> QED BY <1>2, <1>3

LEMMA LogCommit ==
  ASSUME LogInv, NEW r \in Requests, Commit(r)
  PROVE  LogInv'
<1> DEFINE d == db.log  w == mine[r].log  E == LogEntries(Requests)
<1>1. /\ pc[r] = "load" /\ Open(r) /\ db' = View(r) /\ End(r, "applied") /\ UNCHANGED <<rows, scn, plan, at>>
      /\ at[r] \notin DOMAIN plan[r]
  BY DEF Commit, Open
<1>2. /\ IsSeq(plan[r]) /\ AllParsed(plan[r]) /\ Wrote(r) /\ d \in Seq(E) /\ w \in Seq(E)
  BY <1>1 DEF LogInv, PlannedInv, WritesInv
<1>3. Len(d) \in Nat /\ Len(plan[r]) \in Nat /\ Len(w) = Len(plan[r])
  BY <1>1, <1>2, LenProperties, IsSeqDomain DEF Wrote
<1>4. /\ pc'[r] = "applied" /\ \A q \in Requests \ {r} : pc'[q] = pc[q]
      /\ pc' \in [Requests -> PcLabels]
      /\ mine'[r] = NoWrites /\ DOMAIN mine' = Requests /\ \A q \in Requests \ {r} : mine'[q] = mine[q]
      /\ DOMAIN loaded' = Requests
  BY <1>1 DEF End, LogInv, ShapeInv, PcLabels
<1>5. db'.log = d \o w
  BY <1>1 DEF View
<1> HIDE DEF d, w, E
<1>6. /\ db'.log \in Seq(E) /\ Len(db'.log) = Len(d) + Len(plan[r]) /\ DOMAIN db'.log = 1..Len(d) + Len(plan[r])
      /\ \A i \in 1..Len(d) + Len(plan[r]) : db'.log[i] = IF i <= Len(d) THEN d[i] ELSE w[i - Len(d)]
  <2>1. /\ d \o w \in Seq(E) /\ Len(d \o w) = Len(d) + Len(w)
        /\ \A i \in 1..Len(d) + Len(w) : (d \o w)[i] = IF i <= Len(d) THEN d[i] ELSE w[i - Len(d)]
    BY <1>2, ConcatProperties
  <2>2. DOMAIN (d \o w) = 1..Len(d \o w)
    BY <2>1, LenProperties
  <2> QED BY <1>3, <1>5, <2>1, <2>2
<1>7. DOMAIN d = 1..Len(d)
  BY <1>2, LenProperties
<1>8. \A i \in 1..Len(plan[r]) : w[i].by = r /\ w[i].kind = plan[r][i].kind
  BY <1>2, <1>3 DEF Wrote, w
<1>9. /\ \A i \in 1..Len(d) : db'.log[i] = d[i]
      /\ \A i \in 1..Len(plan[r]) : Len(d) + i \in DOMAIN db'.log /\ db'.log[Len(d) + i] = w[i]
      /\ \A j \in DOMAIN db'.log : j \in 1..Len(d) \/ (j - Len(d) \in 1..Len(plan[r]) /\ j = Len(d) + (j - Len(d)))
      /\ \A i \in 1..Len(d) : i \in DOMAIN db'.log
  <2>1. ASSUME NEW i \in 1..Len(d) PROVE db'.log[i] = d[i] /\ i \in DOMAIN db'.log
    <3>1. i \in 1..Len(d) + Len(plan[r]) /\ i <= Len(d)
      BY <1>3
    <3> QED BY <1>6, <3>1
  <2>2. ASSUME NEW i \in 1..Len(plan[r]) PROVE Len(d) + i \in DOMAIN db'.log /\ db'.log[Len(d) + i] = w[i]
    <3>1. Len(d) + i \in 1..Len(d) + Len(plan[r]) /\ ~(Len(d) + i <= Len(d)) /\ (Len(d) + i) - Len(d) = i
      BY <1>3
    <3> QED BY <1>6, <3>1
  <2>3. ASSUME NEW j \in DOMAIN db'.log, j \notin 1..Len(d)
        PROVE  j - Len(d) \in 1..Len(plan[r]) /\ j = Len(d) + (j - Len(d))
    <3>1. j \in 1..Len(d) + Len(plan[r])
      BY <1>6
    <3> QED BY <1>3, <2>3, <3>1
  <2> QED BY <2>1, <2>2, <2>3
<1>10. \A q \in Requests \ {r} : LoggedBy(q)' = LoggedBy(q)
  <2> SUFFICES ASSUME NEW q \in Requests \ {r}, NEW j
               PROVE  j \in DOMAIN db'.log /\ db'.log[j].by = q <=> j \in DOMAIN d /\ d[j].by = q
    BY DEF LoggedBy, d
  <2>1. CASE j \in 1..Len(d)
    BY <1>7, <1>9, <2>1
  <2>2. CASE j \notin 1..Len(d) /\ j \in DOMAIN db'.log
    <3> DEFINE i == j - Len(d)
    <3>1. i \in 1..Len(plan[r]) /\ j = Len(d) + i
      BY <1>9, <2>2
    <3> HIDE DEF i
    <3>2. db'.log[j].by = r
      BY <1>8, <1>9, <3>1
    <3> QED BY <1>7, <2>2, <3>2
  <2> QED BY <1>7, <2>1, <2>2
<1>11. Block(r)'
  <2>1. \A i \in 1..Len(d) : d[i].by # r
    BY <1>1, <1>7 DEF LogInv, Block, LoggedBy, d
  <2>2. LoggedBy(r)' = Len(d) + 1..Len(d) + Len(plan[r])
    <3>1. \A j : j \in DOMAIN db'.log /\ db'.log[j].by = r <=> j \in Len(d) + 1..Len(d) + Len(plan[r])
      <4>1. ASSUME NEW j \in DOMAIN db'.log, db'.log[j].by = r PROVE j \in Len(d) + 1..Len(d) + Len(plan[r])
        BY <1>3, <1>6, <1>9, <2>1, <4>1
      <4>2. ASSUME NEW j \in Len(d) + 1..Len(d) + Len(plan[r]) PROVE j \in DOMAIN db'.log /\ db'.log[j].by = r
        <5> DEFINE i == j - Len(d)
        <5>1. i \in 1..Len(plan[r]) /\ j = Len(d) + i
          BY <1>3
        <5> HIDE DEF i
        <5> QED BY <1>8, <1>9, <5>1
      <4> QED BY <4>1, <4>2
    <3> QED BY <3>1 DEF LoggedBy
  <2>3. \A i \in 1..Len(plan[r]) : db'.log[Len(d) + i].kind = plan[r][i].kind
    BY <1>8, <1>9
  <2>4. Len(d) \in 0..Len(db'.log)
    BY <1>3, <1>6
  <2> QED BY <1>1, <1>4, <2>2, <2>3, <2>4 DEF Block
<1>12. ASSUME NEW q \in Requests \ {r} PROVE Block(q)'
  <2>1. CASE pc[q] # "applied"
    BY <1>4, <1>10, <2>1 DEF LogInv, Block
  <2>2. CASE pc[q] = "applied"
    <3>1. PICK n \in 0..Len(d) :
            /\ LoggedBy(q) = n + 1..n + Len(plan[q])
            /\ \A i \in 1..Len(plan[q]) : d[n + i].kind = plan[q][i].kind
      BY <2>2 DEF LogInv, Block, d
    <3>2. Len(plan[q]) \in Nat
      BY <2>2, IsSeqDomain DEF LogInv, PlannedInv
    <3>3. \A i \in 1..Len(plan[q]) : n + i \in 1..Len(d)
      <4>1. \A i \in 1..Len(plan[q]) : n + i \in n + 1..n + Len(plan[q])
        BY <1>3, <3>2
      <4> QED BY <1>7, <3>1, <4>1 DEF LoggedBy, d
    <3>4. \A i \in 1..Len(plan[q]) : db'.log[n + i].kind = plan[q][i].kind
      BY <1>9, <3>1, <3>3
    <3>5. n \in 0..Len(db'.log)
      BY <1>3, <1>6
    <3> QED BY <1>1, <1>4, <1>10, <2>2, <3>1, <3>4, <3>5 DEF Block
  <2> QED BY <2>1, <2>2
<1>13. ShapeInv' /\ RowsInv' /\ ScnInv' /\ PlannedInv'
  BY <1>1, <1>2, <1>4 DEF LogInv, ShapeInv, RowsInv, ScnInv, PlannedInv, AllParsed
<1>14. WritesInv'
  <2>1. mine'[r].log \in Seq(E)
    BY <1>4, EmptySeq DEF NoWrites
  <2>2. \A q \in Requests \ {r} : Wrote(q) => Wrote(q)'
    BY <1>1, <1>4 DEF Wrote
  <2> QED BY <1>1, <1>4, <2>1, <2>2 DEF LogInv, WritesInv, Open, E
<1> QED BY <1>6, <1>11, <1>12, <1>13, <1>14 DEF LogInv, E

-----------------------------------------------------------------------------
(* Outside transactions: the requests' other statements.                   *)
LEMMA LogGate ==
  ASSUME LogInv, NEW r \in Requests, NEW s \in Scenarios, Gate(r, s)
  PROVE  LogInv'
<1>1. PICK l \in {"gated", "refused"} : Goto(r, l)
  BY DEF Gate
<1>2. /\ ~Open(r) /\ pc[r] # "applied" /\ UNCHANGED <<db, rows, plan, at, loaded>>
      /\ DOMAIN scn' = Requests /\ scn'[r] = s /\ \A q \in Requests \ {r} : scn'[q] = scn[q]
  BY DEF Gate, Open, LogInv, ScnInv
<1>3. RowsInv'
  BY <1>2 DEF LogInv, RowsInv
<1> QED BY <1>1, <1>2, <1>3, LogQuiet DEF Goto, PcLabels, LogInv, ShapeInv

LEMMA LogCheckStatus ==
  ASSUME LogInv, NEW r \in Requests, CheckStatus(r)
  PROVE  LogInv'
<1>1. PICK l \in {"checked", "refused"} : Goto(r, l)
  BY DEF CheckStatus
<1>2. ~Open(r) /\ pc[r] = "gated" /\ UNCHANGED <<db, rows, scn, plan, at, loaded>>
  BY DEF CheckStatus, Open
<1>3. RowsInv'
  BY <1>2 DEF LogInv, RowsInv
<1> QED BY <1>1, <1>2, <1>3, LogQuiet DEF Goto, PcLabels, LogInv, ShapeInv, ScnInv

LEMMA LogReadPlan ==
  ASSUME LogInv, NEW r \in Requests, ReadPlan(r)
  PROVE  LogInv'
<1>1. PICK l \in {"planned", "refused"} : Goto(r, l) /\ (l = "planned" => AllParsed(plan'[r]))
  BY DEF ReadPlan
<1>2. /\ ~Open(r) /\ pc[r] = "checked" /\ UNCHANGED <<db, rows, scn, at, loaded>>
      /\ DOMAIN plan' = Requests /\ \A q \in Requests \ {r} : plan'[q] = plan[q]
      /\ plan'[r] = EnabledMoves(scn[r])
  BY DEF ReadPlan, Open, LogInv, ShapeInv
<1>3. RowsInv'
  BY <1>2 DEF LogInv, RowsInv
<1>4. IsSeq(plan'[r])
  BY <1>2, EnabledIsSeq DEF LogInv, RowsInv, ScnInv
<1> QED BY <1>1, <1>2, <1>3, <1>4, LogQuiet DEF Goto, PcLabels, LogInv, ShapeInv, ScnInv

(* A request that reads what it is about to edit.                          *)
LEMMA LogReads ==
  ASSUME LogInv, NEW r \in Requests,
         \/ \E s : AddRead(r, s)
         \/ \E s, i : ToggleRead(r, s, i)
         \/ \E p : CreateRead(r, p)
  PROVE  LogInv'
<1>1. PICK l \in {"adding", "toggling", "creating", "refused"} : Goto(r, l)
  BY DEF AddRead, ToggleRead, CreateRead
<1>2. /\ ~Open(r) /\ pc[r] = "idle" /\ UNCHANGED <<db, rows, plan, at>>
      /\ DOMAIN loaded' = Requests
      /\ DOMAIN scn' = Requests /\ \A q \in Requests \ {r} : scn'[q] = scn[q]
  BY DEF AddRead, ToggleRead, CreateRead, Open, LogInv, ShapeInv, ScnInv
<1>3. RowsInv'
  BY <1>2 DEF LogInv, RowsInv
<1> QED BY <1>1, <1>2, <1>3, LogQuiet DEF Goto, PcLabels, LogInv, ShapeInv

(* A request that writes its edit, of a scenario or of the records.        *)
LEMMA LogWritesEdit ==
  ASSUME LogInv, NEW r \in Requests, (\E m : AddInsert(r, m)) \/ ToggleWrite(r) \/ CreateWrite(r)
  PROVE  LogInv'
<1>1. /\ End(r, "done") /\ ~Open(r) /\ pc[r] # "applied" /\ UNCHANGED <<scn, plan, at>> /\ db'.log = db.log
  <2>1. CASE \E m : AddInsert(r, m)
    BY <2>1 DEF AddInsert, Open
  <2>2. CASE ToggleWrite(r)
    BY <2>2 DEF ToggleWrite, Open
  <2>3. CASE CreateWrite(r)
    BY <2>3 DEF CreateWrite, ContractAdded, Open
  <2> QED BY <2>1, <2>2, <2>3
<1>2. /\ pc' = [pc EXCEPT ![r] = "done"] /\ DOMAIN loaded' = Requests
      /\ DOMAIN mine' = Requests /\ \A q \in Requests : mine'[q] = mine[q]
  BY <1>1 DEF End, LogInv, ShapeInv, WritesInv
<1>3. RowsInv'
  <2>1. CASE \E m : AddInsert(r, m)
    <3>1. PICK e : rows' = [rows EXCEPT ![scn[r]] = Append(@, e)]
      BY <2>1 DEF AddInsert
    <3>2. DOMAIN rows' = Scenarios /\ \A s \in Scenarios : rows'[s] = rows[s] \/ rows'[s] = Append(rows[s], e)
      BY <3>1 DEF LogInv, RowsInv
    <3> QED BY <3>2, AppendIsSeq DEF LogInv, RowsInv
  <2>2. CASE ToggleWrite(r)
    <3> DEFINE toggled(s) == [i \in DOMAIN rows[s] |-> IF rows[s][i].id = loaded[r].id
                               THEN [rows[s][i] EXCEPT !.enabled = ~loaded[r].enabled] ELSE rows[s][i]]
    <3>1. DOMAIN rows' = Scenarios /\ \A s \in Scenarios : rows'[s] = rows[s] \/ rows'[s] = toggled(s)
      BY <2>2 DEF ToggleWrite, LogInv, RowsInv
    <3>2. ASSUME NEW s \in Scenarios PROVE IsSeq(toggled(s))
      <4>1. DOMAIN rows[s] = 1..Len(rows[s]) /\ Len(rows[s]) \in Nat
        BY IsSeqDomain DEF LogInv, RowsInv
      <4> DEFINE t == toggled(s)
      <4>2. t = [i \in 1..Len(rows[s]) |-> t[i]]
        BY <4>1
      <4> HIDE DEF t
      <4>3. IsSeq(t)
        BY <4>1, <4>2, FunctionIsSeq
      <4> QED BY <4>3 DEF t
    <3> QED BY <3>1, <3>2 DEF LogInv, RowsInv
  <2>3. CASE CreateWrite(r)
    BY <2>3 DEF CreateWrite, LogInv, RowsInv
  <2> QED BY <2>1, <2>2, <2>3
<1> QED BY <1>1, <1>2, <1>3, LogQuiet DEF PcLabels, LogInv, ShapeInv, ScnInv

(* Edits that are one statement.                                           *)
LEMMA LogEdits ==
  ASSUME LogInv, ScenarioEdit \/ OfficialEdit
  PROVE  LogInv'
<1>1. /\ UNCHANGED <<pc, scn, plan, at, loaded, mine>> /\ db'.log = db.log
  BY DEF ScenarioEdit, RemoveMove, SetStatus, OfficialEdit, Terminate, ContractTerminated,
         SetPlayerStatus, PlayerStatusSet
<1>2. RowsInv'
  <2>1. CASE rows' = rows
    BY <2>1 DEF LogInv, RowsInv
  <2>2. CASE rows' # rows
    <3>1. PICK s \in Editable : \E i \in DOMAIN rows[s] : rows' = [rows EXCEPT ![s] = RemoveAt(@, i)]
      BY <2>2 DEF ScenarioEdit, RemoveMove, SetStatus, OfficialEdit, Terminate, SetPlayerStatus
    <3>2. PICK i \in DOMAIN rows[s] : rows' = [rows EXCEPT ![s] = RemoveAt(rows[s], i)]
      BY <3>1
    <3> DEFINE fewer == RemoveAt(rows[s], i)
    <3>3. s \in Scenarios => IsSeq(fewer)
      BY RemoveIsSeq DEF LogInv, RowsInv
    <3>4. rows' = [rows EXCEPT ![s] = fewer]
      BY <3>2
    <3> HIDE DEF fewer
    <3>5. DOMAIN rows' = Scenarios /\ \A t \in Scenarios : rows'[t] = IF t = s THEN fewer ELSE rows[t]
      BY <3>4 DEF LogInv, RowsInv
    <3> QED BY <3>3, <3>5 DEF LogInv, RowsInv
  <2> QED BY <2>1, <2>2
<1> QED BY <1>1, <1>2, LogUnchanged DEF LogInv, ShapeInv

LEMMA InitLogInv == Init => LogInv
<1> SUFFICES ASSUME Init PROVE LogInv
  OBVIOUS
<1>1. db.log = <<>>
  BY OfficialsAssumption DEF Init
<1>2. <<>> \in Seq(LogEntries(Requests)) /\ DOMAIN <<>> = {}
  BY EmptySeq
<1>3. RowsInv
  <2>1. DOMAIN rows = Scenarios
    BY PlansAssumption DEF Init
  <2>2. \A s \in Scenarios : IsSeq(rows[s])
    BY PlansAssumption, SeqIsSeq DEF Init
  <2> QED BY <2>1, <2>2 DEF RowsInv
<1>4. ShapeInv /\ ScnInv /\ PlannedInv
  BY DEF Init, ShapeInv, ScnInv, PlannedInv, PcLabels
<1>5. WritesInv
  BY <1>2 DEF Init, WritesInv, NoWrites, Open
<1>6. \A r \in Requests : Block(r)
  BY <1>1, <1>2 DEF Init, Block, LoggedBy
<1> QED BY <1>1, <1>2, <1>3, <1>4, <1>5, <1>6 DEF LogInv

LEMMA NextLogInv ==
  ASSUME LogInv, [Next]_vars
  PROVE  LogInv'
<1>1. ASSUME NEW r \in Requests, Start(r) PROVE LogInv'
  BY <1>1, LogGate, LogReads DEF Start
<1>2. ASSUME NEW r \in Requests, Continue(r) PROVE LogInv'
  BY <1>2, LogCheckStatus, LogReadPlan, LogBegin, LogLoad, LogWrite, LogCommit, LogWritesEdit DEF Continue
<1>3. ASSUME NEW r \in Requests, Fail(r) PROVE LogInv'
  BY <1>3, LogEnds DEF Fail
<1>4. CASE ScenarioEdit \/ OfficialEdit
  BY <1>4, LogEdits
<1>5. CASE UNCHANGED vars
  BY <1>5, LogUnchanged DEF vars, LogInv, ShapeInv, RowsInv
<1> QED BY <1>1, <1>2, <1>3, <1>4, <1>5 DEF Next

(* On either database, what a request logs is all of what it read, in      *)
(* order and in one piece, or nothing.                                     *)
THEOREM AppliedAllOrNothing == Spec => []AllOrNothing
<1>1. LogInv /\ [Next]_vars => LogInv'
  BY NextLogInv
<1> QED BY <1>1, InitLogInv, LogInvTells, PTL DEF Spec

-----------------------------------------------------------------------------
(***************************************************************************)
(* What the records are, on the embedded database: they hang together, and *)
(* so do those an open transaction sees.                                   *)
(***************************************************************************)
USE NoneAssumption, EditsAssumption

RecordsGood(d) == RecordsOK(d, Requests) /\ Consistent(d)

(* Nothing is lost from d to v: debts and players remain, and a contract   *)
(* that is not active stays so.                                            *)
Follows(d, v) ==
  /\ d.obligations \subseteq v.obligations
  /\ \A p \in Players : d.players[p] # None => v.players[p] # None
  /\ \A c \in Contracts :
       d.contracts[c] # None /\ ~Active(d, c) => v.contracts[c] # None /\ ~Active(v, c)

-----------------------------------------------------------------------------
(* The operations on the records keep them good.                           *)

LEMMA ShareIsNat ==
  ASSUME NEW n \in Nat, NEW pct \in 0..100
  PROVE  Share(n, pct) \in Nat
<1>1. n * pct \in Nat
  OBVIOUS
<1> QED BY <1>1 DEF Share

LEMMA OfficialRowGood ==
  ASSUME NEW m, \A s \in DOMAIN m.seasons : m.seasons[s] \in [hit : Nat, bonus : Nat],
         NEW s \in Covered(m)
  PROVE  OfficialRow(m.seasons[s]) \in [hit : Nat, base : Nat, cash : Nat]
  BY DEF Covered, OfficialRow

LEMMA WithAddedGood ==
  ASSUME NEW m, \A s \in DOMAIN m.seasons : m.seasons[s] \in [hit : Nat, bonus : Nat],
         NEW now \in ContractRecords, NEW k
  PROVE  /\ WithAdded(now, m, k) \in ContractRecords
         /\ WithAdded(now, m, k).player = now.player
         /\ WithAdded(now, m, k).status = now.status
<1> DEFINE added == [s \in Seasons |->
                      IF s \in Added(m, k) THEN OfficialRow(m.seasons[s]) ELSE now.rows[s]]
<1>1. added \in SeasonRows
  BY OfficialRowGood DEF SeasonRows, ContractRecords, Added
<1> HIDE DEF added
<1>2. [now EXCEPT !.rows = added] \in ContractRecords
  BY <1>1 DEF ContractRecords
<1>3. /\ [now EXCEPT !.rows = added].player = now.player
      /\ [now EXCEPT !.rows = added].status = now.status
  BY DEF ContractRecords
<1>4. WithAdded(now, m, k) = [now EXCEPT !.rows = added]
  BY DEF WithAdded, added
<1> QED BY <1>2, <1>3, <1>4

(* Records are good when each of their parts is.                           *)
LEMMA PartsGood ==
  ASSUME NEW d, d \in [contracts : [Contracts -> ContractRecords \cup {None}],
                       players : [Players -> PlayerRecords \cup {None}],
                       obligations : SUBSET Obligations(Requests),
                       log : Seq(LogEntries(Requests))]
  PROVE  RecordsOK(d, Requests)
  BY DEF RecordsOK

LEMMA JoinGood ==
  ASSUME NEW d, RecordsOK(d, Requests), NEW m, Parsed(m), m.kind \in Incoming, NEW p \in Players
  PROVE  Join(d, m, p) \in PlayerRecords
<1>1. "pro_active" \in RosterStatuses
  BY DEF RosterStatuses, CountsAsActiveRoster
<1>2. CASE d.players[p] = None
  BY <1>1, <1>2 DEF Join, PlayerRecords, Parsed
<1>3. CASE d.players[p] # None
  <2>1. d.players[p] \in PlayerRecords
    BY <1>3 DEF RecordsOK
  <2> QED BY <1>1, <1>3, <2>1 DEF Join, PlayerRecords
<1> QED BY <1>2, <1>3

LEMMA ArriveGood ==
  ASSUME NEW d, RecordsGood(d), NEW r \in Requests,
         NEW m, Parsed(m), m.kind \in Incoming,
         NEW p \in Players, NEW c \in Contracts, d.contracts[c] = None
  PROVE  LET v == Arrive(d, m, p, c, r)
         IN  RecordsGood(v) /\ Follows(d, v)
<1> DEFINE v == Arrive(d, m, p, c, r)
           k == [player |-> p, status |-> "active", twoWay |-> m.twoWay, kept |-> m.kept,
                 rows |-> NewSeasonRows(m)]
           e == LogEntry(m, c, "player_in", r)
           j == Join(d, m, p)
<1>1. k \in ContractRecords
  <2>1. NewSeasonRows(m) \in SeasonRows
    BY OfficialRowGood DEF Parsed, NewSeasonRows, SeasonRows
  <2> QED BY <2>1 DEF Parsed, ContractRecords, ContractStatuses
<1>2. j \in PlayerRecords
  BY JoinGood DEF RecordsGood
<1>3. e \in LogEntries(Requests)
  BY DEF LogEntry, LogEntries, Parsed
<1>4. v = [contracts |-> [d.contracts EXCEPT ![c] = k],
           players |-> [d.players EXCEPT ![p] = j],
           obligations |-> d.obligations,
           log |-> Append(d.log, e)]
  BY DEF Arrive
<1> HIDE DEF v, k, j, e
<1>5. RecordsOK(v, Requests)
  <2>1. Append(d.log, e) \in Seq(LogEntries(Requests))
    BY <1>3 DEF RecordsGood, RecordsOK
  <2> QED BY <1>1, <1>2, <1>4, <2>1 DEF RecordsGood, RecordsOK
<1>6. Consistent(v)
  <2>1. k # None /\ j # None /\ k.player = p
    BY <1>1, <1>2 DEF k
  <2> QED BY <1>1, <1>2, <1>4, <2>1 DEF RecordsGood, RecordsOK, Consistent, Active, Obligations, ContractRecords
<1>7. Follows(d, v)
  BY <1>2, <1>4 DEF RecordsGood, RecordsOK, Follows, Active
<1> QED BY <1>5, <1>6, <1>7 DEF RecordsGood, v

(* The parts a move of a loaded contract leaves behind.                    *)
LEMMA PlayerChangeGood ==
  ASSUME NEW d, RecordsGood(d), NEW p \in Players, d.players[p] # None,
         NEW st \in RosterStatuses, NEW on \in BOOLEAN
  PROVE  /\ [d.players EXCEPT ![p] = [@ EXCEPT !.onTeam = on, !.status = st]]
              \in [Players -> PlayerRecords \cup {None}]
         /\ [d.players EXCEPT ![p] = [@ EXCEPT !.status = st]]
              \in [Players -> PlayerRecords \cup {None}]
         /\ [d.players[p] EXCEPT !.onTeam = on, !.status = st] # None
         /\ [d.players[p] EXCEPT !.status = st] # None
<1>1. d.players[p] \in PlayerRecords
  BY DEF RecordsGood, RecordsOK
<1>2. /\ [d.players[p] EXCEPT !.onTeam = on, !.status = st] \in PlayerRecords
      /\ [d.players[p] EXCEPT !.status = st] \in PlayerRecords
  BY <1>1 DEF PlayerRecords
<1> QED BY <1>2 DEF RecordsGood, RecordsOK

LEMMA ContractStatusGood ==
  ASSUME NEW k \in ContractRecords, NEW st \in ContractStatuses
  PROVE  /\ [k EXCEPT !.status = st] \in ContractRecords
         /\ [k EXCEPT !.status = st].status = st
         /\ [k EXCEPT !.status = st].player = k.player
  BY DEF ContractRecords

LEMMA BookedGood ==
  ASSUME NEW m, Parsed(m), m.kind \in Departures, NEW k \in ContractRecords, NEW r \in Requests
  PROVE  /\ Booked(m, k, r) \subseteq Obligations(Requests)
         /\ \A o \in Booked(m, k, r) : o.contract = m.contract
         /\ \A o, u \in Booked(m, k, r) : o.season = u.season => o = u
<1>1. \A s \in RowSeasons(k) : Share(k.rows[s].hit, m.pct) \in Nat
  <2> SUFFICES ASSUME NEW s \in RowSeasons(k) PROVE Share(k.rows[s].hit, m.pct) \in Nat
    OBVIOUS
  <2>1. k.rows[s].hit \in Nat
    BY DEF RowSeasons, ContractRecords, SeasonRows
  <2> QED BY <2>1, ShareIsNat DEF Parsed
<1>2. DebtKind(m) \in {"retained", "buyout"} /\ m.contract \in Contracts
  BY DEF DebtKind, Parsed, Departures, Incoming
<1> QED BY <1>1, <1>2 DEF Booked, Obligations, RowSeasons

LEMMA DepartGood ==
  ASSUME NEW d, RecordsGood(d), NEW r \in Requests,
         NEW m, Parsed(m), m.kind \in Departures, Active(d, m.contract)
  PROVE  LET v == Depart(d, m, d.contracts[m.contract], r)
         IN  RecordsGood(v) /\ Follows(d, v)
<1> DEFINE k == d.contracts[m.contract]
           left == [k EXCEPT !.status = Departed(m)]
           gone == [d.players[k.player] EXCEPT !.onTeam = FALSE, !.status = "non_roster"]
           owed == Booked(m, k, r)
           e == LogEntry(m, m.contract, "player_out", r)
           v == Depart(d, m, k, r)
<1>1. m.contract \in Contracts /\ k \in ContractRecords
  BY DEF RecordsGood, RecordsOK, Active, Parsed, Departures, Incoming
<1>2. k.player \in Players /\ d.players[k.player] # None
  BY <1>1 DEF RecordsGood, Consistent, ContractRecords, Active
<1>3. left \in ContractRecords /\ left.status # "active" /\ left.player = k.player
  BY <1>1, ContractStatusGood DEF Departed, ContractStatuses
<1>4. /\ [d.players EXCEPT ![k.player] = gone] \in [Players -> PlayerRecords \cup {None}]
      /\ gone # None
  <2>1. "non_roster" \in RosterStatuses
    BY DEF RosterStatuses, OffCapStatuses
  <2> QED BY <1>2, <2>1, PlayerChangeGood
<1>5. /\ owed \subseteq Obligations(Requests)
      /\ \A o \in owed : o.contract = m.contract
      /\ \A o, u \in owed : o.season = u.season => o = u
  BY <1>1, BookedGood
<1>6. Append(d.log, e) \in Seq(LogEntries(Requests))
  <2>1. e \in LogEntries(Requests)
    BY <1>1 DEF LogEntry, LogEntries, Parsed
  <2> QED BY <2>1 DEF RecordsGood, RecordsOK
<1>7. v = [contracts |-> [d.contracts EXCEPT ![m.contract] = left],
           players |-> [d.players EXCEPT ![k.player] = gone],
           obligations |-> d.obligations \cup owed,
           log |-> Append(d.log, e)]
  BY DEF Depart
<1> HIDE DEF v, left, gone, owed, e
<1>8. RecordsOK(v, Requests)
  BY <1>1, <1>3, <1>4, <1>5, <1>6, <1>7 DEF RecordsGood, RecordsOK
<1>9. Consistent(v)
  <2>1. \A c \in Contracts : v.contracts[c] # None => v.players[v.contracts[c].player] # None
    BY <1>1, <1>2, <1>3, <1>4, <1>7 DEF RecordsGood, RecordsOK, Consistent, ContractRecords
  <2>2. \A o \in v.obligations : v.contracts[o.contract] # None /\ ~Active(v, o.contract)
    BY <1>1, <1>3, <1>5, <1>7 DEF RecordsGood, RecordsOK, Consistent, Active, Obligations
  <2>3. \A o, u \in v.obligations : o.contract = u.contract /\ o.season = u.season => o = u
    BY <1>1, <1>5, <1>7 DEF RecordsGood, RecordsOK, Consistent
  <2> QED BY <2>1, <2>2, <2>3 DEF Consistent
<1>10. Follows(d, v)
  BY <1>1, <1>2, <1>3, <1>4, <1>7 DEF RecordsGood, RecordsOK, Follows, Active
<1> QED BY <1>8, <1>9, <1>10 DEF RecordsGood, v

LEMMA AssignGood ==
  ASSUME NEW d, RecordsGood(d), NEW r \in Requests,
         NEW m, Parsed(m), m.kind \in Assignments, Active(d, m.contract)
  PROVE  LET v == Assign(d, m, d.contracts[m.contract], r)
         IN  RecordsGood(v) /\ Follows(d, v)
<1> DEFINE k == d.contracts[m.contract]
           moved == [d.players[k.player] EXCEPT !.status = AssignedStatus(m)]
           e == LogEntry(m, m.contract, "assignment", r)
           v == Assign(d, m, k, r)
<1>1. m.contract \in Contracts /\ k \in ContractRecords
  BY DEF RecordsGood, RecordsOK, Active, Parsed, Assignments, Incoming
<1>2. k.player \in Players /\ d.players[k.player] # None
  BY <1>1 DEF RecordsGood, Consistent, ContractRecords, Active
<1>3. /\ [d.players EXCEPT ![k.player] = moved] \in [Players -> PlayerRecords \cup {None}]
      /\ moved # None
  <2>1. AssignedStatus(m) \in RosterStatuses
    BY DEF AssignedStatus, Assignments, RosterStatuses, CountsAsActiveRoster, BuriedStatuses
  <2> QED BY <1>2, <2>1, PlayerChangeGood
<1>4. Append(d.log, e) \in Seq(LogEntries(Requests))
  <2>1. e \in LogEntries(Requests)
    BY <1>1 DEF LogEntry, LogEntries, Parsed
  <2> QED BY <2>1 DEF RecordsGood, RecordsOK
<1>5. v = [contracts |-> d.contracts,
           players |-> [d.players EXCEPT ![k.player] = moved],
           obligations |-> d.obligations,
           log |-> Append(d.log, e)]
  BY DEF Assign
<1> HIDE DEF v, moved, e
<1>6. RecordsOK(v, Requests)
  BY <1>3, <1>4, <1>5 DEF RecordsGood, RecordsOK
<1>7. Consistent(v)
  BY <1>2, <1>3, <1>5 DEF RecordsGood, RecordsOK, Consistent, Active
<1>8. Follows(d, v)
  BY <1>2, <1>3, <1>5 DEF RecordsGood, RecordsOK, Follows, Active
<1> QED BY <1>6, <1>7, <1>8 DEF RecordsGood, v

LEMMA ExtendGood ==
  ASSUME NEW d, RecordsGood(d), NEW r \in Requests,
         NEW m, Parsed(m), m.kind = "extension", Active(d, m.contract)
  PROVE  LET v == Extend(d, m, d.contracts[m.contract], r)
         IN  RecordsGood(v) /\ Follows(d, v)
<1> DEFINE k == d.contracts[m.contract]
           longer == WithAdded(k, m, k)
           e == LogEntry(m, m.contract, "extension", r)
           v == Extend(d, m, k, r)
<1>1. m.contract \in Contracts /\ k \in ContractRecords
  BY DEF RecordsGood, RecordsOK, Active, Parsed, Incoming
<1>2. longer \in ContractRecords /\ longer.player = k.player /\ longer.status = k.status
  BY <1>1, WithAddedGood DEF Parsed
<1>3. Append(d.log, e) \in Seq(LogEntries(Requests))
  <2>1. e \in LogEntries(Requests)
    BY <1>1 DEF LogEntry, LogEntries, Parsed
  <2> QED BY <2>1 DEF RecordsGood, RecordsOK
<1>4. v = [contracts |-> [d.contracts EXCEPT ![m.contract] = longer],
           players |-> d.players,
           obligations |-> d.obligations,
           log |-> Append(d.log, e)]
  BY DEF Extend
<1> HIDE DEF v, longer, e
<1>5. RecordsOK(v, Requests)
  BY <1>1, <1>2, <1>3, <1>4 DEF RecordsGood, RecordsOK
<1>6. Consistent(v)
  BY <1>1, <1>2, <1>4 DEF RecordsGood, RecordsOK, Consistent, Active, Obligations
<1>7. Follows(d, v)
  BY <1>1, <1>2, <1>4 DEF RecordsGood, RecordsOK, Follows, Active
<1> QED BY <1>5, <1>6, <1>7 DEF RecordsGood, v

LEMMA MoveGood ==
  ASSUME NEW d, RecordsGood(d), NEW r \in Requests,
         NEW m, Parsed(m), m.kind \notin Incoming, Active(d, m.contract)
  PROVE  LET v == Move(d, m, d.contracts[m.contract], r)
         IN  RecordsGood(v) /\ Follows(d, v)
<1>1. CASE m.kind \in Departures
  <2>1. Move(d, m, d.contracts[m.contract], r) = Depart(d, m, d.contracts[m.contract], r)
    BY <1>1 DEF Move, Departures, Assignments
  <2> QED BY <1>1, <2>1, DepartGood
<1>2. CASE m.kind \in Assignments
  <2>1. Move(d, m, d.contracts[m.contract], r) = Assign(d, m, d.contracts[m.contract], r)
    BY <1>2 DEF Move, Departures, Assignments
  <2> QED BY <1>2, <2>1, AssignGood
<1>3. CASE m.kind = "extension"
  <2>1. Move(d, m, d.contracts[m.contract], r) = Extend(d, m, d.contracts[m.contract], r)
    BY <1>3 DEF Move, Departures, Assignments
  <2> QED BY <1>3, <2>1, ExtendGood
<1> QED BY <1>1, <1>2, <1>3 DEF Parsed, Kinds

(* The edits by hand.                                                      *)

LEMMA StatusSetGood ==
  ASSUME NEW d, RecordsGood(d), NEW p \in Players, d.players[p] # None, NEW st \in RosterStatuses
  PROVE  LET v == PlayerStatusSet(d, p, st)
         IN  RecordsGood(v) /\ Follows(d, v)
<1> DEFINE x == [d.players[p] EXCEPT !.status = st]
           v == PlayerStatusSet(d, p, st)
<1>1. /\ [d.players EXCEPT ![p] = x] \in [Players -> PlayerRecords \cup {None}]
      /\ x # None
  BY PlayerChangeGood
<1>2. v = [contracts |-> d.contracts, players |-> [d.players EXCEPT ![p] = x],
           obligations |-> d.obligations, log |-> d.log]
  BY DEF PlayerStatusSet
<1> HIDE DEF v, x
<1>3. RecordsOK(v, Requests)
  BY <1>1, <1>2 DEF RecordsGood, RecordsOK
<1>4. Consistent(v)
  BY <1>1, <1>2 DEF RecordsGood, RecordsOK, Consistent, Active
<1>5. Follows(d, v)
  BY <1>1, <1>2 DEF RecordsGood, RecordsOK, Follows, Active
<1> QED BY <1>3, <1>4, <1>5 DEF RecordsGood, v

LEMMA TerminatedGood ==
  ASSUME NEW d, RecordsGood(d), NEW c \in Contracts, d.contracts[c] # None
  PROVE  LET v == ContractTerminated(d, c)
         IN  RecordsGood(v) /\ Follows(d, v)
<1> DEFINE x == [d.contracts[c] EXCEPT !.status = "terminated"]
           v == ContractTerminated(d, c)
<1>1. x \in ContractRecords /\ x.status = "terminated" /\ x.player = d.contracts[c].player
  <2>1. d.contracts[c] \in ContractRecords /\ "terminated" \in ContractStatuses
    BY DEF RecordsGood, RecordsOK, ContractStatuses
  <2> QED BY <2>1, ContractStatusGood
<1>2. v = [contracts |-> [d.contracts EXCEPT ![c] = x], players |-> d.players,
           obligations |-> d.obligations, log |-> d.log]
  BY DEF ContractTerminated
<1> HIDE DEF v, x
<1>3. RecordsOK(v, Requests)
  BY <1>1, <1>2 DEF RecordsGood, RecordsOK
<1>4. Consistent(v)
  BY <1>1, <1>2 DEF RecordsGood, RecordsOK, Consistent, Active, Obligations
<1>5. Follows(d, v)
  BY <1>1, <1>2 DEF RecordsGood, RecordsOK, Follows, Active
<1> QED BY <1>3, <1>4, <1>5 DEF RecordsGood, v

LEMMA AddedGood ==
  ASSUME NEW d, RecordsGood(d), NEW p \in Players, d.players[p] # None, NEW st \in RosterStatuses,
         NEW c \in Contracts, d.contracts[c] = None
  PROVE  LET v == ContractAdded(d, p, c, st, NewRows)
         IN  RecordsGood(v) /\ Follows(d, v)
<1> DEFINE x == [d.players[p] EXCEPT !.onTeam = TRUE, !.status = st]
           k == [player |-> p, status |-> "active", twoWay |-> FALSE, kept |-> 0, rows |-> NewRows]
           v == ContractAdded(d, p, c, st, NewRows)
<1>1. k \in ContractRecords /\ k.player = p
  BY DEF ContractRecords, ContractStatuses
<1>2. /\ [d.players EXCEPT ![p] = x] \in [Players -> PlayerRecords \cup {None}]
      /\ x # None
  BY PlayerChangeGood
<1>3. v = [contracts |-> [d.contracts EXCEPT ![c] = k], players |-> [d.players EXCEPT ![p] = x],
           obligations |-> d.obligations, log |-> d.log]
  BY DEF ContractAdded
<1> HIDE DEF v, x, k
<1>4. RecordsOK(v, Requests)
  BY <1>1, <1>2, <1>3 DEF RecordsGood, RecordsOK
<1>5. Consistent(v)
  BY <1>1, <1>2, <1>3 DEF RecordsGood, RecordsOK, Consistent, Active, Obligations, ContractRecords
<1>6. Follows(d, v)
  BY <1>2, <1>3 DEF RecordsGood, RecordsOK, Follows, Active
<1> QED BY <1>4, <1>5, <1>6 DEF RecordsGood, v

-----------------------------------------------------------------------------
(* The inductive invariant.                                                *)

(* One transaction is open at a time, and only it has writes of its own.   *)
OpenInv ==
  /\ \A q, r \in Requests : Open(q) /\ Open(r) => q = r
  /\ \A r \in Requests : ~Open(r) => mine[r] = NoWrites

(* What an open transaction sees is as good as what is committed, and has  *)
(* lost nothing of it.                                                     *)
ViewGood(r) == RecordsGood(View(r)) /\ Follows(db, View(r))

RecordsInv == RecordsGood(db) /\ \A r \in Requests : Open(r) => ViewGood(r)

PlanInv == \A r \in Requests : pc[r] \in {"planned", "load", "write"} => AllParsed(plan[r])

(* What a transaction has loaded is still so when it writes.               *)
LoadedGood(r) ==
  LET m == TheMove(r)
  IN  /\ at[r] \in DOMAIN plan[r]
      /\ m.kind \in Incoming => loaded[r] \in Players \cup {None}
      /\ m.kind \notin Incoming =>
           Active(View(r), m.contract) /\ loaded[r] = View(r).contracts[m.contract]

NewcomerGood(r) ==
  /\ loaded[r].player \in Players
  /\ db.players[loaded[r].player] # None
  /\ loaded[r].status \in RosterStatuses

LoadedInv ==
  \A r \in Requests :
    /\ pc[r] = "write" => LoadedGood(r)
    /\ pc[r] = "creating" => NewcomerGood(r)

IInv == ShapeInv /\ OpenInv /\ RecordsInv /\ PlanInv /\ LoadedInv

-----------------------------------------------------------------------------
(* What an open transaction sees once it has begun, or has written.        *)

LEMMA ViewAtFirst ==
  ASSUME NEW r \in Requests, RecordsGood(db), mine[r] = NoWrites
  PROVE  View(r) = db
<1>1. /\ Over(mine[r].contracts, db.contracts) = db.contracts
      /\ Over(mine[r].players, db.players) = db.players
  BY DEF NoWrites, Over, RecordsGood, RecordsOK
<1>2. db.log \o mine[r].log = db.log
  BY ConcatEmptySeq DEF NoWrites, RecordsGood, RecordsOK
<1>3. db.obligations \cup mine[r].obligations = db.obligations
  BY DEF NoWrites
<1>4. db = [contracts |-> db.contracts, players |-> db.players,
            obligations |-> db.obligations, log |-> db.log]
  BY DEF RecordsGood, RecordsOK
<1> QED BY <1>1, <1>2, <1>3, <1>4 DEF View

LEMMA ViewOnceWritten ==
  ASSUME NEW r \in Requests, RecordsGood(db), RecordsGood(View(r)), DOMAIN mine = Requests,
         NEW v, RecordsGood(v), View(r).obligations \subseteq v.obligations,
         db' = db, mine' = [mine EXCEPT ![r] = Overlay(r, v)]
  PROVE  /\ View(r)'.contracts = v.contracts
         /\ View(r)'.players = v.players
         /\ View(r)'.obligations = v.obligations
         /\ RecordsGood(View(r))'
<1> DEFINE o == Overlay(r, v)
<1>1. mine'[r] = o
  OBVIOUS
<1>2. /\ DOMAIN mine[r].contracts \subseteq Contracts
      /\ DOMAIN mine[r].players \subseteq Players
      /\ db.obligations \subseteq View(r).obligations
  BY DEF View, Over, RecordsGood, RecordsOK
<1>3. Over(o.contracts, db.contracts) = v.contracts
  BY <1>2 DEF Overlay, Over, RecordsGood, RecordsOK
<1>4. Over(o.players, db.players) = v.players
  BY <1>2 DEF Overlay, Over, RecordsGood, RecordsOK
<1>5. db.obligations \cup o.obligations = v.obligations
  BY <1>2 DEF Overlay
<1>6. db.log \o o.log \in Seq(LogEntries(Requests))
  <2>1. db.log \in Seq(LogEntries(Requests)) /\ v.log \in Seq(LogEntries(Requests))
    BY DEF RecordsGood, RecordsOK
  <2>2. SubSeq(v.log, Len(db.log) + 1, Len(v.log)) \in Seq(LogEntries(Requests))
    BY <2>1, SubSeqProperties
  <2> QED BY <2>1, <2>2, ConcatProperties DEF Overlay
<1>7. View(r)' = [contracts |-> v.contracts, players |-> v.players,
                  obligations |-> v.obligations, log |-> db.log \o o.log]
  <2> HIDE DEF o
  <2> QED BY <1>1, <1>3, <1>4, <1>5 DEF View
<1> HIDE DEF o
<1>8. RecordsOK(View(r)', Requests)
  BY <1>6, <1>7 DEF RecordsGood, RecordsOK
<1>9. Consistent(View(r)')
  BY <1>7 DEF RecordsGood, Consistent, Active
<1> QED BY <1>7, <1>8, <1>9 DEF RecordsGood

LEMMA ViewSame ==
  ASSUME NEW r, db' = db, mine'[r] = mine[r]
  PROVE  View(r)' = View(r)
  BY DEF View

-----------------------------------------------------------------------------
(* The steps.  A step of a request outside its transaction touches neither *)
(* the records nor anyone's writes.                                        *)

LEMMA QuietStep ==
  ASSUME IInv, NEW r \in Requests, ~Open(r), NEW l \in PcLabels, l \notin {"load", "write"},
         pc' = [pc EXCEPT ![r] = l], db' = db,
         DOMAIN mine' = Requests, \A q \in Requests : mine'[q] = mine[q],
         DOMAIN plan' = Requests, \A q \in Requests \ {r} : plan'[q] = plan[q],
         DOMAIN loaded' = Requests, \A q \in Requests \ {r} : loaded'[q] = loaded[q],
         at' = at,
         l = "planned" => AllParsed(plan'[r]),
         l = "creating" => NewcomerGood(r)'
  PROVE  IInv'
<1>1. \A q \in Requests : View(q)' = View(q)
  BY ViewSame
<1>2. \A q \in Requests : Open(q)' <=> Open(q)
  BY DEF IInv, ShapeInv, Open
<1>3. ShapeInv'
  BY DEF IInv, ShapeInv
<1>4. OpenInv'
  BY <1>2 DEF IInv, OpenInv
<1>5. RecordsInv'
  BY <1>1, <1>2 DEF IInv, RecordsInv, ViewGood, Follows, RecordsGood, RecordsOK, Consistent, Active
<1>6. PlanInv'
  BY DEF IInv, ShapeInv, PlanInv, AllParsed
<1>7. LoadedInv'
  <2>1. ASSUME NEW q \in Requests, pc'[q] = "write" PROVE LoadedGood(q)'
    <3>1. q # r /\ pc[q] = "write"
      BY <2>1 DEF IInv, ShapeInv
    <3>2. TheMove(q)' = TheMove(q) /\ loaded'[q] = loaded[q] /\ plan'[q] = plan[q]
      BY <3>1 DEF TheMove
    <3> QED BY <1>1, <3>1, <3>2 DEF IInv, LoadedInv, LoadedGood, Active
  <2>2. ASSUME NEW q \in Requests, pc'[q] = "creating" PROVE NewcomerGood(q)'
    <3>1. CASE q = r
      BY <2>2, <3>1 DEF IInv, ShapeInv
    <3>2. CASE q # r
      BY <2>2, <3>2 DEF IInv, ShapeInv, LoadedInv, NewcomerGood
    <3> QED BY <3>1, <3>2
  <2> QED BY <2>1, <2>2 DEF LoadedInv
<1> QED BY <1>3, <1>4, <1>5, <1>6, <1>7 DEF IInv

(* Goto and End, outside a transaction, are quiet.                         *)
LEMMA QuietGoto ==
  ASSUME IInv, NEW r \in Requests, ~Open(r), NEW l \in PcLabels, l \notin {"load", "write"},
         Goto(r, l), db' = db, at' = at,
         DOMAIN plan' = Requests, \A q \in Requests \ {r} : plan'[q] = plan[q],
         DOMAIN loaded' = Requests, \A q \in Requests \ {r} : loaded'[q] = loaded[q],
         l = "planned" => AllParsed(plan'[r]),
         l = "creating" => NewcomerGood(r)'
  PROVE  IInv'
<1>1. DOMAIN mine' = Requests /\ \A q \in Requests : mine'[q] = mine[q]
  BY DEF Goto, IInv, ShapeInv
<1> QED BY <1>1, QuietStep DEF Goto

LEMMA QuietEnd ==
  ASSUME IInv, NEW r \in Requests, ~Open(r), NEW l \in PcLabels,
         l \notin {"load", "write", "planned", "creating"},
         End(r, l), db' = db, plan' = plan, at' = at
  PROVE  IInv'
<1>1. DOMAIN mine' = Requests /\ \A q \in Requests : mine'[q] = mine[q]
  BY DEF End, IInv, ShapeInv, OpenInv
<1>2. DOMAIN loaded' = Requests /\ \A q \in Requests \ {r} : loaded'[q] = loaded[q]
  BY DEF End, IInv, ShapeInv
<1>3. DOMAIN plan' = Requests /\ \A q \in Requests \ {r} : plan'[q] = plan[q]
  BY DEF IInv, ShapeInv
<1> QED BY <1>1, <1>2, <1>3, QuietStep DEF End

LEMMA GateStep ==
  ASSUME IInv, NEW r \in Requests, NEW s, Gate(r, s) PROVE IInv'
<1>1. PICK l \in {"gated", "refused"} : Goto(r, l)
  BY DEF Gate
<1> QED BY <1>1, QuietGoto DEF Gate, Open, PcLabels, IInv, ShapeInv

LEMMA CheckStatusStep ==
  ASSUME IInv, NEW r \in Requests, CheckStatus(r) PROVE IInv'
<1>1. PICK l \in {"checked", "refused"} : Goto(r, l)
  BY DEF CheckStatus
<1> QED BY <1>1, QuietGoto DEF CheckStatus, Open, PcLabels, IInv, ShapeInv

LEMMA ReadPlanStep ==
  ASSUME IInv, NEW r \in Requests, ReadPlan(r) PROVE IInv'
<1>1. PICK l \in {"planned", "refused"} : Goto(r, l) /\ (l = "planned" => AllParsed(plan'[r]))
  BY DEF ReadPlan
<1>2. DOMAIN plan' = Requests /\ \A q \in Requests \ {r} : plan'[q] = plan[q]
  BY DEF ReadPlan, IInv, ShapeInv
<1> QED BY <1>1, <1>2, QuietGoto DEF ReadPlan, Open, PcLabels, IInv, ShapeInv

LEMMA AddReadStep ==
  ASSUME IInv, NEW r \in Requests, NEW s, AddRead(r, s) PROVE IInv'
<1>1. PICK l \in {"adding", "refused"} : Goto(r, l)
  BY DEF AddRead
<1>2. DOMAIN loaded' = Requests /\ \A q \in Requests \ {r} : loaded'[q] = loaded[q]
  BY DEF AddRead, IInv, ShapeInv
<1> QED BY <1>1, <1>2, QuietGoto DEF AddRead, Open, PcLabels, IInv, ShapeInv

LEMMA ToggleReadStep ==
  ASSUME IInv, NEW r \in Requests, NEW s, NEW i, ToggleRead(r, s, i) PROVE IInv'
<1>1. DOMAIN loaded' = Requests /\ \A q \in Requests \ {r} : loaded'[q] = loaded[q]
  BY DEF ToggleRead, IInv, ShapeInv
<1> QED BY <1>1, QuietGoto DEF ToggleRead, Open, PcLabels, IInv, ShapeInv

LEMMA CreateReadStep ==
  ASSUME IInv, NEW r \in Requests, NEW p \in Players, CreateRead(r, p) PROVE IInv'
<1>1. DOMAIN loaded' = Requests /\ \A q \in Requests \ {r} : loaded'[q] = loaded[q]
  BY DEF CreateRead, IInv, ShapeInv
<1>2. CASE Goto(r, "refused")
  BY <1>1, <1>2, QuietGoto DEF CreateRead, Open, PcLabels, IInv, ShapeInv
<1>3. CASE /\ Goto(r, "creating")
           /\ loaded' = [loaded EXCEPT ![r] =
                [player |-> p, status |-> IF db.players[p].onTeam THEN db.players[p].status ELSE "pro_active"]]
  <2>1. db.players[p] \in PlayerRecords /\ "pro_active" \in RosterStatuses
    BY DEF CreateRead, IInv, RecordsInv, RecordsGood, RecordsOK, RosterStatuses, CountsAsActiveRoster
  <2>2. NewcomerGood(r)'
    BY <1>3, <2>1 DEF CreateRead, NewcomerGood, IInv, ShapeInv, PlayerRecords
  <2> QED BY <1>1, <1>3, <2>2, QuietGoto DEF CreateRead, Open, PcLabels, IInv, ShapeInv
<1> QED BY <1>2, <1>3 DEF CreateRead

LEMMA AddInsertStep ==
  ASSUME IInv, NEW r \in Requests, NEW m, AddInsert(r, m) PROVE IInv'
  BY QuietEnd DEF AddInsert, Open, PcLabels

LEMMA ToggleWriteStep ==
  ASSUME IInv, NEW r \in Requests, ToggleWrite(r) PROVE IInv'
  BY QuietEnd DEF ToggleWrite, Open, PcLabels

(* Nothing the invariant is about changes.                                 *)
LEMMA UnchangedStep ==
  ASSUME IInv, UNCHANGED <<db, pc, plan, at, loaded, mine>>
  PROVE  IInv'
<1>1. \A q \in Requests : View(q)' = View(q) /\ TheMove(q)' = TheMove(q) /\ (Open(q)' <=> Open(q))
  BY ViewSame DEF TheMove, Open
<1>2. ShapeInv' /\ OpenInv' /\ PlanInv'
  BY <1>1 DEF IInv, ShapeInv, OpenInv, PlanInv, AllParsed
<1>3. RecordsInv'
  BY <1>1 DEF IInv, RecordsInv, ViewGood, Follows, RecordsGood, RecordsOK, Consistent, Active
<1>4. LoadedInv'
  BY <1>1 DEF IInv, LoadedInv, LoadedGood, NewcomerGood, Active
<1> QED BY <1>2, <1>3, <1>4 DEF IInv

-----------------------------------------------------------------------------
(* The steps of a transaction.                                             *)

(* r's steps leave what the others hold, plan and see as it is.            *)
LEMMA OthersStep ==
  ASSUME IInv, NEW r \in Requests, NEW q \in Requests, q # r,
         db' = db, pc'[q] = pc[q], plan' = plan, at'[q] = at[q],
         loaded'[q] = loaded[q], mine'[q] = mine[q]
  PROVE  /\ Open(q)' <=> Open(q)
         /\ Open(q) => ViewGood(q)'
         /\ pc[q] = "write" => LoadedGood(q)'
         /\ pc[q] = "creating" => NewcomerGood(q)'
<1>1. View(q)' = View(q) /\ TheMove(q)' = TheMove(q)
  BY ViewSame DEF TheMove
<1>2. Open(q)' <=> Open(q)
  BY DEF Open
<1>3. Open(q) => ViewGood(q)'
  BY <1>1 DEF IInv, RecordsInv, ViewGood, Follows, RecordsGood, RecordsOK, Consistent, Active
<1>4. pc[q] = "write" => LoadedGood(q)'
  BY <1>1 DEF IInv, LoadedInv, LoadedGood, Active
<1>5. pc[q] = "creating" => NewcomerGood(q)'
  BY DEF IInv, LoadedInv, NewcomerGood
<1> QED BY <1>2, <1>3, <1>4, <1>5

(* A step of r within its transaction keeps the invariant if what r sees   *)
(* stays good and what it has loaded is what it sees.                      *)
LEMMA TransactionStep ==
  ASSUME IInv, NEW r \in Requests, NEW l \in PcLabels, pc' = [pc EXCEPT ![r] = l],
         \A q \in Requests \ {r} : ~Open(q),
         db' = db, plan' = plan, l \in {"load", "write"} => AllParsed(plan[r]), l # "creating",
         l # "planned",
         DOMAIN at' = Requests, \A q \in Requests \ {r} : at'[q] = at[q],
         DOMAIN loaded' = Requests, \A q \in Requests \ {r} : loaded'[q] = loaded[q],
         DOMAIN mine' = Requests, \A q \in Requests \ {r} : mine'[q] = mine[q],
         l \notin {"load", "write"} => mine'[r] = NoWrites,
         l \in {"load", "write"} => ViewGood(r)',
         l = "write" => LoadedGood(r)'
  PROVE  IInv'
<1>1. \A q \in Requests \ {r} : pc'[q] = pc[q]
  BY DEF IInv, ShapeInv
<1>2. pc'[r] = l
  BY DEF IInv, ShapeInv
<1>3. \A q \in Requests \ {r} :
        /\ ~Open(q)'
        /\ pc[q] = "creating" => NewcomerGood(q)'
  BY <1>1, OthersStep
<1>4. ShapeInv'
  BY DEF IInv, ShapeInv
<1>5. OpenInv'
  BY <1>2, <1>3 DEF IInv, OpenInv, Open
<1>6. RecordsInv'
  <2>1. RecordsGood(db)'
    BY DEF IInv, RecordsInv, RecordsGood, RecordsOK, Consistent, Active
  <2> QED BY <1>2, <1>3, <2>1 DEF RecordsInv, Open
<1>7. PlanInv'
  BY <1>1, <1>2 DEF IInv, PlanInv, AllParsed
<1>8. LoadedInv'
  BY <1>1, <1>2, <1>3 DEF LoadedInv, Open
<1> QED BY <1>4, <1>5, <1>6, <1>7, <1>8 DEF IInv

(* On the embedded database an open transaction is alone.                  *)
LEMMA Alone ==
  ASSUME Exclusive, IInv, NEW r \in Requests, MayRun(r)
  PROVE  \A q \in Requests \ {r} : ~Open(q)
  BY DEF MayRun

LEMMA BeginStep ==
  ASSUME Exclusive, IInv, NEW r \in Requests, Begin(r)
  PROVE  IInv'
<1>1. \A q \in Requests \ {r} : ~Open(q)
  BY Alone DEF Begin
<1>2. mine[r] = NoWrites /\ mine' = mine
  BY DEF Begin, Goto, IInv, OpenInv, Open
<1>3. View(r)' = db
  BY <1>2, ViewAtFirst, ViewSame DEF Begin, IInv, RecordsInv
<1>4. ViewGood(r)'
  BY <1>3 DEF Begin, ViewGood, Follows, RecordsGood, RecordsOK, Consistent, Active, IInv, RecordsInv
<1>5. AllParsed(plan[r])
  BY DEF Begin, IInv, PlanInv
<1>6. /\ DOMAIN at' = Requests /\ \A q \in Requests \ {r} : at'[q] = at[q]
      /\ DOMAIN mine' = Requests /\ DOMAIN loaded' = Requests /\ loaded' = loaded
  BY <1>2 DEF Begin, IInv, ShapeInv
<1> QED BY <1>1, <1>2, <1>4, <1>5, <1>6, TransactionStep DEF Begin, Goto, PcLabels

LEMMA FailStep ==
  ASSUME Exclusive, IInv, NEW r \in Requests, Open(r), End(r, "refused"), db' = db, plan' = plan, at' = at
  PROVE  IInv'
<1>1. \A q \in Requests \ {r} : ~Open(q)
  BY DEF IInv, OpenInv
<1>2. /\ DOMAIN loaded' = Requests /\ \A q \in Requests \ {r} : loaded'[q] = loaded[q]
      /\ DOMAIN mine' = Requests /\ \A q \in Requests \ {r} : mine'[q] = mine[q]
      /\ mine'[r] = NoWrites /\ DOMAIN at' = Requests
  BY DEF End, IInv, ShapeInv
<1> QED BY <1>1, <1>2, TransactionStep DEF End, PcLabels

LEMMA LoadStep ==
  ASSUME Exclusive, IInv, NEW r \in Requests, Load(r)
  PROVE  IInv'
<1> DEFINE m == TheMove(r)
<1>1. Open(r) /\ \A q \in Requests \ {r} : ~Open(q)
  BY DEF Load, IInv, OpenInv, Open
<1>2. ViewGood(r) /\ AllParsed(plan[r]) /\ at[r] \in DOMAIN plan[r]
  BY <1>1 DEF Load, IInv, RecordsInv, PlanInv
<1>3. Parsed(m)
  BY <1>2 DEF AllParsed, TheMove
<1>4. CASE Refused(View(r), m)
  BY <1>1, <1>4, FailStep DEF Load
<1>5. CASE ~Refused(View(r), m)
  <2>1. PICK found \in (IF m.kind \notin Incoming
                        THEN {View(r).contracts[m.contract]}
                        ELSE IF SameName(View(r), m) = {} THEN {None} ELSE SameName(View(r), m)) :
          /\ Goto(r, "write")
          /\ loaded' = [loaded EXCEPT ![r] = found]
          /\ UNCHANGED <<db, plan, at>>
    BY <1>5 DEF Load
  <2>2. /\ DOMAIN loaded' = Requests /\ \A q \in Requests \ {r} : loaded'[q] = loaded[q]
        /\ loaded'[r] = found
    BY <2>1 DEF IInv, ShapeInv
  <2>3. mine' = mine /\ DOMAIN mine' = Requests /\ DOMAIN at' = Requests /\ at' = at
    BY <2>1 DEF Goto, IInv, ShapeInv
  <2>4. View(r)' = View(r) /\ TheMove(r)' = m
    BY <2>1, <2>3, ViewSame DEF TheMove
  <2>5. ViewGood(r)'
    BY <1>2, <2>1, <2>4 DEF ViewGood, Follows, RecordsGood, RecordsOK, Consistent, Active
  <2>6. LoadedGood(r)'
    <3>1. CASE m.kind \in Incoming
      BY <1>2, <2>1, <2>2, <2>4, <3>1 DEF LoadedGood, SameName
    <3>2. CASE m.kind \notin Incoming
      <4>1. Active(View(r), m.contract)
        BY <1>5, <3>2 DEF Refused
      <4> QED BY <1>2, <2>1, <2>2, <2>4, <3>2, <4>1 DEF LoadedGood, Active
    <3> QED BY <3>1, <3>2
  <2> QED BY <1>1, <1>2, <2>1, <2>2, <2>3, <2>5, <2>6, TransactionStep DEF Goto, PcLabels
<1> QED BY <1>4, <1>5

(* Whatever a move writes is good.                                         *)
LEMMA WrittenGood ==
  ASSUME IInv, NEW r \in Requests, Open(r), pc[r] = "write", NEW v \in Written(r)
  PROVE  RecordsGood(v) /\ Follows(View(r), v)
<1> DEFINE m == TheMove(r)
<1>1. RecordsGood(View(r)) /\ LoadedGood(r)
  BY DEF IInv, RecordsInv, ViewGood, LoadedInv
<1>2. Parsed(m)
  BY <1>1 DEF IInv, PlanInv, LoadedGood, AllParsed, TheMove
<1>3. CASE m.kind \in Incoming
  <2>1. PICK p \in (IF loaded[r] = None THEN NewPlayer(r) ELSE {loaded[r]}), c \in NewContract(r) :
          v = Arrive(View(r), m, p, c, r)
    BY <1>3 DEF Written
  <2>2. c \in Contracts /\ View(r).contracts[c] = None
    <3>1. c = CHOOSE i \in Unused(View(r).contracts, {d \in Contracts : ~ContractLocked(d, r)}) : TRUE
      BY DEF NewContract, NewId
    <3>2. Unused(View(r).contracts, {d \in Contracts : ~ContractLocked(d, r)}) # {}
      BY DEF NewContract, NewId
    <3>3. c \in Unused(View(r).contracts, {d \in Contracts : ~ContractLocked(d, r)})
      BY <3>1, <3>2
    <3> QED BY <3>3 DEF Unused
  <2>3. p \in Players
    <3>1. CASE loaded[r] = None
      <4>1. p \in NewPlayer(r)
        BY <3>1
      <4>2. p \in Unused(View(r).players, {d \in Players : ~PlayerLocked(d, r)})
        BY <4>1 DEF NewPlayer, NewId
      <4> QED BY <4>2 DEF Unused
    <3>2. CASE loaded[r] # None
      BY <1>1, <1>3, <3>2 DEF LoadedGood
    <3> QED BY <3>1, <3>2
  <2> QED BY <1>1, <1>2, <1>3, <2>1, <2>2, <2>3, ArriveGood
<1>4. CASE m.kind \notin Incoming
  <2>1. v = Move(View(r), m, loaded[r], r)
    BY <1>4 DEF Written
  <2>2. Active(View(r), m.contract) /\ loaded[r] = View(r).contracts[m.contract]
    BY <1>1, <1>4 DEF LoadedGood
  <2>3. v = Move(View(r), m, View(r).contracts[m.contract], r)
    BY <2>1, <2>2
  <2> HIDE DEF m
  <2> QED BY <1>1, <1>2, <1>4, <2>2, <2>3, MoveGood
<1> QED BY <1>3, <1>4

LEMMA WriteStep ==
  ASSUME Exclusive, IInv, NEW r \in Requests, Write(r)
  PROVE  IInv'
<1>1. Open(r) /\ \A q \in Requests \ {r} : ~Open(q)
  BY DEF Write, IInv, OpenInv, Open
<1>2. CASE Duplicate(r)
  BY <1>1, <1>2, FailStep DEF Write
<1>3. CASE ~Duplicate(r)
  <2>1. PICK v \in Written(r) : mine' = [mine EXCEPT ![r] = Overlay(r, v)]
    BY <1>3 DEF Write
  <2>2. /\ at' = [at EXCEPT ![r] = @ + 1]
        /\ pc' = [pc EXCEPT ![r] = "load"]
        /\ loaded' = [loaded EXCEPT ![r] = None]
        /\ db' = db /\ plan' = plan
    BY <1>3 DEF Write
  <2>3. RecordsGood(v) /\ Follows(View(r), v)
    BY <1>1, WrittenGood DEF Write
  <2>4. ViewGood(r) /\ RecordsGood(db) /\ AllParsed(plan[r])
    BY <1>1 DEF IInv, RecordsInv, PlanInv, Open
  <2>5. /\ View(r)'.contracts = v.contracts /\ View(r)'.players = v.players
        /\ View(r)'.obligations = v.obligations /\ RecordsGood(View(r))'
    BY <2>1, <2>2, <2>3, <2>4, ViewOnceWritten DEF ViewGood, Follows, IInv, ShapeInv
  <2>6. ViewGood(r)'
    BY <2>2, <2>3, <2>4, <2>5 DEF ViewGood, Follows, Active
  <2>7. /\ DOMAIN at' = Requests /\ \A q \in Requests \ {r} : at'[q] = at[q]
        /\ DOMAIN loaded' = Requests /\ \A q \in Requests \ {r} : loaded'[q] = loaded[q]
        /\ DOMAIN mine' = Requests /\ \A q \in Requests \ {r} : mine'[q] = mine[q]
    BY <2>1, <2>2 DEF IInv, ShapeInv
  <2> QED BY <1>1, <2>2, <2>4, <2>6, <2>7, TransactionStep DEF PcLabels
<1> QED BY <1>2, <1>3

-----------------------------------------------------------------------------
(* The steps that change the committed records: no transaction is open     *)
(* after them.                                                             *)

LEMMA RecordsStep ==
  ASSUME IInv, RecordsGood(db)', Follows(db, db'),
         pc' \in [Requests -> PcLabels], plan' = plan, at' = at,
         DOMAIN loaded' = Requests, DOMAIN mine' = Requests,
         \A q \in Requests : ~Open(q)' /\ mine'[q] = NoWrites,
         \A q \in Requests : pc'[q] \in {"planned", "creating"} =>
           pc[q] = pc'[q] /\ loaded'[q] = loaded[q]
  PROVE  IInv'
<1>1. ShapeInv' /\ OpenInv'
  BY DEF IInv, ShapeInv, OpenInv
<1>2. RecordsInv'
  BY DEF RecordsInv
<1>3. PlanInv'
  BY DEF IInv, PlanInv, AllParsed, Open
<1>4. LoadedInv'
  BY DEF IInv, LoadedInv, NewcomerGood, Follows, Open
<1> QED BY <1>1, <1>2, <1>3, <1>4 DEF IInv

LEMMA CommitStep ==
  ASSUME Exclusive, IInv, NEW r \in Requests, Commit(r)
  PROVE  IInv' /\ Follows(db, db')
<1>1. Open(r) /\ \A q \in Requests \ {r} : ~Open(q)
  BY DEF Commit, IInv, OpenInv, Open
<1>2. RecordsGood(db)' /\ Follows(db, db')
  <2>1. ViewGood(r) /\ db' = View(r)
    BY <1>1 DEF Commit, IInv, RecordsInv
  <2> QED BY <2>1 DEF ViewGood, Follows, RecordsGood, RecordsOK, Consistent, Active
<1>3. /\ pc' \in [Requests -> PcLabels] /\ pc'[r] = "applied"
      /\ \A q \in Requests \ {r} : pc'[q] = pc[q] /\ loaded'[q] = loaded[q] /\ mine'[q] = mine[q]
      /\ DOMAIN loaded' = Requests /\ DOMAIN mine' = Requests /\ mine'[r] = NoWrites
  BY DEF Commit, End, PcLabels, IInv, ShapeInv
<1>4. \A q \in Requests : ~Open(q)' /\ mine'[q] = NoWrites
  BY <1>1, <1>3 DEF IInv, OpenInv, Open
<1>5. \A q \in Requests : pc'[q] \in {"planned", "creating"} => pc[q] = pc'[q] /\ loaded'[q] = loaded[q]
  BY <1>3
<1> QED BY <1>2, <1>3, <1>4, <1>5, RecordsStep DEF Commit

LEMMA CreateWriteStep ==
  ASSUME Exclusive, IInv, NEW r \in Requests, CreateWrite(r)
  PROVE  IInv' /\ Follows(db, db')
<1>1. ~Open(r) /\ \A q \in Requests \ {r} : ~Open(q)
  BY Alone DEF CreateWrite, Open
<1>2. NewcomerGood(r) /\ View(r) = db /\ RecordsGood(db)
  BY <1>1, ViewAtFirst DEF CreateWrite, IInv, LoadedInv, OpenInv, RecordsInv
<1>3. PICK c \in NewContract(r) :
        db' = ContractAdded(db, loaded[r].player, c, loaded[r].status, NewRows)
  BY DEF CreateWrite
<1>4. c \in Contracts /\ db.contracts[c] = None
  <2>1. c \in Unused(db.contracts, {d \in Contracts : ~ContractLocked(d, r)})
    BY <1>2 DEF NewContract, NewId
  <2> QED BY <2>1 DEF Unused
<1>5. RecordsGood(db)' /\ Follows(db, db')
  <2>1. loaded[r].player \in Players /\ db.players[loaded[r].player] # None /\ loaded[r].status \in RosterStatuses
    BY <1>2 DEF NewcomerGood
  <2>2. LET v == ContractAdded(db, loaded[r].player, c, loaded[r].status, NewRows)
        IN  RecordsGood(v) /\ Follows(db, v)
    BY <1>2, <1>4, <2>1, AddedGood
  <2> QED BY <1>3, <2>2 DEF RecordsGood, RecordsOK, Consistent, Active
<1>6. /\ pc' \in [Requests -> PcLabels] /\ pc'[r] = "done"
      /\ \A q \in Requests \ {r} : pc'[q] = pc[q] /\ loaded'[q] = loaded[q] /\ mine'[q] = mine[q]
      /\ DOMAIN loaded' = Requests /\ DOMAIN mine' = Requests /\ mine'[r] = NoWrites
  BY DEF CreateWrite, End, PcLabels, IInv, ShapeInv
<1>7. \A q \in Requests : ~Open(q)' /\ mine'[q] = NoWrites
  BY <1>1, <1>6 DEF IInv, OpenInv, Open
<1>8. \A q \in Requests : pc'[q] \in {"planned", "creating"} => pc[q] = pc'[q] /\ loaded'[q] = loaded[q]
  BY <1>6
<1> QED BY <1>5, <1>6, <1>7, <1>8, RecordsStep DEF CreateWrite

LEMMA OfficialEditStep ==
  ASSUME Exclusive, IInv, OfficialEdit
  PROVE  IInv' /\ Follows(db, db')
<1>1. /\ MayRunAlone /\ UNCHANGED <<pc, plan, at, loaded, mine>>
      /\ RecordsGood(db)' /\ Follows(db, db')
  <2>1. RecordsGood(db)
    BY DEF IInv, RecordsInv
  <2>2. CASE \E c \in Terminable : Terminate(c)
    <3>1. PICK c \in Terminable : Terminate(c)
      BY <2>2
    <3>2. LET v == ContractTerminated(db, c) IN RecordsGood(v) /\ Follows(db, v)
      BY <2>1, <3>1, TerminatedGood DEF Terminate
    <3> QED BY <3>1, <3>2 DEF Terminate, RecordsGood, RecordsOK, Consistent, Active
  <2>3. CASE \E p \in Players, st \in StatusEdits : SetPlayerStatus(p, st)
    <3>1. PICK p \in Players, st \in StatusEdits : SetPlayerStatus(p, st)
      BY <2>3
    <3>2. LET v == PlayerStatusSet(db, p, st)
          IN  RecordsGood(v) /\ Follows(db, v)
      BY <2>1, <3>1, StatusSetGood DEF SetPlayerStatus
    <3> QED BY <3>1, <3>2 DEF SetPlayerStatus, RecordsGood, RecordsOK, Consistent, Active
  <2> QED BY <2>2, <2>3 DEF OfficialEdit
<1>2. \A q \in Requests : ~Open(q) /\ ~Open(q)' /\ mine'[q] = NoWrites
  BY <1>1 DEF MayRunAlone, IInv, OpenInv, Open
<1>3. /\ pc' \in [Requests -> PcLabels]
      /\ DOMAIN loaded' = Requests /\ DOMAIN mine' = Requests
  BY <1>1 DEF IInv, ShapeInv
<1> QED BY <1>1, <1>2, <1>3, RecordsStep

-----------------------------------------------------------------------------
LEMMA InitIInv == Init => IInv
<1> SUFFICES ASSUME Init PROVE IInv
  OBVIOUS
<1>1. \A r \in Requests : ~Open(r)
  BY DEF Init, Open
<1>2. RecordsInv
  BY <1>1, OfficialsAssumption DEF Init, RecordsInv, RecordsGood
<1>3. ShapeInv
  BY DEF Init, ShapeInv, PcLabels
<1> QED BY <1>1, <1>2, <1>3 DEF Init, IInv, OpenInv, PlanInv, LoadedInv

LEMMA NextIInv ==
  ASSUME Exclusive, IInv, [Next]_vars
  PROVE  IInv'
<1>1. CASE \E r \in Requests : Start(r)
  BY <1>1, GateStep, AddReadStep, ToggleReadStep, CreateReadStep, EditsAssumption DEF Start
<1>2. ASSUME NEW r \in Requests, Continue(r) PROVE IInv'
  BY <1>2, CheckStatusStep, ReadPlanStep, BeginStep, LoadStep, WriteStep, CommitStep,
     CreateWriteStep, ToggleWriteStep, AddInsertStep DEF Continue
<1>3. ASSUME NEW r \in Requests, Fail(r) PROVE IInv'
  BY <1>3, FailStep DEF Fail
<1>4. CASE ScenarioEdit
  BY <1>4, UnchangedStep DEF ScenarioEdit, RemoveMove, SetStatus
<1>5. CASE OfficialEdit
  BY <1>5, OfficialEditStep
<1>6. CASE UNCHANGED vars
  BY <1>6, UnchangedStep DEF vars
<1> QED BY <1>1, <1>2, <1>3, <1>4, <1>5, <1>6 DEF Next

(* No step loses a record, or brings a departed contract back.             *)
LEMMA NextFollows ==
  ASSUME Exclusive, IInv, [Next]_vars
  PROVE  Follows(db, db')
<1>1. CASE db' = db
  BY <1>1 DEF Follows
<1>2. ASSUME NEW r \in Requests, Commit(r) \/ CreateWrite(r) PROVE Follows(db, db')
  BY <1>2, CommitStep, CreateWriteStep
<1>3. CASE OfficialEdit
  BY <1>3, OfficialEditStep
<1>4. ASSUME NEW r \in Requests, Start(r) PROVE db' = db
  BY <1>4 DEF Start, Gate, AddRead, ToggleRead, CreateRead
<1>5. ASSUME NEW r \in Requests, Continue(r), ~Commit(r), ~CreateWrite(r) PROVE db' = db
  BY <1>5 DEF Continue, CheckStatus, ReadPlan, Begin, Load, Write, ToggleWrite, AddInsert
<1>6. ASSUME NEW r \in Requests, Fail(r) PROVE db' = db
  BY <1>6 DEF Fail
<1>7. CASE ScenarioEdit
  BY <1>1, <1>7 DEF ScenarioEdit, RemoveMove, SetStatus
<1>8. CASE UNCHANGED vars
  BY <1>1, <1>8 DEF vars
<1> QED BY <1>1, <1>2, <1>3, <1>4, <1>5, <1>6, <1>7, <1>8 DEF Next

(* A set whose members are all equal has at most one of them.              *)
LEMMA AtMostOne ==
  ASSUME NEW S, \A x, y \in S : x = y
  PROVE  Cardinality(S) <= 1
<1>1. CASE S = {}
  <2>1. Cardinality(S) = 0
    BY <1>1, FS_EmptySet
  <2> QED BY <2>1
<1>2. CASE S # {}
  <2>1. PICK x \in S : S = {x}
    BY <1>2
  <2>2. Cardinality(S) = 1
    BY <2>1, FS_Singleton
  <2> QED BY <2>2
<1> QED BY <1>1, <1>2

LEMMA GoodIsOnce == RecordsGood(db) => DeadCapOnce
<1> SUFFICES ASSUME RecordsGood(db), NEW c \in Contracts, NEW s \in Seasons
             PROVE  /\ Cardinality(DebtsOf(c, s)) <= 1
                    /\ DebtsOf(c, s) # {} => ~Active(db, c)
  BY DEF DeadCapOnce
<1>1. \A x, y \in DebtsOf(c, s) : x = y
  BY DEF DebtsOf, RecordsGood, Consistent
<1>2. DebtsOf(c, s) # {} => ~Active(db, c)
  BY DEF DebtsOf, RecordsGood, Consistent
<1> QED BY <1>1, <1>2, AtMostOne

(* The official records keep their shape and hang together: on the         *)
(* embedded database no interleaving of applies, contract additions,       *)
(* terminations and status changes commits a record that does not fit.     *)
THEOREM RecordsStayGood ==
  ASSUME Exclusive PROVE Spec => [](RecordsOK(db, Requests) /\ Consistent(db))
<1>1. IInv /\ [Next]_vars => IInv'
  BY NextIInv
<1>2. IInv => RecordsOK(db, Requests) /\ Consistent(db)
  BY DEF IInv, RecordsInv, RecordsGood
<1> QED BY <1>1, <1>2, InitIInv, PTL DEF Spec

(* A contract season is owed for at most once, and only once the contract  *)
(* is no longer active.                                                    *)
THEOREM DeadCapIsBookedOnce ==
  ASSUME Exclusive PROVE Spec => []DeadCapOnce
<1>1. IInv /\ [Next]_vars => IInv'
  BY NextIInv
<1>2. IInv => DeadCapOnce
  BY GoodIsOnce DEF IInv, RecordsInv
<1> QED BY <1>1, <1>2, InitIInv, PTL DEF Spec

(* A contract that has left, or was terminated, never becomes active       *)
(* again, whatever a request read of it before.                            *)
THEOREM DepartedStayDeparted ==
  ASSUME Exclusive PROVE Spec => NoResurrection
<1> DEFINE Stays == \A c \in Contracts :
                      db.contracts[c] # None /\ ~Active(db, c)
                        => db'.contracts[c] # None /\ ~Active(db, c)'
<1>1. IInv /\ [Next]_vars => IInv'
  BY NextIInv
<1>2. IInv /\ [Next]_vars => [Stays]_vars
  BY NextFollows DEF Follows, Active
<1> QED BY <1>1, <1>2, InitIInv, PTL DEF Spec, NoResurrection

-----------------------------------------------------------------------------
(***************************************************************************)
(* What the log says of departures, on the embedded database: what is      *)
(* committed fits its log, and so does what an open transaction sees.      *)
(***************************************************************************)

(* Logged is about the contracts and the log.                              *)
LEMMA LoggedAgrees ==
  ASSUME NEW d, NEW v, v.contracts = d.contracts, v.log = d.log, Logged(d)
  PROVE  Logged(v)
  BY DEF Logged, LeftAt, Active

(* A log that says nothing new of departures fits records in which none    *)
(* leaves but by termination.                                              *)
LEMMA LoggedStays ==
  ASSUME NEW d, Logged(d), d.log \in Seq(LogEntries(Requests)), NEW v,
         \/ v.log = d.log
         \/ \E e \in LogEntries(Requests) : e.item # "player_out" /\ v.log = Append(d.log, e),
         \A c \in Contracts :
           IF d.contracts[c] = None
           THEN v.contracts[c] = None \/ v.contracts[c].status = "active"
           ELSE v.contracts[c] # None /\ v.contracts[c].status \in {d.contracts[c].status, "terminated"}
  PROVE  Logged(v)
<1>1. /\ \A c \in Contracts : LeftAt(v, c) = LeftAt(d, c)
      /\ \A i \in DOMAIN d.log : v.log[i] = d.log[i]
  <2>1. CASE v.log = d.log
    BY <2>1 DEF LeftAt
  <2>2. CASE \E e \in LogEntries(Requests) : e.item # "player_out" /\ v.log = Append(d.log, e)
    <3>1. PICK e \in LogEntries(Requests) : e.item # "player_out" /\ v.log = Append(d.log, e)
      BY <2>2
    <3>2. /\ v.log \in Seq(LogEntries(Requests)) /\ Len(v.log) = Len(d.log) + 1
          /\ \A i \in 1..Len(d.log) : v.log[i] = d.log[i]
          /\ v.log[Len(d.log) + 1] = e
      BY <3>1, AppendProperties
    <3>3. DOMAIN d.log = 1..Len(d.log) /\ DOMAIN v.log = 1..Len(d.log) + 1 /\ Len(d.log) \in Nat
      BY <3>2, LenProperties
    <3> QED BY <3>1, <3>2, <3>3 DEF LeftAt
  <2> QED BY <2>1, <2>2
<1> SUFFICES ASSUME NEW c \in Contracts
             PROVE  /\ LeftAt(v, c) # {} => v.contracts[c] # None /\ ~Active(v, c)
                    /\ \A i, j \in LeftAt(v, c) : i = j
                    /\ v.contracts[c] # None /\ v.contracts[c].status \in {"traded", "bought_out"} =>
                         \E i \in LeftAt(v, c) : Departed(v.log[i]) = v.contracts[c].status
  BY DEF Logged
<1>2. LeftAt(d, c) # {} => d.contracts[c] # None /\ d.contracts[c].status # "active"
  BY DEF Logged, Active
<1>3. \A i, j \in LeftAt(d, c) : i = j
  BY DEF Logged
<1>4. d.contracts[c] # None /\ d.contracts[c].status \in {"traded", "bought_out"} =>
        \E i \in LeftAt(d, c) : Departed(d.log[i]) = d.contracts[c].status
  BY DEF Logged
<1>5. LeftAt(v, c) = LeftAt(d, c) /\ \A i \in LeftAt(d, c) : v.log[i] = d.log[i]
  BY <1>1 DEF LeftAt
<1>6. LeftAt(v, c) # {} => v.contracts[c] # None /\ ~Active(v, c)
  BY <1>2, <1>5 DEF Active
<1>7. ASSUME v.contracts[c] # None, v.contracts[c].status \in {"traded", "bought_out"}
      PROVE  \E i \in LeftAt(v, c) : Departed(v.log[i]) = v.contracts[c].status
  BY <1>4, <1>5, <1>7
<1> QED BY <1>3, <1>5, <1>6, <1>7

(* A departure is logged where there was none.                             *)
LEMMA DepartLogged ==
  ASSUME NEW d, RecordsGood(d), Logged(d), NEW r \in Requests,
         NEW m, Parsed(m), m.kind \in Departures, Active(d, m.contract)
  PROVE  Logged(Depart(d, m, d.contracts[m.contract], r))
<1> DEFINE k == d.contracts[m.contract]
           left == [k EXCEPT !.status = Departed(m)]
           e == LogEntry(m, m.contract, "player_out", r)
           v == Depart(d, m, k, r)
           E == LogEntries(Requests)
<1>1. m.contract \in Contracts /\ k \in ContractRecords /\ k.status = "active"
  BY DEF RecordsGood, RecordsOK, Active, Parsed, Departures, Incoming
<1>2. left \in ContractRecords /\ left.status = Departed(m) /\ left # None
  <2>1. Departed(m) \in ContractStatuses
    BY DEF Departed, ContractStatuses
  <2> HIDE DEF k
  <2>2. left \in ContractRecords /\ left.status = Departed(m)
    BY <1>1, <2>1, ContractStatusGood
  <2> QED BY <2>2
<1>3. e \in E /\ e.contract = m.contract /\ e.item = "player_out" /\ Departed(e) = Departed(m)
  BY <1>1 DEF LogEntry, LogEntries, Parsed, Departed
<1>4. v.contracts = [d.contracts EXCEPT ![m.contract] = left] /\ v.log = Append(d.log, e)
  BY DEF Depart
<1>5. d.log \in Seq(E) /\ d.contracts \in [Contracts -> ContractRecords \cup {None}]
  BY DEF RecordsGood, RecordsOK
<1> HIDE DEF v, left, e, E
<1> DEFINE n == Len(d.log)
<1>6. /\ \A i \in 1..n : v.log[i] = d.log[i]
      /\ v.log[n + 1] = e /\ n \in Nat /\ DOMAIN d.log = 1..n /\ DOMAIN v.log = 1..n + 1
  <2>1. /\ v.log \in Seq(E) /\ Len(v.log) = Len(d.log) + 1
        /\ \A i \in 1..Len(d.log) : v.log[i] = d.log[i]
        /\ v.log[Len(d.log) + 1] = e
    BY <1>3, <1>4, <1>5, AppendProperties
  <2> QED BY <1>5, <2>1, LenProperties
<1> HIDE DEF n
<1>7. LeftAt(d, m.contract) = {}
  BY <1>1 DEF Logged
<1>8. LeftAt(v, m.contract) = {n + 1}
  <2>1. \A i \in 1..n : i \notin LeftAt(v, m.contract)
    BY <1>6, <1>7 DEF LeftAt
  <2>2. n + 1 \in LeftAt(v, m.contract)
    BY <1>3, <1>6 DEF LeftAt
  <2>3. LeftAt(v, m.contract) \subseteq 1..n + 1
    BY <1>6 DEF LeftAt
  <2>4. \A i \in 1..n + 1 : i \in 1..n \/ i = n + 1
    BY <1>6
  <2> QED BY <2>1, <2>2, <2>3, <2>4
<1>9. \A c \in Contracts \ {m.contract} :
        LeftAt(v, c) = LeftAt(d, c) /\ \A i \in LeftAt(d, c) : v.log[i] = d.log[i]
  <2> SUFFICES ASSUME NEW c \in Contracts \ {m.contract}
               PROVE  LeftAt(v, c) = LeftAt(d, c) /\ \A i \in LeftAt(d, c) : v.log[i] = d.log[i]
    OBVIOUS
  <2>1. n + 1 \notin LeftAt(v, c)
    BY <1>3, <1>6 DEF LeftAt
  <2>2. \A i \in 1..n : i \in LeftAt(v, c) <=> i \in LeftAt(d, c)
    BY <1>6 DEF LeftAt
  <2>3. LeftAt(v, c) \subseteq 1..n + 1 /\ LeftAt(d, c) \subseteq 1..n
    BY <1>6 DEF LeftAt
  <2>4. \A i \in 1..n + 1 : i \in 1..n \/ i = n + 1
    BY <1>6
  <2>5. \A i \in 1..n : v.log[i] = d.log[i]
    BY <1>6
  <2> QED BY <2>1, <2>2, <2>3, <2>4, <2>5
<1>10. Logged(v)
  <2> SUFFICES ASSUME NEW c \in Contracts
               PROVE  /\ LeftAt(v, c) # {} => v.contracts[c] # None /\ ~Active(v, c)
                      /\ \A i, j \in LeftAt(v, c) : i = j
                      /\ v.contracts[c] # None /\ v.contracts[c].status \in {"traded", "bought_out"} =>
                           \E i \in LeftAt(v, c) : Departed(v.log[i]) = v.contracts[c].status
    BY DEF Logged
  <2>1. CASE c = m.contract
    <3>1. v.contracts[c] = left /\ left.status # "active"
      BY <1>2, <1>4, <1>5, <2>1 DEF Departed
    <3> QED BY <1>2, <1>3, <1>6, <1>8, <2>1, <3>1 DEF Active
  <2>2. CASE c # m.contract
    <3>1. v.contracts[c] = d.contracts[c]
      BY <1>4, <1>5, <2>2
    <3> QED BY <1>9, <2>2, <3>1 DEF Logged, Active
  <2> QED BY <2>1, <2>2
<1> QED BY <1>10 DEF v

(* Whatever a move writes fits its log.                                    *)
LEMMA WrittenLogged ==
  ASSUME IInv, NEW r \in Requests, Open(r), pc[r] = "write", Logged(View(r)), NEW v \in Written(r)
  PROVE  Logged(v)
<1> DEFINE m == TheMove(r)  d == View(r)  E == LogEntries(Requests)
<1>1. RecordsGood(d) /\ LoadedGood(r) /\ d.log \in Seq(E)
  BY DEF IInv, RecordsInv, ViewGood, LoadedInv, RecordsGood, RecordsOK
<1>2. Parsed(m)
  BY <1>1 DEF IInv, PlanInv, LoadedGood, AllParsed, TheMove
<1>3. CASE m.kind \in Incoming
  <2>1. PICK p \in (IF loaded[r] = None THEN NewPlayer(r) ELSE {loaded[r]}), c \in NewContract(r) :
          v = Arrive(d, m, p, c, r)
    BY <1>3 DEF Written
  <2>2. c \in Contracts /\ d.contracts[c] = None
    <3>1. c \in Unused(d.contracts, {i \in Contracts : ~ContractLocked(i, r)})
      BY DEF NewContract, NewId
    <3> QED BY <3>1 DEF Unused
  <2> DEFINE e == LogEntry(m, c, "player_in", r)
             k == [player |-> p, status |-> "active", twoWay |-> m.twoWay, kept |-> m.kept,
                   rows |-> NewSeasonRows(m)]
  <2>3. e \in E /\ e.item # "player_out"
    BY <1>2, <2>2 DEF LogEntry, LogEntries, Parsed
  <2>4. v.log = Append(d.log, e) /\ v.contracts = [d.contracts EXCEPT ![c] = k]
    BY <2>1 DEF Arrive
  <2>5. k.status = "active"
    OBVIOUS
  <2> HIDE DEF e, k, d, m
  <2>6. \A x \in Contracts :
          IF d.contracts[x] = None
          THEN v.contracts[x] = None \/ v.contracts[x].status = "active"
          ELSE v.contracts[x] # None /\ v.contracts[x].status \in {d.contracts[x].status, "terminated"}
    BY <1>1, <2>2, <2>4, <2>5 DEF RecordsGood, RecordsOK
  <2>7. Logged(d)
    BY DEF d
  <2> QED BY <1>1, <2>3, <2>4, <2>6, <2>7, LoggedStays
<1>4. CASE m.kind \notin Incoming
  <2>1. v = Move(d, m, d.contracts[m.contract], r)
    BY <1>1, <1>4 DEF Written, LoadedGood
  <2>2. Active(d, m.contract) /\ m.contract \in Contracts
    BY <1>1, <1>2, <1>4 DEF LoadedGood, Parsed
  <2>3. CASE m.kind \in Departures
    <3>1. v = Depart(d, m, d.contracts[m.contract], r)
      BY <2>1, <2>3 DEF Move, Departures, Assignments
    <3> HIDE DEF d, m
    <3>2. Logged(d)
      BY DEF d
    <3> QED BY <1>1, <1>2, <2>2, <2>3, <3>1, <3>2, DepartLogged
  <2>4. CASE m.kind \in Assignments
    <3> DEFINE e == LogEntry(m, m.contract, "assignment", r)
    <3>1. v.contracts = d.contracts /\ v.log = Append(d.log, e)
      BY <2>1, <2>4 DEF Move, Departures, Assignments, Assign
    <3>2. e \in E /\ e.item # "player_out"
      BY <1>2, <2>2 DEF LogEntry, LogEntries, Parsed
    <3> HIDE DEF e, d, m
    <3>3. Logged(d)
      BY DEF d
    <3> QED BY <1>1, <3>1, <3>2, <3>3, LoggedStays
  <2>5. CASE m.kind = "extension"
    <3> DEFINE e == LogEntry(m, m.contract, "extension", r)
               k == d.contracts[m.contract]
               longer == WithAdded(k, m, k)
    <3>1. v.contracts = [d.contracts EXCEPT ![m.contract] = longer] /\ v.log = Append(d.log, e)
      BY <2>1, <2>5 DEF Move, Departures, Assignments, Extend
    <3>2. e \in E /\ e.item # "player_out"
      BY <1>2, <2>2 DEF LogEntry, LogEntries, Parsed
    <3>3. k \in ContractRecords /\ k # None
      BY <1>1, <2>2 DEF RecordsGood, RecordsOK, Active
    <3>4. longer # None /\ longer.status = k.status
      BY <1>2, <2>5, <3>3, WithAddedGood DEF Parsed
    <3> HIDE DEF e, longer, d, m
    <3>5. \A x \in Contracts :
            IF d.contracts[x] = None
            THEN v.contracts[x] = None \/ v.contracts[x].status = "active"
            ELSE v.contracts[x] # None /\ v.contracts[x].status \in {d.contracts[x].status, "terminated"}
      BY <1>1, <3>1, <3>3, <3>4 DEF RecordsGood, RecordsOK
    <3>6. Logged(d)
      BY DEF d
    <3> QED BY <1>1, <3>1, <3>2, <3>5, <3>6, LoggedStays
  <2> QED BY <1>2, <1>4, <2>3, <2>4, <2>5 DEF Parsed, Kinds
<1> QED BY <1>3, <1>4

-----------------------------------------------------------------------------
LeaveInv == Logged(db) /\ \A r \in Requests : Open(r) => Logged(View(r))

(* A step that leaves what is committed, and what the open see, as it is.  *)
LEMMA LeaveSame ==
  ASSUME LeaveInv, db' = db, \A r \in Requests : Open(r)' => Open(r) /\ mine'[r] = mine[r]
  PROVE  LeaveInv'
<1>1. \A r \in Requests : Open(r)' => View(r)' = View(r)
  BY ViewSame
<1>2. Logged(db)'
  BY DEF LeaveInv, Logged, LeftAt, Active
<1>3. ASSUME NEW r \in Requests, Open(r)' PROVE Logged(View(r))'
  <2>1. View(r)' = View(r) /\ Logged(View(r))
    BY <1>1, <1>3 DEF LeaveInv
  <2>2. \A d : d = View(r)' => Logged(d)
    BY <2>1
  <2> QED BY <2>2 DEF Logged, LeftAt, Active
<1> QED BY <1>2, <1>3 DEF LeaveInv

(* A step after which no transaction is open.                              *)
LEMMA LeaveCommitted ==
  ASSUME \A r \in Requests : ~Open(r)', \A d : d = db' => Logged(d)
  PROVE  LeaveInv'
<1>1. Logged(db)'
  BY DEF Logged, LeftAt, Active
<1> QED BY <1>1 DEF LeaveInv

LEMMA LeaveWrite ==
  ASSUME Exclusive, IInv, LogInv, LeaveInv, NEW r \in Requests, Write(r)
  PROVE  LeaveInv'
<1>1. Open(r) /\ (\A q \in Requests \ {r} : ~Open(q)) /\ db' = db
  BY DEF Write, IInv, OpenInv, Open
<1>2. CASE Duplicate(r)
  <2>1. \A q \in Requests : ~Open(q)'
    BY <1>1, <1>2 DEF Write, End, Open, IInv, ShapeInv
  <2> QED BY <1>1, <2>1, LeaveSame
<1>3. CASE ~Duplicate(r)
  <2>1. PICK v \in Written(r) : mine' = [mine EXCEPT ![r] = Overlay(r, v)]
    BY <1>3 DEF Write
  <2>2. pc' = [pc EXCEPT ![r] = "load"] /\ pc[r] = "write"
    BY <1>3 DEF Write
  <2>3. RecordsGood(v) /\ Follows(View(r), v) /\ Logged(v)
    BY <1>1, <2>2, WrittenGood, WrittenLogged DEF LeaveInv
  <2>4. ViewGood(r) /\ RecordsGood(db)
    BY <1>1 DEF IInv, RecordsInv
  <2>5. View(r)'.contracts = v.contracts
    BY <1>1, <2>1, <2>3, <2>4, ViewOnceWritten DEF ViewGood, Follows, IInv, ShapeInv
  <2>6. View(r)'.log = v.log
    <3>1. /\ IsSeq(plan[r]) /\ AllParsed(plan[r]) /\ at[r] \in DOMAIN plan[r]
          /\ db.log \in Seq(LogEntries(Requests)) /\ mine[r].log \in Seq(LogEntries(Requests))
      BY <1>1, <2>2 DEF LogInv, PlannedInv, WritesInv
    <3>2. Parsed(TheMove(r))
      BY <3>1 DEF AllParsed, TheMove
    <3>3. PICK e \in LogEntries(Requests) : v.log = Append(View(r).log, e)
      BY <3>2, WrittenLog
    <3>4. db.log \o Overlay(r, v).log = v.log
      BY <3>1, <3>3, OverlayLog
    <3>5. mine'[r] = Overlay(r, v)
      BY <2>1 DEF IInv, ShapeInv
    <3> QED BY <1>1, <3>4, <3>5 DEF View
  <2>7. \A d : d = View(r)' => Logged(d)
    BY <2>3, <2>5, <2>6, LoggedAgrees
  <2>8. Logged(View(r))'
    BY <2>7 DEF Logged, LeftAt, Active
  <2>9. \A q \in Requests \ {r} : ~Open(q)'
    BY <1>1, <2>2 DEF Open, IInv, ShapeInv
  <2>10. Logged(db)'
    BY <1>1 DEF LeaveInv, Logged, LeftAt, Active
  <2> QED BY <2>8, <2>9, <2>10 DEF LeaveInv
<1> QED BY <1>2, <1>3

LEMMA LeaveCommit ==
  ASSUME Exclusive, IInv, LeaveInv, NEW r \in Requests, Commit(r)
  PROVE  LeaveInv'
<1>1. Open(r) /\ (\A q \in Requests \ {r} : ~Open(q)) /\ db' = View(r)
  BY DEF Commit, IInv, OpenInv, Open
<1>2. \A q \in Requests : ~Open(q)'
  BY <1>1 DEF Commit, End, Open, IInv, ShapeInv
<1>3. \A d : d = db' => Logged(d)
  BY <1>1 DEF LeaveInv
<1> QED BY <1>2, <1>3, LeaveCommitted

(* The edits by hand log nothing, and no one leaves but by termination.    *)
LEMMA LeaveEdits ==
  ASSUME Exclusive, IInv, LeaveInv, OfficialEdit \/ \E r \in Requests : CreateWrite(r)
  PROVE  LeaveInv'
<1>1. db.log \in Seq(LogEntries(Requests)) /\ db.contracts \in [Contracts -> ContractRecords \cup {None}]
  BY DEF IInv, RecordsInv, RecordsGood, RecordsOK
<1> DEFINE Fits(v) ==
      /\ v.log = db.log
      /\ \A c \in Contracts :
           IF db.contracts[c] = None
           THEN v.contracts[c] = None \/ v.contracts[c].status = "active"
           ELSE v.contracts[c] # None /\ v.contracts[c].status \in {db.contracts[c].status, "terminated"}
<1>2. Fits(db') /\ \A q \in Requests : ~Open(q)'
  <2>1. ASSUME NEW r \in Requests, CreateWrite(r) PROVE Fits(db') /\ \A q \in Requests : ~Open(q)'
    <3>1. ~Open(r) /\ \A q \in Requests \ {r} : ~Open(q)
      BY <2>1, Alone DEF CreateWrite, Open
    <3>2. View(r) = db
      BY <3>1, ViewAtFirst DEF IInv, OpenInv, RecordsInv
    <3>3. PICK c \in NewContract(r) :
            db' = ContractAdded(db, loaded[r].player, c, loaded[r].status, NewRows)
      BY <2>1 DEF CreateWrite
    <3>4. c \in Contracts /\ db.contracts[c] = None
      <4>1. c \in Unused(db.contracts, {d \in Contracts : ~ContractLocked(d, r)})
        BY <3>2 DEF NewContract, NewId
      <4> QED BY <4>1 DEF Unused
    <3> DEFINE k == [player |-> loaded[r].player, status |-> "active", twoWay |-> FALSE, kept |-> 0, rows |-> NewRows]
    <3>5. db'.contracts = [db.contracts EXCEPT ![c] = k] /\ db'.log = db.log /\ k.status = "active"
      BY <3>3 DEF ContractAdded
    <3> HIDE DEF k
    <3>6. Fits(db')
      BY <1>1, <3>4, <3>5
    <3>7. \A q \in Requests : ~Open(q)'
      BY <2>1, <3>1 DEF CreateWrite, End, Open, IInv, ShapeInv
    <3> QED BY <3>6, <3>7
  <2>2. CASE OfficialEdit
    <3>1. \A q \in Requests : ~Open(q)'
      BY <2>2 DEF OfficialEdit, Terminate, SetPlayerStatus, MayRunAlone, Open
    <3>2. CASE \E c \in Terminable : Terminate(c)
      <4>1. PICK c \in Terminable : Terminate(c)
        BY <3>2
      <4> DEFINE x == [db.contracts[c] EXCEPT !.status = "terminated"]
      <4>2. c \in Contracts /\ db.contracts[c] \in ContractRecords /\ "terminated" \in ContractStatuses
        BY <1>1, <4>1 DEF Terminate, ContractStatuses
      <4>3. x \in ContractRecords /\ x.status = "terminated" /\ x # None
        BY <4>2, ContractStatusGood
      <4>4. db'.contracts = [db.contracts EXCEPT ![c] = x] /\ db'.log = db.log
        BY <4>1 DEF Terminate, ContractTerminated
      <4> HIDE DEF x
      <4>5. Fits(db')
        BY <1>1, <4>2, <4>3, <4>4
      <4> QED BY <3>1, <4>5
    <3>3. CASE \E p \in Players, st \in StatusEdits : SetPlayerStatus(p, st)
      BY <1>1, <3>1, <3>3 DEF SetPlayerStatus, PlayerStatusSet
    <3> QED BY <2>2, <3>2, <3>3 DEF OfficialEdit
  <2> QED BY <2>1, <2>2
<1>3. \A d : d = db' => Logged(d)
  <2> HIDE DEF Fits
  <2> SUFFICES ASSUME NEW d, d = db' PROVE Logged(d)
    OBVIOUS
  <2>1. Fits(d) /\ Logged(db)
    BY <1>2 DEF LeaveInv
  <2> QED BY <1>1, <2>1, LoggedStays DEF Fits
<1> QED BY <1>2, <1>3, LeaveCommitted

LEMMA InitLeaveInv == Init => LeaveInv
  BY OfficialsAssumption DEF Init, LeaveInv, Open

LEMMA NextLeaveInv ==
  ASSUME Exclusive, IInv, LogInv, LeaveInv, [Next]_vars
  PROVE  LeaveInv'
<1>1. ASSUME NEW r \in Requests, Write(r) \/ Commit(r) \/ CreateWrite(r) PROVE LeaveInv'
  BY <1>1, LeaveWrite, LeaveCommit, LeaveEdits
<1>2. CASE OfficialEdit
  BY <1>2, LeaveEdits
<1>3. ASSUME NEW r \in Requests, Begin(r) PROVE LeaveInv'
  <2>1. \A q \in Requests \ {r} : ~Open(q)
    BY <1>3, Alone DEF Begin
  <2>2. mine[r] = NoWrites /\ mine' = mine /\ db' = db
    BY <1>3 DEF Begin, Goto, IInv, OpenInv, Open
  <2>3. View(r)' = db
    BY <2>2, ViewAtFirst, ViewSame DEF IInv, RecordsInv
  <2>4. \A d : d = View(r)' => Logged(d)
    BY <2>3 DEF LeaveInv
  <2>5. Logged(View(r))'
    BY <2>4 DEF Logged, LeftAt, Active
  <2>6. Logged(db)'
    BY <2>2 DEF LeaveInv, Logged, LeftAt, Active
  <2>7. \A q \in Requests \ {r} : ~Open(q)'
    BY <1>3, <2>1 DEF Begin, Goto, Open, IInv, ShapeInv
  <2> QED BY <2>5, <2>6, <2>7 DEF LeaveInv
<1>4. ASSUME NEW r \in Requests, Load(r) PROVE LeaveInv'
  <2>1. db' = db /\ Open(r)
    BY <1>4 DEF Load, Open
  <2>2. CASE Goto(r, "write")
    BY <2>1, <2>2, LeaveSame DEF Goto, Open, IInv, ShapeInv
  <2>3. CASE End(r, "refused")
    BY <2>1, <2>3, LeaveSame DEF End, Open, IInv, ShapeInv
  <2> QED BY <1>4, <2>2, <2>3 DEF Load
<1>5. ASSUME NEW r \in Requests, Fail(r) PROVE LeaveInv'
  BY <1>5, LeaveSame DEF Fail, End, Open, IInv, ShapeInv
<1>6. ASSUME NEW r \in Requests,
             Start(r) \/ CheckStatus(r) \/ ReadPlan(r) \/ ToggleWrite(r) \/ \E m \in EditMoves : AddInsert(r, m)
      PROVE  LeaveInv'
  <2>1. db' = db
    BY <1>6 DEF Start, Gate, AddRead, ToggleRead, CreateRead, CheckStatus, ReadPlan, ToggleWrite, AddInsert
  <2>2. PICK l \in {"gated", "checked", "planned", "refused", "adding", "toggling", "creating", "done"} :
          pc' = [pc EXCEPT ![r] = l] /\ (mine' = mine \/ mine' = [mine EXCEPT ![r] = NoWrites])
    <3>1. CASE Start(r)
      BY <3>1 DEF Start, Gate, AddRead, ToggleRead, CreateRead, Goto
    <3>2. CASE CheckStatus(r) \/ ReadPlan(r)
      BY <3>2 DEF CheckStatus, ReadPlan, Goto
    <3>3. CASE ToggleWrite(r) \/ \E m \in EditMoves : AddInsert(r, m)
      BY <3>3 DEF ToggleWrite, AddInsert, End
    <3> QED BY <1>6, <3>1, <3>2, <3>3
  <2>3. \A q \in Requests : Open(q)' => Open(q) /\ mine'[q] = mine[q]
    BY <2>2 DEF Open, IInv, ShapeInv
  <2> QED BY <2>1, <2>3, LeaveSame
<1>7. CASE ScenarioEdit \/ UNCHANGED vars
  BY <1>7, LeaveSame DEF ScenarioEdit, RemoveMove, SetStatus, vars, Open
<1> QED BY <1>1, <1>2, <1>3, <1>4, <1>5, <1>6, <1>7 DEF Next, Continue

(* A contract leaves once: on the embedded database, whatever requests and *)
(* edits race for it, its departure is booked once and logged once.        *)
THEOREM LeavesOnceAlways ==
  ASSUME Exclusive PROVE Spec => []LeavesOnce
<1>1. IInv /\ LogInv /\ LeaveInv /\ [Next]_vars => (IInv /\ LogInv /\ LeaveInv)'
  BY NextIInv, NextLogInv, NextLeaveInv
<1>2. IInv /\ LeaveInv => LeavesOnce
  <2>1. IInv => DeadCapOnce
    BY GoodIsOnce DEF IInv, RecordsInv
  <2>2. LeaveInv => DepartureLogged
    BY AtMostOne DEF LeaveInv, Logged, DepartureLogged
  <2> QED BY <2>1, <2>2 DEF LeavesOnce
<1> QED BY <1>1, <1>2, InitIInv, InitLogInv, InitLeaveInv, PTL DEF Spec

-----------------------------------------------------------------------------
(***************************************************************************)
(* On the embedded database the applies and the edits keep the official    *)
(* ledger.  A transaction sees what its moves so far may leave behind of   *)
(* the records it began with; when it commits, that is the whole scenario. *)
(***************************************************************************)
Ledger == INSTANCE OfficialLedger WITH MoveLists <- Seq(AllMoves)

(* The ledger's moves are the moves.                                       *)
LEMMA SameMoves ==
  /\ \A d, m, by : Ledger!After(d, m, by) = After(d, m, by)
  /\ \A d, p, c, st, ss : Ledger!ContractAdded(d, p, c, st, ss) = ContractAdded(d, p, c, st, ss)
  /\ \A d, c : Ledger!ContractTerminated(d, c) = ContractTerminated(d, c)
  /\ \A d, p, st : Ledger!PlayerStatusSet(d, p, st) = PlayerStatusSet(d, p, st)
  /\ Ledger!RosterStatuses = RosterStatuses
<1>1. \A m : Ledger!Parsed(m) = Parsed(m)
  BY DEF Ledger!Parsed, Parsed, Ledger!Kinds, Kinds, Ledger!Incoming, Incoming, Ledger!Departures, Departures,
         Ledger!Assignments, Assignments
<1>2. \A d, m : Ledger!Refused(d, m) = Refused(d, m)
  BY <1>1 DEF Ledger!Refused, Refused, Ledger!Incoming, Incoming, Ledger!Covered, Covered, Ledger!Active, Active,
              Ledger!Added, Added, Ledger!RowSeasons, RowSeasons
<1>3. \A d, m, p, c, by : Ledger!Arrive(d, m, p, c, by) = Arrive(d, m, p, c, by)
  BY DEF Ledger!Arrive, Arrive, Ledger!NewSeasonRows, NewSeasonRows, Ledger!Covered, Covered,
         Ledger!OfficialRow, OfficialRow, Ledger!Join, Join, Ledger!LogEntry, LogEntry
<1>4. \A d, m, k, by : Ledger!Depart(d, m, k, by) = Depart(d, m, k, by)
  BY DEF Ledger!Depart, Depart, Ledger!Booked, Booked, Ledger!DebtKind, DebtKind, Ledger!RowSeasons, RowSeasons,
         Ledger!Share, Share, Ledger!Departed, Departed, Ledger!LogEntry, LogEntry
<1>5. \A d, m, k, by : Ledger!Assign(d, m, k, by) = Assign(d, m, k, by)
  BY DEF Ledger!Assign, Assign, Ledger!AssignedStatus, AssignedStatus, Ledger!LogEntry, LogEntry
<1>6. \A d, m, k, by : Ledger!Extend(d, m, k, by) = Extend(d, m, k, by)
  BY DEF Ledger!Extend, Extend, Ledger!WithAdded, WithAdded, Ledger!Added, Added, Ledger!Covered, Covered,
         Ledger!RowSeasons, RowSeasons, Ledger!OfficialRow, OfficialRow, Ledger!LogEntry, LogEntry
<1>7. \A d, m, k, by : Ledger!Move(d, m, k, by) = Move(d, m, k, by)
  BY <1>4, <1>5, <1>6 DEF Ledger!Move, Move, Ledger!Departures, Departures, Ledger!Assignments, Assignments
<1>8. \A d, m, by : Ledger!After(d, m, by) = After(d, m, by)
  <2> SUFFICES ASSUME NEW d, NEW m, NEW by PROVE Ledger!After(d, m, by) = After(d, m, by)
    OBVIOUS
  <2>1. Ledger!SameName(d, m) = SameName(d, m)
    BY DEF Ledger!SameName, SameName
  <2>2. \A f, ids : Ledger!NewId(f, ids) = NewId(f, ids)
    BY DEF Ledger!NewId, NewId, Ledger!Unused, Unused
  <2>3. Ledger!Incoming = Incoming
    BY DEF Ledger!Incoming, Incoming
  <2>4. CASE Refused(d, m)
    BY <1>2, <2>3, <2>4 DEF Ledger!After, After
  <2>5. CASE ~Refused(d, m) /\ m.kind \in Incoming
    <3> DEFINE ps == IF SameName(d, m) = {} THEN NewId(d.players, Players) ELSE SameName(d, m)
               cs == NewId(d.contracts, Contracts)
    <3>1. Ledger!After(d, m, by) = {Ledger!Arrive(d, m, p, c, by) : p \in ps, c \in cs}
      BY <1>2, <2>1, <2>2, <2>3, <2>5 DEF Ledger!After
    <3>2. After(d, m, by) = {Arrive(d, m, p, c, by) : p \in ps, c \in cs}
      BY <2>5 DEF After
    <3> HIDE DEF ps, cs
    <3> QED BY <1>3, <3>1, <3>2
  <2>6. CASE ~Refused(d, m) /\ m.kind \notin Incoming
    BY <1>2, <1>7, <2>3, <2>6 DEF Ledger!After, After
  <2> QED BY <2>4, <2>5, <2>6
<1>9. /\ \A d, p, c, st, ss : Ledger!ContractAdded(d, p, c, st, ss) = ContractAdded(d, p, c, st, ss)
      /\ \A d, c : Ledger!ContractTerminated(d, c) = ContractTerminated(d, c)
      /\ \A d, p, st : Ledger!PlayerStatusSet(d, p, st) = PlayerStatusSet(d, p, st)
  BY DEF Ledger!ContractAdded, ContractAdded, Ledger!ContractTerminated, ContractTerminated,
         Ledger!PlayerStatusSet, PlayerStatusSet
<1>10. Ledger!RosterStatuses = RosterStatuses
  BY DEF Ledger!RosterStatuses, RosterStatuses, Ledger!CountsAsActiveRoster, CountsAsActiveRoster,
         Ledger!BuriedStatuses, BuriedStatuses, Ledger!OffCapStatuses, OffCapStatuses
<1> QED BY <1>8, <1>9, <1>10

-----------------------------------------------------------------------------
(* What a list of moves may leave behind: the function ApplyAll defines.   *)
NextOutcome(moves, by, n, before) == UNION {Ledger!After(e, moves[n], by) : e \in before}

IsOutcome(d, moves, by, k, f) ==
  f = [n \in 0..k |-> IF n = 0 THEN {d} ELSE NextOutcome(moves, by, n, f[n - 1])]

Outcome(d, moves, by) == CHOOSE f : IsOutcome(d, moves, by, Len(moves), f)

LEMMA OutcomeExists ==
  ASSUME NEW d, NEW moves, NEW by, NEW k \in Nat
  PROVE  \E f : IsOutcome(d, moves, by, k, f)
<1> DEFINE T == {n \in Nat : \E f : IsOutcome(d, moves, by, n, f)}
<1>1. 0 \in T
  <2>1. IsOutcome(d, moves, by, 0, [i \in 0..0 |-> {d}])
    BY DEF IsOutcome
  <2> QED BY <2>1
<1>2. ASSUME NEW n \in Nat, n \in T PROVE n + 1 \in T
  <2>1. PICK f : IsOutcome(d, moves, by, n, f)
    BY <1>2
  <2> DEFINE more == [i \in 0..n + 1 |-> IF i = n + 1 THEN NextOutcome(moves, by, n + 1, f[n]) ELSE f[i]]
  <2>2. \A i \in 0..n : f[i] = IF i = 0 THEN {d} ELSE NextOutcome(moves, by, i, f[i - 1])
    BY <2>1 DEF IsOutcome
  <2>3. more[n + 1] = NextOutcome(moves, by, n + 1, f[n])
    OBVIOUS
  <2>4. \A i \in 0..n : more[i] = f[i]
    OBVIOUS
  <2>5. more = [i \in 0..n + 1 |-> more[i]]
    OBVIOUS
  <2> HIDE DEF more
  <2>6. more[n + 1] = NextOutcome(moves, by, n + 1, more[(n + 1) - 1])
    <3>1. (n + 1) - 1 = n /\ n \in 0..n
      OBVIOUS
    <3>2. more[(n + 1) - 1] = f[n]
      BY <2>4, <3>1
    <3> QED BY <2>3, <3>2
  <2>7. \A i \in 0..n : more[i] = IF i = 0 THEN {d} ELSE NextOutcome(moves, by, i, more[i - 1])
    <3> SUFFICES ASSUME NEW i \in 0..n
                 PROVE  more[i] = IF i = 0 THEN {d} ELSE NextOutcome(moves, by, i, more[i - 1])
      OBVIOUS
    <3>1. CASE i = 0
      BY <2>2, <2>4, <3>1
    <3>2. CASE i # 0
      <4>1. i - 1 \in 0..n
        BY <3>2
      <4>2. more[i - 1] = f[i - 1] /\ more[i] = f[i]
        BY <2>4, <4>1
      <4>3. f[i] = NextOutcome(moves, by, i, f[i - 1])
        BY <2>2, <3>2
      <4>4. more[i] = NextOutcome(moves, by, i, more[i - 1])
        BY <4>2, <4>3
      <4> QED BY <3>2, <4>4
    <3> QED BY <3>1, <3>2
  <2>8. (\A i \in 0..n + 1 : i \in 0..n \/ i = n + 1) /\ n + 1 # 0
    OBVIOUS
  <2>9. \A i \in 0..n + 1 : more[i] = IF i = 0 THEN {d} ELSE NextOutcome(moves, by, i, more[i - 1])
    BY <2>6, <2>7, <2>8
  <2>10. more = [i \in 0..n + 1 |-> IF i = 0 THEN {d} ELSE NextOutcome(moves, by, i, more[i - 1])]
    BY <2>5, <2>9
  <2>11. IsOutcome(d, moves, by, n + 1, more)
    BY <2>10 DEF IsOutcome
  <2> QED BY <2>11
<1> HIDE DEF T
<1>3. Nat \subseteq T
  BY <1>1, <1>2, AllNumbers
<1> QED BY <1>3 DEF T

LEMMA OutcomeStep ==
  ASSUME NEW d, NEW moves, Len(moves) \in Nat, NEW by
  PROVE  /\ Outcome(d, moves, by)[0] = {d}
         /\ \A n \in 1..Len(moves) : \A e \in Outcome(d, moves, by)[n - 1] :
              After(e, moves[n], by) \subseteq Outcome(d, moves, by)[n]
<1> DEFINE f == Outcome(d, moves, by)
<1>1. IsOutcome(d, moves, by, Len(moves), f)
  BY OutcomeExists DEF Outcome
<1> HIDE DEF f
<1>2. f[0] = {d} /\ \A n \in 1..Len(moves) : f[n] = NextOutcome(moves, by, n, f[n - 1])
  <2>1. \A n \in 0..Len(moves) : f[n] = IF n = 0 THEN {d} ELSE NextOutcome(moves, by, n, f[n - 1])
    BY <1>1 DEF IsOutcome
  <2> QED BY <2>1
<1>3. \A n \in 1..Len(moves) : \A e \in f[n - 1] : After(e, moves[n], by) \subseteq f[n]
  BY <1>2, SameMoves DEF NextOutcome
<1> QED BY <1>2, <1>3 DEF f

LEMMA ApplyAllIs ==
  ASSUME NEW moves, NEW by
  PROVE  Ledger!ApplyAll(moves, by) = Outcome(db, moves, by)[Len(moves)]
  BY DEF Ledger!ApplyAll, Outcome, IsOutcome, NextOutcome

-----------------------------------------------------------------------------
(* The moves an apply reads are the scenario's: sorted by order and place, *)
(* every enabled row has its rank, and every rank its row.                 *)
RowTyped(row) == row \in [id : {row.id}, order : Nat, move : AllMoves, enabled : {row.enabled}]

LEMMA EnabledTyped ==
  ASSUME NEW s, IsSeq(rows[s]), \A i \in DOMAIN rows[s] : RowTyped(rows[s][i])
  PROVE  EnabledMoves(s) \in Seq(AllMoves)
<1> DEFINE enabled == {i \in DOMAIN rows[s] : rows[s][i].enabled}
           UpTo(i) == {j \in enabled : \/ rows[s][j].order < rows[s][i].order
                                       \/ rows[s][j].order = rows[s][i].order /\ j <= i}
           n == Cardinality(enabled)
           rank == [i \in enabled |-> Cardinality(UpTo(i))]
<1>1. DOMAIN rows[s] = 1..Len(rows[s]) /\ Len(rows[s]) \in Nat
  BY IsSeqDomain
<1>2. IsFiniteSet(enabled) /\ n \in Nat
  <2>1. IsFiniteSet(1..Len(rows[s]))
    BY <1>1, FS_Interval
  <2> QED BY <1>1, <2>1, FS_Subset, FS_CardinalityType
<1>3. \A i \in enabled : rows[s][i].order \in Nat /\ rows[s][i].move \in AllMoves /\ i \in Nat
  BY <1>1 DEF RowTyped
<1>4. \A i \in enabled : i \in UpTo(i) /\ UpTo(i) \subseteq enabled
  BY <1>3
<1>5. \A i \in enabled : IsFiniteSet(UpTo(i)) /\ rank[i] \in 1..n
  <2> SUFFICES ASSUME NEW i \in enabled PROVE IsFiniteSet(UpTo(i)) /\ Cardinality(UpTo(i)) \in 1..n
    OBVIOUS
  <2> DEFINE U == UpTo(i)
  <2>1. U \in SUBSET enabled /\ i \in U
    BY <1>4
  <2> HIDE DEF U
  <2>2. IsFiniteSet(U) /\ Cardinality(U) <= n
    BY <1>2, <2>1, FS_Subset
  <2>3. Cardinality(U) \in Nat /\ Cardinality(U) # 0
    BY <2>1, <2>2, FS_CardinalityType, FS_EmptySet
  <2> HIDE DEF enabled
  <2>4. Cardinality(U) \in 1..n
    BY <1>2, <2>2, <2>3
  <2> QED BY <2>2, <2>4 DEF U
<1>6. \A i, k \in enabled : i # k => \/ UpTo(i) \subseteq UpTo(k) \ {k}
                                     \/ UpTo(k) \subseteq UpTo(i) \ {i}
  <2> SUFFICES ASSUME NEW i \in enabled, NEW k \in enabled, i # k
               PROVE  UpTo(i) \subseteq UpTo(k) \ {k} \/ UpTo(k) \subseteq UpTo(i) \ {i}
    OBVIOUS
  <2>1. CASE rows[s][i].order < rows[s][k].order \/ (rows[s][i].order = rows[s][k].order /\ i < k)
    BY <1>3, <2>1
  <2>2. CASE rows[s][k].order < rows[s][i].order \/ (rows[s][k].order = rows[s][i].order /\ k < i)
    BY <1>3, <2>2
  <2> QED BY <1>3, <2>1, <2>2
<1>7. \A i, k \in enabled : UpTo(i) \subseteq UpTo(k) \ {k} => rank[i] < rank[k]
  <2> SUFFICES ASSUME NEW i \in enabled, NEW k \in enabled, UpTo(i) \subseteq UpTo(k) \ {k}
               PROVE  Cardinality(UpTo(i)) < Cardinality(UpTo(k))
    OBVIOUS
  <2> DEFINE U == UpTo(i)  V == UpTo(k)
  <2>1. IsFiniteSet(V) /\ k \in V /\ U \in SUBSET (V \ {k}) /\ Cardinality(U) \in Nat /\ Cardinality(V) \in Nat
    BY <1>4, <1>5, FS_CardinalityType
  <2> HIDE DEF U, V
  <2>2. IsFiniteSet(V \ {k}) /\ Cardinality(V \ {k}) = Cardinality(V) - 1
    BY <2>1, FS_RemoveElement
  <2>3. Cardinality(U) <= Cardinality(V \ {k})
    BY <2>1, <2>2, FS_Subset
  <2>4. Cardinality(U) < Cardinality(V)
    BY <2>1, <2>2, <2>3
  <2> QED BY <2>4 DEF U, V
<1> HIDE DEF rank
<1>8. rank \in [enabled -> 1..n]
  BY <1>5 DEF rank
<1>9. \A i, k \in enabled : rank[i] = rank[k] => i = k
  <2> SUFFICES ASSUME NEW i \in enabled, NEW k \in enabled, i # k PROVE rank[i] # rank[k]
    OBVIOUS
  <2>1. rank[i] \in Nat /\ rank[k] \in Nat
    BY <1>2, <1>8
  <2>2. rank[i] < rank[k] \/ rank[k] < rank[i]
    BY <1>6, <1>7
  <2> HIDE DEF enabled, n
  <2> QED BY <2>1, <2>2
<1>10. rank \in Surjection(enabled, 1..n)
  <2>1. rank \in Injection(enabled, 1..n)
    BY <1>8, <1>9 DEF Injection, IsInjective
  <2>2. IsFiniteSet(1..n) /\ Cardinality(1..n) = n
    <3>1. n \in Nat
      BY <1>2
    <3> HIDE DEF n
    <3>2. \A k \in Nat : IsFiniteSet(1..k) /\ Cardinality(1..k) = IF 1 > k THEN 0 ELSE k - 1 + 1
      BY FS_Interval
    <3> QED BY <3>1, <3>2
  <2>3. Cardinality(enabled) = Cardinality(1..n) <=> rank \in Surjection(enabled, 1..n)
    <3> HIDE DEF enabled, n
    <3> QED BY <2>1, <2>2, FS_Injection
  <2> QED BY <2>2, <2>3
<1>11. \A k \in 1..n : \E i \in enabled : Cardinality(UpTo(i)) = k
  <2>1. \A k \in 1..n : \E i \in enabled : rank[i] = k
    BY <1>8, <1>10 DEF Surjection
  <2> QED BY <2>1 DEF rank
<1>12. EnabledMoves(s) = [k \in 1..n |-> rows[s][CHOOSE i \in enabled : Cardinality(UpTo(i)) = k].move]
  BY DEF EnabledMoves
<1>13. \A k \in 1..n : rows[s][CHOOSE i \in enabled : Cardinality(UpTo(i)) = k].move \in AllMoves
  <2> SUFFICES ASSUME NEW k \in 1..n
               PROVE  rows[s][CHOOSE i \in enabled : Cardinality(UpTo(i)) = k].move \in AllMoves
    OBVIOUS
  <2>1. (CHOOSE i \in enabled : Cardinality(UpTo(i)) = k) \in enabled
    BY <1>11
  <2> QED BY <1>3, <2>1
<1>14. EnabledMoves(s) \in [1..n -> AllMoves]
  BY <1>12, <1>13
<1> HIDE DEF n
<1> QED BY <1>2, <1>14, SeqDef

(* A number is the next sortOrder.                                         *)
LEMMA NextOrderIsNat ==
  ASSUME NEW s, IsSeq(rows[s]), \A i \in DOMAIN rows[s] : RowTyped(rows[s][i])
  PROVE  NextOrder(s) \in Nat
<1> DEFINE orders == {rows[s][i].order : i \in DOMAIN rows[s]}
           T == {n \in Nat : \E b \in Nat : \A i \in 1..n : i \in DOMAIN rows[s] => rows[s][i].order <= b}
           B == {b \in Nat : \A x \in orders : x <= b}
<1>1. DOMAIN rows[s] = 1..Len(rows[s]) /\ Len(rows[s]) \in Nat
  BY IsSeqDomain
<1>2. \A i \in DOMAIN rows[s] : rows[s][i].order \in Nat
  BY DEF RowTyped
<1>3. 0 \in T
  OBVIOUS
<1>4. ASSUME NEW n \in Nat, n \in T PROVE n + 1 \in T
  <2>1. PICK b \in Nat : \A i \in 1..n : i \in DOMAIN rows[s] => rows[s][i].order <= b
    BY <1>4
  <2> DEFINE x == IF n + 1 \in DOMAIN rows[s] THEN rows[s][n + 1].order ELSE 0
             c == IF x <= b THEN b ELSE x
  <2>2. x \in Nat /\ c \in Nat /\ x <= c /\ b <= c
    BY <1>2
  <2>3. \A i \in 1..n + 1 : i \in 1..n \/ i = n + 1
    OBVIOUS
  <2>4. n + 1 \in DOMAIN rows[s] => rows[s][n + 1].order = x
    OBVIOUS
  <2> HIDE DEF x, c
  <2>5. \A i \in 1..n + 1 : i \in DOMAIN rows[s] => rows[s][i].order <= c
    BY <1>2, <2>1, <2>2, <2>3, <2>4
  <2> QED BY <2>2, <2>5
<1> HIDE DEF T
<1>5. Nat \subseteq T
  BY <1>3, <1>4, AllNumbers
<1>6. \E b \in Nat : \A x \in orders : x <= b
  BY <1>1, <1>5 DEF T
<1>7. PICK b \in B : \A x \in B : b <= x
  BY <1>6, LeastNumber
<1>8. CASE rows[s] = <<>>
  BY <1>8 DEF NextOrder
<1>9. CASE rows[s] # <<>>
  <2>1. orders # {} /\ orders \subseteq Nat
    <3>1. Len(rows[s]) # 0
      BY <1>9, EmptySeq DEF IsSeq
    <3>2. 1 \in DOMAIN rows[s]
      BY <1>1, <3>1
    <3> QED BY <1>2, <3>2
  <2>2. b \in orders
    <3>1. CASE b = 0
      BY <1>7, <2>1, <3>1
    <3>2. CASE b # 0
      <4>1. b - 1 \in Nat /\ b - 1 \notin B
        BY <1>7, <3>2
      <4>2. PICK x \in orders : ~(x <= b - 1)
        BY <4>1
      <4>3. x \in Nat /\ b \in Nat /\ x <= b
        BY <1>7, <2>1
      <4>4. x = b
        BY <4>2, <4>3
      <4> QED BY <4>4
    <3> QED BY <3>1, <3>2
  <2>3. \E x \in orders : \A y \in orders : x >= y
    BY <1>7, <2>1, <2>2
  <2> HIDE DEF orders
  <2>4. Max(orders) \in orders
    BY <2>3 DEF Max
  <2>5. NextOrder(s) = Max(orders) + 1
    BY <1>9 DEF NextOrder, orders
  <2>6. Max(orders) \in Nat
    BY <2>1, <2>4
  <2> QED BY <2>5, <2>6
<1> QED BY <1>8, <1>9

-----------------------------------------------------------------------------
(* What makes an apply a step of the ledger.                               *)

TypedInv ==
  /\ \A s \in Scenarios : \A i \in DOMAIN rows[s] : RowTyped(rows[s][i])
  /\ \A r \in Requests :
       /\ pc[r] = "adding" => loaded[r] \in Nat
       /\ pc[r] \in {"planned", "load", "write"} => plan[r] \in Seq(AllMoves)

(* The records the look-up of a free agent may find.                       *)
NamedSo(d, m) == IF SameName(d, m) = {} THEN {None} ELSE SameName(d, m)

ReachedInv ==
  \A r \in Requests :
    /\ Open(r) => View(r) \in Outcome(db, plan[r], r)[at[r] - 1]
    /\ pc[r] = "write" =>
         /\ ~Refused(View(r), TheMove(r))
         /\ TheMove(r).kind \in Incoming => loaded[r] \in NamedSo(View(r), TheMove(r))

(* What is typed now, or read as it was, is typed.                         *)
LEMMA TypedSame ==
  ASSUME TypedInv, \A s \in Scenarios : \A i \in DOMAIN rows'[s] : RowTyped(rows'[s][i]),
         \A q \in Requests :
           /\ pc'[q] = "adding" => pc[q] = "adding" /\ loaded'[q] = loaded[q]
           /\ pc'[q] \in {"planned", "load", "write"} =>
                pc[q] \in {"planned", "load", "write"} /\ plan'[q] = plan[q]
  PROVE  TypedInv'
<1>1. \A s \in Scenarios : \A i \in DOMAIN rows'[s] : RowTyped(rows[s][i])'
  BY DEF RowTyped
<1> QED BY <1>1 DEF TypedInv

LEMMA TypedReadPlan ==
  ASSUME LogInv, TypedInv, NEW r \in Requests, ReadPlan(r)
  PROVE  TypedInv'
<1>1. /\ rows' = rows /\ loaded' = loaded /\ pc[r] = "checked"
      /\ plan'[r] = EnabledMoves(scn[r]) /\ \A q \in Requests \ {r} : plan'[q] = plan[q]
  BY DEF ReadPlan, LogInv, ShapeInv
<1>2. pc'[r] \in {"planned", "refused"} /\ \A q \in Requests \ {r} : pc'[q] = pc[q]
  BY DEF ReadPlan, Goto, LogInv, ShapeInv
<1>3. plan'[r] \in Seq(AllMoves)
  <2>1. scn[r] \in Scenarios
    BY <1>1 DEF LogInv, ScnInv
  <2>2. IsSeq(rows[scn[r]]) /\ \A i \in DOMAIN rows[scn[r]] : RowTyped(rows[scn[r]][i])
    BY <2>1 DEF LogInv, RowsInv, TypedInv
  <2> QED BY <1>1, <2>2, EnabledTyped
<1>4. \A s \in Scenarios : \A i \in DOMAIN rows'[s] : RowTyped(rows[s][i])'
  BY <1>1 DEF TypedInv, RowTyped
<1> QED BY <1>1, <1>2, <1>3, <1>4 DEF TypedInv

LEMMA TypedAddRead ==
  ASSUME LogInv, TypedInv, NEW r \in Requests, NEW s \in Scenarios, AddRead(r, s)
  PROVE  TypedInv'
<1>1. /\ rows' = rows /\ plan' = plan /\ pc[r] = "idle"
      /\ loaded'[r] = NextOrder(s) /\ \A q \in Requests \ {r} : loaded'[q] = loaded[q]
  BY DEF AddRead, LogInv, ShapeInv
<1>2. pc'[r] \in {"adding", "refused"} /\ \A q \in Requests \ {r} : pc'[q] = pc[q]
  BY DEF AddRead, Goto, LogInv, ShapeInv
<1>3. loaded'[r] \in Nat
  <2>1. IsSeq(rows[s]) /\ \A i \in DOMAIN rows[s] : RowTyped(rows[s][i])
    BY DEF LogInv, RowsInv, TypedInv
  <2> QED BY <1>1, <2>1, NextOrderIsNat
<1>4. \A t \in Scenarios : \A i \in DOMAIN rows'[t] : RowTyped(rows[t][i])'
  BY <1>1 DEF TypedInv, RowTyped
<1> QED BY <1>1, <1>2, <1>3, <1>4 DEF TypedInv

(* The edits of a scenario: a row is added, toggled or removed.            *)
LEMMA TypedRows ==
  ASSUME LogInv, TypedInv,
         \/ \E r \in Requests : ToggleWrite(r) \/ \E m \in EditMoves : AddInsert(r, m)
         \/ \E s \in Editable : \E i \in DOMAIN rows[s] : RemoveMove(s, i)
  PROVE  \A s \in Scenarios : \A i \in DOMAIN rows'[s] : RowTyped(rows'[s][i])
<1>1. ASSUME NEW r \in Requests, NEW m \in EditMoves, AddInsert(r, m)
      PROVE  \A s \in Scenarios : \A i \in DOMAIN rows'[s] : RowTyped(rows'[s][i])
  <2> DEFINE row == [id |-> CHOOSE id \in RowIds \ IdsInUse : TRUE,
                     order |-> loaded[r], move |-> m, enabled |-> TRUE]
  <2>1. rows' = [rows EXCEPT ![scn[r]] = Append(@, row)]
    BY <1>1 DEF AddInsert
  <2>2. RowTyped(row)
    <3>1. loaded[r] \in Nat /\ m \in AllMoves
      BY <1>1 DEF AddInsert, TypedInv, AllMoves
    <3> QED BY <3>1 DEF RowTyped
  <2> HIDE DEF row
  <2> SUFFICES ASSUME NEW s \in Scenarios, NEW i \in DOMAIN rows'[s] PROVE RowTyped(rows'[s][i])
    OBVIOUS
  <2>3. CASE rows'[s] = rows[s]
    BY <2>3 DEF TypedInv
  <2>4. CASE rows'[s] = Append(rows[s], row)
    <3>1. Len(rows[s]) \in Nat /\ DOMAIN rows[s] = 1..Len(rows[s]) /\ \A j \in DOMAIN rows[s] : RowTyped(rows[s][j])
      BY IsSeqDomain DEF LogInv, RowsInv, TypedInv
    <3>2. /\ DOMAIN Append(rows[s], row) = 1..Len(rows[s]) + 1
          /\ \A j \in 1..Len(rows[s]) + 1 :
               Append(rows[s], row)[j] = IF j = Len(rows[s]) + 1 THEN row ELSE rows[s][j]
      <4> DEFINE t == rows[s]  S == {t[j] : j \in DOMAIN t} \cup {row}
      <4>1. t \in Seq(S) /\ row \in S
        <5> DEFINE R == {t[j] : j \in DOMAIN t}
        <5>1. t \in Seq(R)
          BY DEF LogInv, RowsInv, IsSeq
        <5>2. R \subseteq S /\ row \in S
          OBVIOUS
        <5> HIDE DEF R, S, t
        <5> QED BY <5>1, <5>2, SeqMonotonic
      <4> HIDE DEF S, t
      <4>2. /\ Append(t, row) \in Seq(S) /\ Len(Append(t, row)) = Len(t) + 1
            /\ \A j \in 1..Len(t) : Append(t, row)[j] = t[j]
            /\ Append(t, row)[Len(t) + 1] = row
        BY <4>1, AppendProperties
      <4>3. DOMAIN Append(t, row) = 1..Len(t) + 1 /\ Len(t) \in Nat
        BY <4>1, <4>2, LenProperties
      <4>4. \A j \in 1..Len(t) + 1 : j \in 1..Len(t) \/ j = Len(t) + 1
        BY <4>3
      <4> QED BY <4>2, <4>3, <4>4 DEF t
    <3>3. i \in 1..Len(rows[s]) + 1
      BY <2>4, <3>2
    <3>4. i \in 1..Len(rows[s]) \/ i = Len(rows[s]) + 1
      BY <3>1, <3>3
    <3> QED BY <2>2, <2>4, <3>1, <3>2, <3>3, <3>4
  <2> QED BY <2>1, <2>3, <2>4 DEF LogInv, RowsInv
<1>2. ASSUME NEW r \in Requests, ToggleWrite(r)
      PROVE  \A s \in Scenarios : \A i \in DOMAIN rows'[s] : RowTyped(rows'[s][i])
  <2> DEFINE toggled(s) == [i \in DOMAIN rows[s] |-> IF rows[s][i].id = loaded[r].id
                             THEN [rows[s][i] EXCEPT !.enabled = ~loaded[r].enabled] ELSE rows[s][i]]
  <2>1. \A s \in Scenarios : rows'[s] = rows[s] \/ rows'[s] = toggled(s)
    BY <1>2 DEF ToggleWrite, LogInv, RowsInv
  <2>2. ASSUME NEW s \in Scenarios, NEW i \in DOMAIN toggled(s) PROVE RowTyped(toggled(s)[i])
    <3>1. RowTyped(rows[s][i])
      BY <2>2 DEF TypedInv
    <3>2. \A b : RowTyped([rows[s][i] EXCEPT !.enabled = b])
      BY <3>1 DEF RowTyped
    <3> QED BY <3>1, <3>2
  <2> HIDE DEF toggled
  <2> QED BY <2>1, <2>2 DEF TypedInv
<1>3. ASSUME NEW t \in Editable, NEW k \in DOMAIN rows[t], RemoveMove(t, k)
      PROVE  \A s \in Scenarios : \A i \in DOMAIN rows'[s] : RowTyped(rows'[s][i])
  <2> SUFFICES ASSUME NEW s \in Scenarios, NEW i \in DOMAIN rows'[s] PROVE RowTyped(rows'[s][i])
    OBVIOUS
  <2>1. rows' = [rows EXCEPT ![t] = RemoveAt(rows[t], k)]
    BY <1>3 DEF RemoveMove
  <2>2. CASE s # t
    <3>1. rows'[s] = rows[s]
      BY <2>1, <2>2 DEF LogInv, RowsInv
    <3> QED BY <3>1 DEF TypedInv
  <2>3. CASE s = t
    <3> DEFINE u == rows[t]  S == {u[j] : j \in DOMAIN u}
    <3>1. u \in Seq(S) /\ Len(u) \in Nat /\ k \in 1..Len(u) /\ \A x \in S : RowTyped(x)
      BY <1>3, <2>3, IsSeqDomain DEF LogInv, RowsInv, IsSeq, TypedInv
    <3>2. rows'[s] = RemoveAt(u, k)
      BY <2>1, <2>3 DEF LogInv, RowsInv
    <3>3. RemoveAt(u, k) \in Seq(S)
      <4> HIDE DEF S, u
      <4>1. /\ k - 1 \in Int /\ k + 1 \in Int /\ Len(u) \in Int
            /\ \A j \in 1..Len(u) : u[j] \in S
        BY <3>1, LenProperties
      <4>2. SubSeq(u, 1, k - 1) \in Seq(S)
        BY <3>1, <4>1, SubSeqProperties
      <4>3. SubSeq(u, k + 1, Len(u)) \in Seq(S)
        BY <3>1, <4>1, SubSeqProperties
      <4> QED BY <4>2, <4>3, ConcatProperties DEF RemoveAt
    <3>4. rows'[s][i] \in S
      <4> HIDE DEF S, u
      <4> QED BY <3>2, <3>3, LenProperties
    <3> QED BY <3>1, <3>4
  <2> QED BY <2>2, <2>3
<1> QED BY <1>1, <1>2, <1>3

LEMMA NextTypedInv ==
  ASSUME LogInv, TypedInv, [Next]_vars
  PROVE  TypedInv'
<1> DEFINE Same ==
      \A q \in Requests :
        /\ pc'[q] = "adding" => pc[q] = "adding" /\ loaded'[q] = loaded[q]
        /\ pc'[q] \in {"planned", "load", "write"} =>
             pc[q] \in {"planned", "load", "write"} /\ plan'[q] = plan[q]
<1>1. ASSUME NEW r \in Requests, ReadPlan(r) \/ \E s \in Editable : AddRead(r, s) PROVE TypedInv'
  BY <1>1, TypedReadPlan, TypedAddRead
<1>2. ASSUME rows' = rows, Same PROVE TypedInv'
  BY <1>2, TypedSame DEF TypedInv
<1>3. ASSUME NEW r \in Requests, ToggleWrite(r) \/ \E m \in EditMoves : AddInsert(r, m) PROVE TypedInv'
  <2>1. Same
    BY <1>3 DEF ToggleWrite, AddInsert, End, LogInv, ShapeInv
  <2> HIDE DEF Same
  <2>2. \A s \in Scenarios : \A i \in DOMAIN rows'[s] : RowTyped(rows'[s][i])
    BY <1>3, TypedRows
  <2> QED BY <2>1, <2>2, TypedSame DEF Same
<1>4. ASSUME NEW s \in Editable, NEW i \in DOMAIN rows[s], RemoveMove(s, i) PROVE TypedInv'
  <2>1. UNCHANGED <<pc, plan, loaded>>
    BY <1>4 DEF RemoveMove
  <2>2. \A t \in Scenarios : \A j \in DOMAIN rows'[t] : RowTyped(rows'[t][j])
    BY <1>4, TypedRows
  <2> QED BY <2>1, <2>2, TypedSame
<1>5. ASSUME NEW r \in Requests,
             \/ \E s \in Scenarios : Gate(r, s)
             \/ \E s \in Editable : \E i \in DOMAIN rows[s] : ToggleRead(r, s, i)
             \/ \E p \in Signable : CreateRead(r, p)
      PROVE  rows' = rows /\ Same
  BY <1>5 DEF Gate, ToggleRead, CreateRead, Goto, LogInv, ShapeInv
<1>6. ASSUME NEW r \in Requests, CheckStatus(r) \/ Begin(r) \/ Load(r) \/ Write(r)
      PROVE  rows' = rows /\ Same
  BY <1>6 DEF CheckStatus, Begin, Load, Write, Goto, End, LogInv, ShapeInv
<1>7. ASSUME NEW r \in Requests, Commit(r) \/ CreateWrite(r) \/ Fail(r) PROVE rows' = rows /\ Same
  BY <1>7 DEF Commit, CreateWrite, Fail, End, LogInv, ShapeInv
<1>8. CASE OfficialEdit \/ (\E s \in Scenarios, st \in ScenarioEdits : SetStatus(s, st)) \/ UNCHANGED vars
  <2>1. UNCHANGED <<rows, pc, plan, loaded>>
    BY <1>8 DEF OfficialEdit, Terminate, SetPlayerStatus, SetStatus, vars
  <2> QED BY <2>1, TypedSame DEF TypedInv
<1> HIDE DEF Same
<1> QED BY <1>1, <1>2, <1>3, <1>4, <1>5, <1>6, <1>7, <1>8 DEF Next, Start, Continue, ScenarioEdit

LEMMA InitTypedInv == Init => TypedInv
<1> SUFFICES ASSUME Init, NEW s \in Scenarios, NEW i \in DOMAIN rows[s] PROVE RowTyped(rows[s][i])
  BY DEF Init, TypedInv
<1>1. Plans[s][i] \in [id : RowIds, order : Nat, move : {Plans[s][j].move : j \in DOMAIN Plans[s]}, enabled : BOOLEAN]
  <2>1. Plans[s] \in Seq([id : RowIds, order : Nat, move : {Plans[s][j].move : j \in DOMAIN Plans[s]}, enabled : BOOLEAN])
    BY PlansAssumption
  <2> DEFINE R == [id : RowIds, order : Nat, move : {Plans[s][j].move : j \in DOMAIN Plans[s]}, enabled : BOOLEAN]
             p == Plans[s]
  <2>2. p \in Seq(R) /\ i \in DOMAIN p
    BY <2>1 DEF Init
  <2> HIDE DEF R, p
  <2>3. p[i] \in R
    BY <2>2, LenProperties
  <2> QED BY <2>3 DEF R, p
<1>2. \A j \in DOMAIN Plans[s] : Plans[s][j].move \in AllMoves
  BY DEF AllMoves
<1>3. Plans[s][i].move \in AllMoves /\ rows[s] = Plans[s]
  BY <1>2 DEF Init
<1> QED BY <1>1, <1>3 DEF RowTyped

-----------------------------------------------------------------------------
(* What a write makes r see is one of the records Written says.            *)
LEMMA ViewIsWritten ==
  ASSUME Exclusive, IInv, LogInv, NEW r \in Requests, Write(r), ~Duplicate(r)
  PROVE  \E v \in Written(r) : View(r)' = v
<1>1. Open(r) /\ pc[r] = "write" /\ db' = db
  BY DEF Write, Open
<1>2. PICK v \in Written(r) : mine' = [mine EXCEPT ![r] = Overlay(r, v)]
  BY DEF Write
<1>3. RecordsGood(v) /\ Follows(View(r), v)
  BY <1>1, WrittenGood
<1>4. ViewGood(r) /\ RecordsGood(db) /\ DOMAIN mine = Requests
  BY <1>1 DEF IInv, RecordsInv, ShapeInv
<1>5. /\ View(r)'.contracts = v.contracts /\ View(r)'.players = v.players
      /\ View(r)'.obligations = v.obligations
  BY <1>1, <1>2, <1>3, <1>4, ViewOnceWritten DEF ViewGood, Follows
<1>6. View(r)'.log = v.log
  <2>1. /\ AllParsed(plan[r]) /\ at[r] \in DOMAIN plan[r]
        /\ db.log \in Seq(LogEntries(Requests)) /\ mine[r].log \in Seq(LogEntries(Requests))
    BY <1>1 DEF LogInv, PlannedInv, WritesInv
  <2>2. Parsed(TheMove(r))
    BY <2>1 DEF AllParsed, TheMove
  <2>3. PICK e \in LogEntries(Requests) : v.log = Append(View(r).log, e)
    BY <2>2, WrittenLog
  <2>4. db.log \o Overlay(r, v).log = v.log
    BY <2>1, <2>3, OverlayLog
  <2>5. mine'[r] = Overlay(r, v)
    BY <1>2, <1>4
  <2> QED BY <1>1, <2>4, <2>5 DEF View
<1>7. v = [contracts |-> v.contracts, players |-> v.players, obligations |-> v.obligations, log |-> v.log]
  BY <1>3 DEF RecordsGood, RecordsOK
<1>8. View(r)' = v
  <2>1. View(r)' = [contracts |-> View(r)'.contracts, players |-> View(r)'.players,
                    obligations |-> View(r)'.obligations, log |-> View(r)'.log]
    BY DEF View
  <2> QED BY <1>5, <1>6, <1>7, <2>1
<1> QED BY <1>8

(* What r writes is what its move may leave behind of what it sees.        *)
LEMMA WrittenIsAfter ==
  ASSUME Exclusive, IInv, ReachedInv, NEW r \in Requests, pc[r] = "write", NEW v \in Written(r)
  PROVE  v \in After(View(r), TheMove(r), r)
<1> DEFINE d == View(r)  m == TheMove(r)
<1>1. Open(r) /\ LoadedGood(r) /\ ~Refused(d, m) /\ (m.kind \in Incoming => loaded[r] \in NamedSo(d, m))
  BY DEF Open, IInv, LoadedInv, ReachedInv
<1>2. \A q \in Requests \ {r} : DOMAIN mine[q].contracts = {} /\ DOMAIN mine[q].players = {}
  <2>1. \A q \in Requests \ {r} : mine[q] = NoWrites
    BY <1>1 DEF IInv, OpenInv
  <2> QED BY <2>1 DEF NoWrites
<1>3. {c \in Contracts : ~ContractLocked(c, r)} = Contracts /\ {p \in Players : ~PlayerLocked(p, r)} = Players
  BY <1>2 DEF ContractLocked, PlayerLocked
<1>4. NewContract(r) = NewId(d.contracts, Contracts) /\ NewPlayer(r) = NewId(d.players, Players)
  BY <1>3 DEF NewContract, NewPlayer
<1>5. CASE m.kind \in Incoming
  <2> DEFINE ps == IF SameName(d, m) = {} THEN NewId(d.players, Players) ELSE SameName(d, m)
  <2>1. PICK p \in (IF loaded[r] = None THEN NewPlayer(r) ELSE {loaded[r]}), c \in NewContract(r) :
          v = Arrive(d, m, p, c, r)
    BY <1>5 DEF Written
  <2>2. p \in ps
    <3>1. CASE SameName(d, m) = {}
      BY <1>1, <1>4, <1>5, <2>1, <3>1 DEF NamedSo
    <3>2. CASE SameName(d, m) # {}
      <4>1. loaded[r] \in SameName(d, m)
        BY <1>1, <1>5, <3>2 DEF NamedSo
      <4>2. loaded[r] # None
        BY <4>1 DEF SameName
      <4> QED BY <2>1, <3>2, <4>1, <4>2
    <3> QED BY <3>1, <3>2
  <2>3. After(d, m, r) = {Arrive(d, m, q, k, r) : q \in ps, k \in NewId(d.contracts, Contracts)}
    BY <1>1, <1>5 DEF After
  <2>4. c \in NewId(d.contracts, Contracts)
    BY <1>4, <2>1
  <2>5. v = Arrive(d, m, p, c, r)
    BY <2>1
  <2>6. v \in After(d, m, r)
    <3> HIDE DEF d, m, ps
    <3> QED BY <2>2, <2>3, <2>4, <2>5
  <2> QED BY <2>6
<1>6. CASE m.kind \notin Incoming
  <2>1. v = Move(d, m, d.contracts[m.contract], r)
    BY <1>1, <1>6 DEF Written, LoadedGood
  <2>2. After(d, m, r) = {Move(d, m, d.contracts[m.contract], r)}
    BY <1>1, <1>6 DEF After
  <2> QED BY <2>1, <2>2
<1> QED BY <1>5, <1>6

-----------------------------------------------------------------------------
(* The steps of what has been reached.                                     *)

(* A transaction that is not at work sees what it saw.                     *)
LEMMA ReachedSame ==
  ASSUME ReachedInv,
         \A q \in Requests : Open(q)' =>
           /\ Open(q) /\ db' = db /\ mine'[q] = mine[q] /\ plan'[q] = plan[q] /\ at'[q] = at[q]
           /\ pc'[q] = pc[q] /\ loaded'[q] = loaded[q]
  PROVE  ReachedInv'
<1> SUFFICES ASSUME NEW r \in Requests
             PROVE  /\ Open(r)' => (View(r) \in Outcome(db, plan[r], r)[at[r] - 1])'
                    /\ pc'[r] = "write" =>
                         /\ ~Refused(View(r), TheMove(r))'
                         /\ (TheMove(r).kind \in Incoming => loaded[r] \in NamedSo(View(r), TheMove(r)))'
  BY DEF ReachedInv
<1>1. CASE Open(r)'
  <2>1. View(r)' = View(r) /\ TheMove(r)' = TheMove(r)
    BY <1>1, ViewSame DEF TheMove
  <2>2. View(r) \in Outcome(db, plan[r], r)[at[r] - 1]
    BY <1>1 DEF ReachedInv
  <2>3. (View(r) \in Outcome(db, plan[r], r)[at[r] - 1])'
    BY <1>1, <2>1, <2>2
  <2>4. pc[r] = "write" => ~Refused(View(r), TheMove(r))'
    BY <2>1 DEF ReachedInv
  <2>5. pc[r] = "write" => (TheMove(r).kind \in Incoming => loaded[r] \in NamedSo(View(r), TheMove(r)))'
    BY <1>1, <2>1 DEF ReachedInv
  <2> QED BY <1>1, <2>3, <2>4, <2>5
<1>2. CASE ~Open(r)'
  BY <1>2 DEF Open
<1> QED BY <1>1, <1>2

LEMMA ReachedBegin ==
  ASSUME Exclusive, IInv, LogInv, ReachedInv, NEW r \in Requests, Begin(r)
  PROVE  ReachedInv'
<1>1. \A q \in Requests \ {r} : ~Open(q)'
  BY Alone DEF Begin, Goto, Open, IInv, ShapeInv
<1>2. mine[r] = NoWrites /\ mine' = mine /\ db' = db /\ plan' = plan /\ at'[r] = 1 /\ pc'[r] = "load"
  BY DEF Begin, Goto, IInv, OpenInv, Open, ShapeInv
<1>3. View(r)' = db
  BY <1>2, ViewAtFirst, ViewSame DEF IInv, RecordsInv
<1>4. Outcome(db, plan[r], r)[0] = {db}
  <2>1. Len(plan[r]) \in Nat
    BY IsSeqDomain DEF Begin, LogInv, PlannedInv
  <2> QED BY <2>1, OutcomeStep
<1>5. at'[r] - 1 = 0
  BY <1>2
<1>6. (View(r) \in Outcome(db, plan[r], r)[at[r] - 1])'
  BY <1>2, <1>3, <1>4, <1>5
<1> QED BY <1>1, <1>2, <1>6 DEF ReachedInv, Open

LEMMA ReachedLoad ==
  ASSUME Exclusive, IInv, ReachedInv, NEW r \in Requests, Load(r)
  PROVE  ReachedInv'
<1>1. Open(r) /\ (\A q \in Requests \ {r} : ~Open(q)) /\ UNCHANGED <<db, plan, at>>
  BY DEF Load, IInv, OpenInv, Open
<1>2. CASE Refused(View(r), TheMove(r))
  <2>1. \A q \in Requests : ~Open(q)'
    BY <1>1, <1>2 DEF Load, End, Open, IInv, ShapeInv
  <2> QED BY <2>1, ReachedSame
<1>3. CASE ~Refused(View(r), TheMove(r))
  <2>1. PICK found \in (IF TheMove(r).kind \notin Incoming
                        THEN {View(r).contracts[TheMove(r).contract]}
                        ELSE IF SameName(View(r), TheMove(r)) = {} THEN {None} ELSE SameName(View(r), TheMove(r))) :
          loaded' = [loaded EXCEPT ![r] = found]
    BY <1>3 DEF Load
  <2>2. mine' = mine /\ pc'[r] = "write" /\ loaded'[r] = found /\ \A q \in Requests \ {r} : ~Open(q)'
    BY <1>1, <1>3, <2>1 DEF Load, Goto, Open, IInv, ShapeInv
  <2>3. View(r)' = View(r) /\ TheMove(r)' = TheMove(r)
    BY <1>1, <2>2, ViewSame DEF TheMove
  <2>4. View(r) \in Outcome(db, plan[r], r)[at[r] - 1]
    BY <1>1 DEF ReachedInv
  <2>5. (View(r) \in Outcome(db, plan[r], r)[at[r] - 1])'
    BY <1>1, <2>3, <2>4
  <2>6. ~Refused(View(r), TheMove(r))'
    BY <1>3, <2>3
  <2>7. TheMove(r).kind \in Incoming => found \in NamedSo(View(r), TheMove(r))
    BY <2>1 DEF NamedSo
  <2>8. (TheMove(r).kind \in Incoming => loaded[r] \in NamedSo(View(r), TheMove(r)))'
    BY <2>2, <2>3, <2>7
  <2> QED BY <2>2, <2>5, <2>6, <2>8 DEF ReachedInv, Open
<1> QED BY <1>2, <1>3

LEMMA ReachedWrite ==
  ASSUME Exclusive, IInv, LogInv, ReachedInv, NEW r \in Requests, Write(r)
  PROVE  ReachedInv'
<1>1. Open(r) /\ (\A q \in Requests \ {r} : ~Open(q)) /\ UNCHANGED <<db, plan>> /\ pc[r] = "write"
  BY DEF Write, IInv, OpenInv, Open
<1>2. CASE Duplicate(r)
  <2>1. \A q \in Requests : ~Open(q)'
    BY <1>1, <1>2 DEF Write, End, Open, IInv, ShapeInv
  <2> QED BY <2>1, ReachedSame
<1>3. CASE ~Duplicate(r)
  <2>1. PICK v \in Written(r) : View(r)' = v
    BY <1>3, ViewIsWritten
  <2>2. v \in After(View(r), TheMove(r), r)
    BY <1>1, WrittenIsAfter
  <2>3. pc'[r] = "load" /\ at'[r] = at[r] + 1 /\ \A q \in Requests \ {r} : ~Open(q)'
    BY <1>1, <1>3 DEF Write, Open, IInv, ShapeInv
  <2>4. at[r] \in 1..Len(plan[r]) /\ Len(plan[r]) \in Nat
    <3>1. IsSeq(plan[r]) /\ at[r] \in DOMAIN plan[r]
      BY <1>1 DEF LogInv, PlannedInv, WritesInv
    <3> QED BY <3>1, IsSeqDomain
  <2>5. View(r) \in Outcome(db, plan[r], r)[at[r] - 1]
    BY <1>1 DEF ReachedInv
  <2>6. v \in Outcome(db, plan[r], r)[at[r]]
    <3>1. After(View(r), plan[r][at[r]], r) \subseteq Outcome(db, plan[r], r)[at[r]]
      BY <2>4, <2>5, OutcomeStep
    <3> QED BY <2>2, <3>1 DEF TheMove
  <2>7. at'[r] - 1 = at[r]
    BY <2>3, <2>4
  <2>8. (View(r) \in Outcome(db, plan[r], r)[at[r] - 1])'
    BY <1>1, <2>1, <2>6, <2>7
  <2> QED BY <2>3, <2>8 DEF ReachedInv, Open
<1> QED BY <1>2, <1>3

LEMMA NextReachedInv ==
  ASSUME Exclusive, IInv, LogInv, ReachedInv, [Next]_vars
  PROVE  ReachedInv'
<1>1. ASSUME NEW r \in Requests, Begin(r) \/ Load(r) \/ Write(r) PROVE ReachedInv'
  BY <1>1, ReachedBegin, ReachedLoad, ReachedWrite
<1>2. ASSUME NEW r \in Requests, Commit(r) \/ CreateWrite(r) \/ Fail(r) PROVE ReachedInv'
  <2>1. \A q \in Requests \ {r} : ~Open(q)
    BY <1>2, Alone DEF Commit, CreateWrite, Fail, IInv, OpenInv, Open
  <2>2. \A q \in Requests : ~Open(q)'
    BY <1>2, <2>1 DEF Commit, CreateWrite, Fail, End, Open, IInv, ShapeInv
  <2> QED BY <2>2, ReachedSame
<1>3. CASE OfficialEdit
  <2>1. \A q \in Requests : ~Open(q)'
    BY <1>3 DEF OfficialEdit, Terminate, SetPlayerStatus, MayRunAlone, Open
  <2> QED BY <2>1, ReachedSame
<1>4. ASSUME NEW r \in Requests,
             Start(r) \/ CheckStatus(r) \/ ReadPlan(r) \/ ToggleWrite(r) \/ \E m \in EditMoves : AddInsert(r, m)
      PROVE  ReachedInv'
  <2>1. db' = db /\ at' = at /\ ~Open(r)
    BY <1>4 DEF Start, Gate, AddRead, ToggleRead, CreateRead, CheckStatus, ReadPlan, ToggleWrite, AddInsert, Open
  <2>2. ~Open(r)' /\ \A q \in Requests \ {r} :
          pc'[q] = pc[q] /\ mine'[q] = mine[q] /\ loaded'[q] = loaded[q] /\ plan'[q] = plan[q]
    <3>1. CASE Start(r)
      BY <3>1 DEF Start, Gate, AddRead, ToggleRead, CreateRead, Goto, Open, IInv, ShapeInv
    <3>2. CASE CheckStatus(r) \/ ReadPlan(r)
      BY <3>2 DEF CheckStatus, ReadPlan, Goto, Open, IInv, ShapeInv
    <3>3. CASE ToggleWrite(r) \/ \E m \in EditMoves : AddInsert(r, m)
      BY <3>3 DEF ToggleWrite, AddInsert, End, Open, IInv, ShapeInv
    <3> QED BY <1>4, <3>1, <3>2, <3>3
  <2>3. \A q \in Requests : Open(q)' => q # r /\ Open(q)
    BY <2>2 DEF Open
  <2> QED BY <2>1, <2>2, <2>3, ReachedSame
<1>5. CASE ScenarioEdit \/ UNCHANGED vars
  <2>1. UNCHANGED <<db, pc, plan, at, loaded, mine>>
    BY <1>5 DEF ScenarioEdit, RemoveMove, SetStatus, vars
  <2> QED BY <2>1, ReachedSame DEF Open
<1> QED BY <1>1, <1>2, <1>3, <1>4, <1>5 DEF Next, Continue

-----------------------------------------------------------------------------
(* The steps are steps of the ledger.                                      *)

LEMMA CommitIsApply ==
  ASSUME Exclusive, IInv, LogInv, TypedInv, ReachedInv, NEW r \in Requests, Commit(r)
  PROVE  Ledger!Next
<1> DEFINE d == db.log  w == mine[r].log  E == LogEntries(Requests)
<1>1. pc[r] = "load" /\ Open(r) /\ db' = View(r) /\ at[r] \notin DOMAIN plan[r] /\ plan[r] \in Seq(AllMoves)
  BY DEF Commit, Open, TypedInv
<1>2. IsSeq(plan[r]) /\ Wrote(r) /\ d \in Seq(E) /\ w \in Seq(E)
  BY <1>1 DEF LogInv, PlannedInv, WritesInv
<1>3. /\ Len(d) \in Nat /\ Len(plan[r]) \in Nat /\ at[r] - 1 = Len(plan[r]) /\ Len(w) = Len(plan[r])
      /\ DOMAIN plan[r] = 1..Len(plan[r])
  BY <1>1, <1>2, LenProperties, IsSeqDomain DEF Wrote
<1>4. db' \in Ledger!ApplyAll(plan[r], r)
  <2>1. View(r) \in Outcome(db, plan[r], r)[at[r] - 1]
    BY <1>1 DEF ReachedInv
  <2> QED BY <1>1, <1>3, <2>1, ApplyAllIs
<1>5. Ledger!NewEntries = w
  <2>1. db'.log = d \o w
    BY <1>1 DEF View
  <2> HIDE DEF d, w, E
  <2>2. SubSeq(d \o w, Len(d) + 1, Len(d \o w)) = w
    BY <1>2, AddedIsLast
  <2> QED BY <2>1, <2>2 DEF Ledger!NewEntries, d
<1>6. Ledger!KindsOf(w) = Ledger!KindsOf(plan[r])
  <2>1. DOMAIN w = DOMAIN plan[r] /\ \A i \in DOMAIN plan[r] : w[i].kind = plan[r][i].kind
    BY <1>2, <1>3, LenProperties DEF Wrote
  <2> HIDE DEF w
  <2> QED BY <2>1 DEF Ledger!KindsOf
<1>7. Ledger!ApplyScenario(plan[r], r)
  BY <1>4, <1>5, <1>6 DEF Ledger!ApplyScenario
<1> QED BY <1>1, <1>7 DEF Ledger!Next

LEMMA EditIsDirectEdit ==
  ASSUME Exclusive, IInv, OfficialEdit \/ \E r \in Requests : CreateWrite(r)
  PROVE  [Ledger!Next]_db
<1>1. ASSUME NEW r \in Requests, CreateWrite(r) PROVE Ledger!Next
  <2>1. ~Open(r) /\ \A q \in Requests \ {r} : ~Open(q)
    BY <1>1, Alone DEF CreateWrite, Open
  <2>2. View(r) = db /\ NewcomerGood(r)
    BY <1>1, <2>1, ViewAtFirst DEF IInv, OpenInv, RecordsInv, LoadedInv, CreateWrite
  <2>3. PICK c \in NewContract(r) :
          db' = ContractAdded(db, loaded[r].player, c, loaded[r].status, NewRows)
    BY <1>1 DEF CreateWrite
  <2>4. c \in Contracts /\ db.contracts[c] = None
    <3>1. c \in Unused(db.contracts, {k \in Contracts : ~ContractLocked(k, r)})
      BY <2>2 DEF NewContract, NewId
    <3> QED BY <3>1 DEF Unused
  <2>5. Ledger!AddContract(loaded[r].player, c, loaded[r].status)
    BY <2>2, <2>3, <2>4, SameMoves DEF Ledger!AddContract, NewcomerGood
  <2> QED BY <2>2, <2>4, <2>5, SameMoves DEF Ledger!Next, Ledger!DirectEdit, NewcomerGood
<1>2. ASSUME NEW c \in Terminable, Terminate(c) PROVE Ledger!Next
  <2>1. Ledger!Terminate(c) /\ c \in Contracts
    BY <1>2, SameMoves DEF Terminate, Ledger!Terminate
  <2> QED BY <2>1 DEF Ledger!Next, Ledger!DirectEdit
<1>3. ASSUME NEW p \in Players, NEW st \in StatusEdits, SetPlayerStatus(p, st) PROVE Ledger!Next
  <2>1. Ledger!SetPlayerStatus(p, st)
    BY <1>3, SameMoves DEF SetPlayerStatus, Ledger!SetPlayerStatus
  <2> QED BY <2>1 DEF Ledger!Next, Ledger!DirectEdit
<1> QED BY <1>1, <1>2, <1>3 DEF OfficialEdit

LEMMA NextIsLedger ==
  ASSUME Exclusive, IInv, LogInv, TypedInv, ReachedInv, [Next]_vars
  PROVE  [Ledger!Next]_db
<1>1. ASSUME NEW r \in Requests, Commit(r) PROVE Ledger!Next
  BY <1>1, CommitIsApply
<1>2. CASE OfficialEdit \/ \E r \in Requests : CreateWrite(r)
  BY <1>2, EditIsDirectEdit
<1>3. ASSUME NEW r \in Requests, Start(r) PROVE db' = db
  BY <1>3 DEF Start, Gate, AddRead, ToggleRead, CreateRead
<1>4. ASSUME NEW r \in Requests, Continue(r), ~Commit(r), ~CreateWrite(r) PROVE db' = db
  BY <1>4 DEF Continue, CheckStatus, ReadPlan, Begin, Load, Write, ToggleWrite, AddInsert
<1>5. ASSUME NEW r \in Requests, Fail(r) PROVE db' = db
  BY <1>5 DEF Fail
<1>6. CASE ScenarioEdit \/ UNCHANGED vars
  BY <1>6 DEF ScenarioEdit, RemoveMove, SetStatus, vars
<1> QED BY <1>1, <1>2, <1>3, <1>4, <1>5, <1>6 DEF Next

(* The embedded database keeps the official ledger: a scenario is applied  *)
(* all at once, every move in order to the records as they are at that     *)
(* moment, whatever statements ran between its own.                        *)
THEOREM KeepsTheLedger ==
  ASSUME Exclusive PROVE Spec => Ledger!Spec
<1> DEFINE Reached == IInv /\ LogInv /\ TypedInv /\ ReachedInv
<1>1. Init => Reached
  <2>1. Init => ReachedInv
    BY DEF Init, ReachedInv, Open
  <2> QED BY <2>1, InitIInv, InitLogInv, InitTypedInv
<1>2. Reached /\ [Next]_vars => Reached'
  BY NextIInv, NextLogInv, NextTypedInv, NextReachedInv
<1>3. Init => Ledger!Init
  BY DEF Init, Ledger!Init
<1>4. Reached /\ [Next]_vars => [Ledger!Next]_db
  BY NextIsLedger
<1> QED BY <1>1, <1>2, <1>3, <1>4, PTL DEF Spec, Ledger!Spec
=============================================================================
