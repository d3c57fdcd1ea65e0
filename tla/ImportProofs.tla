---------------------------- MODULE ImportProofs ----------------------------
(* Proofs about the import pipeline, for any number of imports, files,     *)
(* names, reviewers and edits, on either database.                         *)
EXTENDS ImportPipeline, FiniteSetTheorems, SequenceTheorems, TLAPS

-----------------------------------------------------------------------------
(* The rows of a file.                                                     *)

(* What a set of rows found valid has in common with what it was found in. *)
Sifted(kind, rows, valid) ==
  /\ valid \subseteq DOMAIN rows
  /\ \A n \in valid : Complete(kind, rows[n])
  /\ kind \in NamedKinds => \A n, k \in valid : rows[n].name = rows[k].name => n = k
  /\ kind = "contracts" => \A n \in valid :
       LET about == {k \in DOMAIN rows : rows[k].name = rows[n].name}
       IN  /\ about \subseteq valid
           /\ \A k \in about : rows[k].sound
           /\ \A k, j \in about : rows[k].key = rows[j].key => k = j

Fresh(kind, rows, valid, db) ==
  /\ kind \in NamedKinds => \A n \in valid : db.imported[kind][rows[n].name] = 0
  /\ kind = "contracts" => \A n \in valid : ~Signed(rows[n].name, db)

RowsGood(kind, rows) ==
  /\ kind \in Kinds
  /\ rows \in Seq(Rows)
  /\ \A n \in DOMAIN rows : rows[n].sound => Complete(kind, rows[n])

LEMMA ValidRowsSifted ==
  ASSUME NEW kind, NEW rows, RowsGood(kind, rows), NEW db \in Records
  PROVE  LET valid == ValidRows(kind, rows, db)
         IN  Sifted(kind, rows, valid) /\ Fresh(kind, rows, valid, db)
<1> DEFINE fit == {n \in DOMAIN rows : Fits(kind, rows, n, db)}
           valid == ValidRows(kind, rows, db)
<1>1. valid \subseteq fit
  BY DEF ValidRows
<1>2. \A n \in fit : n \in DOMAIN rows /\ rows[n].sound /\ Complete(kind, rows[n])
  BY DEF Fits, RowsGood
<1>3. ASSUME kind \in NamedKinds
      PROVE  \A n, k \in fit : rows[n].name = rows[k].name => n = k
  <2> SUFFICES ASSUME NEW n \in fit, NEW k \in fit, rows[n].name = rows[k].name, n < k
               PROVE  FALSE
    <3>1. fit \subseteq Nat
      BY LenProperties DEF RowsGood
    <3> QED BY <3>1
  <2>1. n \in 1..(k - 1)
    BY LenProperties DEF RowsGood
  <2>2. Identity(kind, rows[n]) = Identity(kind, rows[k])
    BY <1>3 DEF Identity, NamedKinds, ConnectorKinds
  <2>3. Repeats(kind, rows, k)
    BY <1>3, <2>1, <2>2 DEF Repeats, NamedKinds, ConnectorKinds
  <2> QED BY <2>3 DEF Fits
<1>4. ASSUME kind = "contracts", NEW n \in valid
      PROVE  LET about == {k \in DOMAIN rows : rows[k].name = rows[n].name}
             IN  /\ about \subseteq valid
                 /\ \A k \in about : rows[k].sound
                 /\ \A k, j \in about : rows[k].key = rows[j].key => k = j
  <2> DEFINE about == {k \in DOMAIN rows : rows[k].name = rows[n].name}
  <2>1. rows[n].name \notin BadNames(rows, fit)
    BY <1>4 DEF ValidRows
  <2>2. about \subseteq fit
    BY <2>1 DEF BadNames
  <2>3. about \subseteq valid
    BY <2>1, <2>2, <1>4 DEF ValidRows
  <2>4. \A k, j \in about : rows[k].key = rows[j].key => k = j
    BY <2>1, <2>2 DEF BadNames
  <2> QED BY <2>2, <2>3, <2>4, <1>2
<1>5. Fresh(kind, rows, valid, db)
  <2>1. ASSUME kind \in NamedKinds, NEW n \in fit PROVE db.imported[kind][rows[n].name] = 0
    <3>1. rows[n].name \in Names
      BY <1>2, <2>1 DEF Complete, NamedKinds, ConnectorKinds
    <3>2. HowMany(kind, rows[n].name, db) = 0
      BY <2>1 DEF Fits
    <3>3. db.imported[kind][rows[n].name] \in Nat /\ db.others[kind][rows[n].name] \in Nat
      BY <2>1, <3>1 DEF Records
    <3> QED BY <3>2, <3>3 DEF HowMany
  <2>2. ASSUME kind = "contracts", NEW n \in fit PROVE ~Signed(rows[n].name, db)
    BY <2>2 DEF Fits
  <2> QED BY <2>1, <2>2, <1>1 DEF Fresh
<1> QED BY <1>1, <1>2, <1>3, <1>4, <1>5 DEF Sifted

-----------------------------------------------------------------------------
(* What a commit writes is of the right type.                              *)

LEMMA FewRows ==
  ASSUME NEW rows \in Seq(Rows), NEW S, S \subseteq DOMAIN rows
  PROVE  IsFiniteSet(S) /\ Cardinality(S) \in Nat
<1>1. Len(rows) \in Nat /\ DOMAIN rows = 1..Len(rows)
  BY LenProperties
<1>2. IsFiniteSet(DOMAIN rows)
  BY <1>1, FS_Interval
<1> QED BY <1>2, FS_Subset, FS_CardinalityType

LEMMA RowCells ==
  ASSUME NEW rows \in Seq(Rows), NEW n \in DOMAIN rows
  PROVE  /\ rows[n] \in Rows
         /\ rows[n].value \in Values \cup {None}
         /\ rows[n].extra \in Values \cup {None}
<1>1. rows[n] \in Rows
  BY LenProperties
<1> QED BY <1>1 DEF Rows

LEMMA OneOf == ASSUME NEW S, S # {} PROVE One(S) \in S
BY DEF One

(* The parts of the records that a commit may change.                      *)
LEMMA RecordsOf ==
  ASSUME NEW db \in Records
  PROVE  /\ DOMAIN db = {"imported", "others", "contracts", "stats", "logs", "draft", "ext", "sources"}
         /\ db.imported \in [NamedKinds -> [Names -> Nat]]
         /\ db.others \in [NamedKinds -> [Names -> Nat]]
         /\ db.contracts \subseteq Contracts
         /\ db.stats \in [Names -> [Keys -> Values \cup {None}]]
         /\ db.logs \in [Names -> [Keys -> Nat]]
         /\ db.draft \in [Names -> Values \cup {None}]
         /\ db.ext \in [Keys -> ExtRows \cup {None}]
         /\ db.sources \subseteq Nat
BY DEF Records

LEMMA NamedTyped ==
  ASSUME NEW kind \in NamedKinds, NEW rows \in Seq(Rows), NEW valid, valid \subseteq DOMAIN rows,
         NEW db \in Records
  PROVE  AddNamed(kind, rows, valid, db) \in Records
<1>1. \A name \in Names : Cardinality(About(rows, valid, name)) \in Nat
  BY FewRows DEF About
<1>2. [name \in Names |-> db.imported[kind][name] + Cardinality(About(rows, valid, name))]
        \in [Names -> Nat]
  BY <1>1, RecordsOf
<1> QED BY <1>2 DEF AddNamed, Records

LEMMA StatsTyped ==
  ASSUME NEW rows \in Seq(Rows), NEW valid, valid \subseteq DOMAIN rows, NEW db \in Records
  PROVE  AddStats(rows, valid, db) \in Records
<1> DEFINE first(name, key) == Foremost({n \in About(rows, valid, name) : rows[n].key = key})
           cell(name, key) == IF db.stats[name][key] # None \/ first(name, key) = {}
                              THEN db.stats[name][key]
                              ELSE rows[One(first(name, key))].value
<1>1. \A name \in Names, key \in Keys : cell(name, key) \in Values \cup {None}
  <2> TAKE name \in Names, key \in Keys
  <2>1. first(name, key) \subseteq DOMAIN rows
    BY DEF Foremost, About
  <2>2. first(name, key) # {} => One(first(name, key)) \in DOMAIN rows
    BY <2>1, OneOf
  <2>3. db.stats[name][key] \in Values \cup {None}
    BY RecordsOf
  <2> QED BY <2>2, <2>3, RowCells
<1>2. [name \in Names |-> [key \in Keys |-> cell(name, key)]] \in [Names -> [Keys -> Values \cup {None}]]
  BY <1>1
<1>3. AddStats(rows, valid, db) =
        [db EXCEPT !.stats = [name \in Names |-> [key \in Keys |-> cell(name, key)]]]
  BY DEF AddStats
<1> HIDE DEF cell
<1> QED BY <1>2, <1>3 DEF Records

LEMMA LogsTyped ==
  ASSUME NEW rows \in Seq(Rows), NEW valid, valid \subseteq DOMAIN rows, NEW db \in Records
  PROVE  AddLogs(rows, valid, db) \in Records
<1> DEFINE games(name, key) == Cardinality({n \in About(rows, valid, name) : rows[n].key = key})
<1>1. \A name \in Names, key \in Keys : games(name, key) \in Nat
  BY FewRows DEF About
<1>2. [name \in Names |-> [key \in Keys |-> db.logs[name][key] + games(name, key)]]
        \in [Names -> [Keys -> Nat]]
  <2> HIDE DEF games
  <2> QED BY <1>1, RecordsOf
<1>3. AddLogs(rows, valid, db) =
        [db EXCEPT !.logs = [name \in Names |-> [key \in Keys |-> db.logs[name][key] + games(name, key)]]]
  BY DEF AddLogs
<1> HIDE DEF games
<1> QED BY <1>2, <1>3 DEF Records

LEMMA DraftTyped ==
  ASSUME NEW rows \in Seq(Rows), NEW valid, valid \subseteq DOMAIN rows, NEW db \in Records
  PROVE  SetDraftStatus(rows, valid, db) \in Records
<1> DEFINE cell(name) == IF About(rows, valid, name) = {} THEN db.draft[name]
                         ELSE rows[One(About(rows, valid, name))].value
<1>1. \A name \in Names : cell(name) \in Values \cup {None}
  <2> TAKE name \in Names
  <2>1. About(rows, valid, name) # {} => One(About(rows, valid, name)) \in DOMAIN rows
    BY OneOf DEF About
  <2> QED BY <2>1, RecordsOf, RowCells
<1>2. SetDraftStatus(rows, valid, db) = [db EXCEPT !.draft = [name \in Names |-> cell(name)]]
  BY DEF SetDraftStatus
<1> HIDE DEF cell
<1>3. [name \in Names |-> cell(name)] \in [Names -> Values \cup {None}]
  BY <1>1
<1> QED BY <1>2, <1>3 DEF Records

LEMMA ContractsTyped ==
  ASSUME NEW i \in Nat, NEW rows \in Seq(Rows), NEW valid, valid \subseteq DOMAIN rows,
         NEW db \in Records, IsFiniteSet(db.contracts),
         \A n \in valid : rows[n].name \in Names /\ rows[n].key \in Keys
  PROVE  AddContracts(i, rows, valid, db) \in Records
<1> DEFINE new == {[player |-> name,
                    seasons |-> {<<rows[n].key, rows[n].value>> : n \in About(rows, valid, name)},
                    import |-> i, active |-> TRUE, number |-> Cardinality(db.contracts)] :
                   name \in {rows[n].name : n \in valid}}
<1>1. new \subseteq Contracts
  <2> SUFFICES ASSUME NEW c \in new PROVE c \in Contracts
    OBVIOUS
  <2>1. PICK name \in {rows[n].name : n \in valid} :
          c = [player |-> name,
               seasons |-> {<<rows[n].key, rows[n].value>> : n \in About(rows, valid, name)},
               import |-> i, active |-> TRUE, number |-> Cardinality(db.contracts)]
    OBVIOUS
  <2>2. name \in Names
    OBVIOUS
  <2>3. {<<rows[n].key, rows[n].value>> : n \in About(rows, valid, name)}
          \subseteq Keys \X (Values \cup {None})
    BY RowCells DEF About
  <2>4. Cardinality(db.contracts) \in Nat
    BY FS_CardinalityType
  <2> QED BY <2>1, <2>2, <2>3, <2>4 DEF Contracts
<1>2. AddContracts(i, rows, valid, db) = [db EXCEPT !.contracts = db.contracts \cup new]
  BY DEF AddContracts
<1> HIDE DEF new
<1> QED BY <1>1, <1>2, RecordsOf DEF Records

(* What an upsert of the rows leaves under a key.                          *)
Here(rows, valid, key) == {n \in valid : rows[n].key = key}
Incoming(i, row) == [bio |-> row.value, draft |-> row.extra, import |-> i]
ExtCell(i, kind, rows, valid, db, key) ==
  LET new == Incoming(i, rows[One(Here(rows, valid, key))])
  IN  IF Here(rows, valid, key) = {} THEN db.ext[key]
      ELSE IF kind = "ext_roster" THEN Fill(db.ext[key], new)
      ELSE Overwrite(db.ext[key], new)

ExtAfter(i, kind, rows, valid, db) == [key \in Keys |-> ExtCell(i, kind, rows, valid, db, key)]

LEMMA UpsertIs ==
  ASSUME NEW i, NEW kind, NEW rows, NEW valid, NEW db \in Records
  PROVE  /\ Upsert(i, kind, rows, valid, db).sources = db.sources \cup {i}
         /\ Upsert(i, kind, rows, valid, db).ext = ExtAfter(i, kind, rows, valid, db)
         /\ Upsert(i, kind, rows, valid, db).imported = db.imported
         /\ Upsert(i, kind, rows, valid, db).contracts = db.contracts
<1>1. Upsert(i, kind, rows, valid, db) =
        [db EXCEPT !.sources = db.sources \cup {i}, !.ext = ExtAfter(i, kind, rows, valid, db)]
  BY DEF Upsert, ExtCell, ExtAfter, Here, Incoming
<1> QED BY <1>1, RecordsOf

LEMMA UpsertTyped ==
  ASSUME NEW i \in Nat, NEW kind, NEW rows \in Seq(Rows), NEW valid, valid \subseteq DOMAIN rows,
         NEW db \in Records
  PROVE  Upsert(i, kind, rows, valid, db) \in Records
<1>1. \A key \in Keys : ExtCell(i, kind, rows, valid, db, key) \in ExtRows \cup {None}
  <2> TAKE key \in Keys
  <2> DEFINE new == Incoming(i, rows[One(Here(rows, valid, key))])
  <2>1. db.ext[key] \in ExtRows \cup {None}
    BY RecordsOf
  <2>2. Here(rows, valid, key) # {} => new \in ExtRows
    BY OneOf, RowCells DEF ExtRows, Here, Incoming
  <2> HIDE DEF new
  <2>3. Here(rows, valid, key) # {} => Overwrite(db.ext[key], new) \in ExtRows
    BY <2>2 DEF Overwrite
  <2>4. Here(rows, valid, key) # {} => Fill(db.ext[key], new) \in ExtRows
    BY <2>1, <2>2 DEF Fill, ExtRows
  <2> QED BY <2>1, <2>3, <2>4 DEF ExtCell, new
<1>2. ExtAfter(i, kind, rows, valid, db) \in [Keys -> ExtRows \cup {None}]
  BY <1>1 DEF ExtAfter
<1>3. db.sources \cup {i} \subseteq Nat
  BY RecordsOf
<1>4. \A S, E : S \subseteq Nat /\ E \in [Keys -> ExtRows \cup {None}] =>
                [db EXCEPT !.sources = S, !.ext = E] \in Records
  BY DEF Records
<1>5. [db EXCEPT !.sources = db.sources \cup {i}, !.ext = ExtAfter(i, kind, rows, valid, db)]
        \in Records
  BY <1>2, <1>3, <1>4
<1>6. Upsert(i, kind, rows, valid, db) =
        [db EXCEPT !.sources = db.sources \cup {i}, !.ext = ExtAfter(i, kind, rows, valid, db)]
  BY DEF Upsert, ExtCell, ExtAfter, Here, Incoming
<1> QED BY <1>5, <1>6

LEMMA WrittenIs ==
  ASSUME NEW i, NEW kind, NEW rows, NEW valid, NEW db
  PROVE  /\ kind \in NamedKinds => Written(i, kind, rows, valid, db) = AddNamed(kind, rows, valid, db)
         /\ kind = "contracts" => Written(i, kind, rows, valid, db) = AddContracts(i, rows, valid, db)
         /\ kind = "ncaa_season_stats" => Written(i, kind, rows, valid, db) = AddStats(rows, valid, db)
         /\ kind = "ncaa_game_logs" => Written(i, kind, rows, valid, db) = AddLogs(rows, valid, db)
         /\ kind = "ncaa_draft_status" => Written(i, kind, rows, valid, db) = SetDraftStatus(rows, valid, db)
         /\ kind \in ConnectorKinds => Written(i, kind, rows, valid, db) = Upsert(i, kind, rows, valid, db)
BY DEF Written, NamedKinds, ConnectorKinds

LEMMA WrittenTyped ==
  ASSUME NEW i \in Nat, NEW kind \in Kinds, NEW rows \in Seq(Rows), NEW valid,
         Sifted(kind, rows, valid), NEW db \in Records, IsFiniteSet(db.contracts)
  PROVE  Written(i, kind, rows, valid, db) \in Records
<1>1. valid \subseteq DOMAIN rows
  BY DEF Sifted
<1>2. CASE kind \in NamedKinds
  BY <1>1, <1>2, NamedTyped, WrittenIs
<1>3. CASE kind = "contracts"
  <2>1. \A n \in valid : rows[n].name \in Names /\ rows[n].key \in Keys
    BY <1>3 DEF Sifted, Complete, ConnectorKinds
  <2> QED BY <1>1, <1>3, <2>1, ContractsTyped, WrittenIs
<1>4. CASE kind = "ncaa_season_stats"
  BY <1>1, <1>4, StatsTyped, WrittenIs
<1>5. CASE kind = "ncaa_game_logs"
  BY <1>1, <1>5, LogsTyped, WrittenIs
<1>6. CASE kind = "ncaa_draft_status"
  BY <1>1, <1>6, DraftTyped, WrittenIs
<1>7. CASE kind \in ConnectorKinds
  BY <1>1, <1>7, UpsertTyped, WrittenIs
<1> QED BY <1>2, <1>3, <1>4, <1>5, <1>6, <1>7 DEF Kinds, StatKinds

-----------------------------------------------------------------------------
(* A commit of fresh rows keeps what it must.                              *)

Once(db) == \A kind \in NamedKinds, name \in Names : db.imported[kind][name] <= 1
OneActive(db) ==
  \A c, d \in db.contracts : c.active /\ d.active /\ c.player = d.player => c = d

LEMMA WrittenElsewhere ==
  ASSUME NEW i, NEW kind \in Kinds, NEW rows, NEW valid, NEW db \in Records
  PROVE  /\ kind \notin NamedKinds => Written(i, kind, rows, valid, db).imported = db.imported
         /\ kind # "contracts" => Written(i, kind, rows, valid, db).contracts = db.contracts
         /\ kind \notin ConnectorKinds => /\ Written(i, kind, rows, valid, db).ext = db.ext
                                         /\ Written(i, kind, rows, valid, db).sources = db.sources
<1>1. CASE kind \in NamedKinds
  BY <1>1, WrittenIs, RecordsOf DEF AddNamed, NamedKinds, ConnectorKinds
<1>2. CASE kind = "contracts"
  BY <1>2, WrittenIs, RecordsOf DEF AddContracts, NamedKinds, ConnectorKinds
<1>3. CASE kind = "ncaa_season_stats"
  BY <1>3, WrittenIs, RecordsOf DEF AddStats
<1>4. CASE kind = "ncaa_game_logs"
  BY <1>4, WrittenIs, RecordsOf DEF AddLogs
<1>5. CASE kind = "ncaa_draft_status"
  BY <1>5, WrittenIs, RecordsOf DEF SetDraftStatus
<1>6. CASE kind \in ConnectorKinds
  <2>1. Written(i, kind, rows, valid, db) = Upsert(i, kind, rows, valid, db)
    BY <1>6, WrittenIs
  <2>2. kind \notin NamedKinds /\ kind # "contracts"
    BY <1>6 DEF NamedKinds, ConnectorKinds
  <2>3. /\ Upsert(i, kind, rows, valid, db).imported = db.imported
        /\ Upsert(i, kind, rows, valid, db).contracts = db.contracts
    BY UpsertIs
  <2> QED BY <1>6, <2>1, <2>2, <2>3
<1> QED BY <1>1, <1>2, <1>3, <1>4, <1>5, <1>6 DEF Kinds, StatKinds

LEMMA WrittenOnce ==
  ASSUME NEW i, NEW kind \in Kinds, NEW rows \in Seq(Rows), NEW valid, NEW db \in Records,
         Sifted(kind, rows, valid), Fresh(kind, rows, valid, db), Once(db)
  PROVE  Once(Written(i, kind, rows, valid, db))
<1>1. CASE kind \notin NamedKinds
  BY <1>1, WrittenElsewhere DEF Once
<1>2. CASE kind \in NamedKinds
  <2>1. \A name \in Names :
          /\ Cardinality(About(rows, valid, name)) \in {0, 1}
          /\ Cardinality(About(rows, valid, name)) = 1 => db.imported[kind][name] = 0
    <3> TAKE name \in Names
    <3>1. IsFiniteSet(About(rows, valid, name))
      BY FewRows DEF About, Sifted
    <3>2. CASE About(rows, valid, name) = {}
      BY <3>1, <3>2, FS_EmptySet
    <3>3. CASE About(rows, valid, name) # {}
      <4>1. PICK n \in valid : rows[n].name = name
        BY <3>3 DEF About
      <4>2. About(rows, valid, name) = {n}
        BY <1>2, <4>1 DEF About, Sifted
      <4>3. db.imported[kind][name] = 0
        BY <1>2, <4>1 DEF Fresh
      <4> QED BY <4>2, <4>3, FS_Singleton
    <3> QED BY <3>2, <3>3
  <2>2. Written(i, kind, rows, valid, db).imported =
          [db.imported EXCEPT ![kind] =
             [name \in Names |-> db.imported[kind][name] + Cardinality(About(rows, valid, name))]]
    BY <1>2, WrittenIs, RecordsOf DEF AddNamed
  <2>3. SUFFICES ASSUME NEW k \in NamedKinds, NEW name \in Names
                 PROVE  Written(i, kind, rows, valid, db).imported[k][name] <= 1
    BY DEF Once
  <2>4. db.imported[k][name] \in Nat /\ db.imported[k][name] <= 1
    BY RecordsOf DEF Once
  <2>5. CASE k # kind
    BY <2>2, <2>4, <2>5, <1>2, RecordsOf
  <2>6. CASE k = kind
    <3>1. Written(i, kind, rows, valid, db).imported[k][name] =
            db.imported[kind][name] + Cardinality(About(rows, valid, name))
      BY <1>2, <2>2, <2>6, RecordsOf
    <3> QED BY <3>1, <2>1, <2>4, <2>6
  <2> QED BY <2>5, <2>6
<1> QED BY <1>1, <1>2

(* The contracts a commit adds.                                            *)
NewContract(i, rows, valid, name, number) ==
  [player |-> name,
   seasons |-> {<<rows[n].key, rows[n].value>> : n \in About(rows, valid, name)},
   import |-> i, active |-> TRUE, number |-> number]

LEMMA WrittenContracts ==
  ASSUME NEW i, NEW rows, NEW valid, NEW db \in Records
  PROVE  Written(i, "contracts", rows, valid, db).contracts =
           db.contracts \cup
           {NewContract(i, rows, valid, rows[n].name, Cardinality(db.contracts)) : n \in valid}
<1> DEFINE new == {NewContract(i, rows, valid, name, Cardinality(db.contracts)) :
                   name \in {rows[n].name : n \in valid}}
<1>1. Written(i, "contracts", rows, valid, db) = [db EXCEPT !.contracts = db.contracts \cup new]
  BY WrittenIs DEF AddContracts, NewContract
<1>2. new = {NewContract(i, rows, valid, rows[n].name, Cardinality(db.contracts)) : n \in valid}
  OBVIOUS
<1> HIDE DEF new
<1>3. Written(i, "contracts", rows, valid, db).contracts = db.contracts \cup new
  BY <1>1, RecordsOf
<1> QED BY <1>2, <1>3

LEMMA WrittenFinite ==
  ASSUME NEW i, NEW kind \in Kinds, NEW rows \in Seq(Rows), NEW valid, valid \subseteq DOMAIN rows,
         NEW db \in Records, IsFiniteSet(db.contracts)
  PROVE  IsFiniteSet(Written(i, kind, rows, valid, db).contracts)
<1>1. CASE kind # "contracts"
  BY <1>1, WrittenElsewhere
<1>2. CASE kind = "contracts"
  <2> DEFINE made(n) == NewContract(i, rows, valid, rows[n].name, Cardinality(db.contracts))
             new == {made(n) : n \in valid}
  <2>1. IsFiniteSet(valid)
    BY FewRows
  <2>2. [n \in valid |-> made(n)] \in Surjection(valid, new)
    BY DEF Surjection
  <2>3. IsFiniteSet(db.contracts \cup new)
    BY <2>1, <2>2, FS_Surjection, FS_Union
  <2>4. Written(i, kind, rows, valid, db).contracts = db.contracts \cup new
    BY <1>2, WrittenContracts
  <2> QED BY <2>3, <2>4
<1> QED BY <1>1, <1>2

LEMMA WrittenActive ==
  ASSUME NEW i, NEW kind \in Kinds, NEW rows \in Seq(Rows), NEW valid, NEW db \in Records,
         Sifted(kind, rows, valid), Fresh(kind, rows, valid, db), OneActive(db)
  PROVE  OneActive(Written(i, kind, rows, valid, db))
<1>1. CASE kind # "contracts"
  BY <1>1, WrittenElsewhere DEF OneActive
<1>2. CASE kind = "contracts"
  <2> DEFINE made(n) == NewContract(i, rows, valid, rows[n].name, Cardinality(db.contracts))
             new == {made(n) : n \in valid}
  <2>1. Written(i, kind, rows, valid, db).contracts = db.contracts \cup new
    BY <1>2, WrittenContracts
  <2>2. \A c \in new : \A d \in db.contracts : d.active => c.player # d.player
    BY <1>2 DEF NewContract, Fresh, Signed
  <2>3. \A c, d \in new : c.player = d.player => c = d
    <3> SUFFICES ASSUME NEW n \in valid, NEW m \in valid, made(n).player = made(m).player
                 PROVE  made(n) = made(m)
      OBVIOUS
    <3>1. rows[n].name = rows[m].name
      BY DEF NewContract
    <3> QED BY <3>1
  <2> HIDE DEF new
  <2> QED BY <2>1, <2>2, <2>3 DEF OneActive
<1> QED BY <1>1, <1>2

-----------------------------------------------------------------------------
(* The inductive invariant.                                                *)

(* A mapping under which the import has rows.                              *)
Mapped(i, m) ==
  /\ m \in Mappings
  /\ RowsUnder(i, m) # None
  /\ FromConnector(i) => m = Identity1

(* What a request relies on at each label.                                 *)
TaskOK(r, label, data) ==
  /\ label \in Labels
  /\ data \in TasksAt(label)
  /\ label \in {"approving", "committing"} => r \in Clerks
  /\ label \in {"validating", "clearing", "committing"} => Mapped(data.import, data.mapping)
  /\ label = "committing" =>
       LET kind == imports[data.import].file.kind
           rows == RowsUnder(data.import, data.mapping)
       IN  Sifted(kind, rows, data.valid)

ImportsInv ==
  /\ imports \in Seq(ImportRecords)
  /\ Len(imports) <= MaxImports
  /\ \A i \in DOMAIN imports : Awaiting(i) => Mapped(i, imports[i].mapping)
ErrorsInv == errors \in [Imports -> SUBSET IssueSet]
RecordsInv ==
  /\ records \in Records
  /\ IsFiniteSet(records.contracts)
TasksInv ==
  /\ pc \in [Slots -> {"idle"} \cup Labels]
  /\ DOMAIN task = Slots
  /\ \A r \in Slots : pc[r] # "idle" => TaskOK(r, pc[r], task[r])
IInv ==
  /\ exclusive \in BOOLEAN /\ writes \in Nat
  /\ ImportsInv
  /\ ErrorsInv
  /\ RecordsInv
  /\ TasksInv

(* What every step leaves of what the other requests rely on.              *)
FilesStay ==
  /\ DOMAIN imports \subseteq DOMAIN imports'
  /\ \A i \in DOMAIN imports : imports'[i].file = imports[i].file

LEMMA TaskFields ==
  ASSUME NEW data
  PROVE  /\ \A label \in {"uploaded", "rejecting", "validating", "clearing", "committing"} :
              data \in TasksAt(label) => data.import \in DOMAIN imports
         /\ data \in TasksAt("validating") => data.issues \subseteq IssueSet
         /\ data \in TasksAt("clearing") =>
              data.issues \subseteq IssueSet /\ data.cleared \subseteq IssueSet
         /\ data \in TasksAt("approving") => data.queue \in Queues
         /\ data \in TasksAt("committing") => data.queue \in Queues
<1>1. data \in TasksAt("uploaded") => data.import \in DOMAIN imports
  BY DEF TasksAt
<1>2. data \in TasksAt("rejecting") => data.import \in DOMAIN imports
  BY DEF TasksAt
<1>3. data \in TasksAt("validating") => data.import \in DOMAIN imports /\ data.issues \subseteq IssueSet
  BY DEF TasksAt
<1>4. data \in TasksAt("clearing") =>
        /\ data.import \in DOMAIN imports
        /\ data.issues \subseteq IssueSet /\ data.cleared \subseteq IssueSet
  BY DEF TasksAt
<1>5. data \in TasksAt("approving") => data.queue \in Queues
  BY DEF TasksAt
<1>6. data \in TasksAt("committing") => data.queue \in Queues /\ data.import \in DOMAIN imports
  BY DEF TasksAt
<1> QED BY <1>1, <1>2, <1>3, <1>4, <1>5, <1>6

LEMMA TasksStay ==
  ASSUME FilesStay, NEW label \in Labels
  PROVE  TasksAt(label) \subseteq TasksAt(label)'
<1>1. Queues \subseteq Queues'
  BY DEF Queues, FilesStay
<1>2. DOMAIN imports \subseteq DOMAIN imports'
  BY DEF FilesStay
<1> QED BY <1>1, <1>2 DEF TasksAt, Labels

LEMMA MappedStays ==
  ASSUME FilesStay, NEW i \in DOMAIN imports, NEW m, Mapped(i, m)
  PROVE  Mapped(i, m)'
BY DEF FilesStay, Mapped, RowsUnder, FromConnector

LEMMA MappedAs ==
  ASSUME FilesStay, NEW i \in DOMAIN imports, NEW m, Mapped(i, m), imports'[i].mapping = m
  PROVE  Mapped(i, imports[i].mapping)'
<1>1. Mapped(i, m)'
  BY MappedStays
<1> QED BY <1>1 DEF Mapped

LEMMA SameMapped ==
  ASSUME FilesStay, NEW i \in DOMAIN imports, Mapped(i, imports[i].mapping), imports'[i] = imports[i]
  PROVE  Mapped(i, imports[i].mapping)'
<1>1. PICK m : m = imports[i].mapping
  OBVIOUS
<1>2. Mapped(i, m)
  BY <1>1 DEF Mapped
<1> QED BY <1>1, <1>2, MappedAs

LEMMA TaskStays ==
  ASSUME FilesStay, NEW r, NEW label, NEW data, TaskOK(r, label, data)
  PROVE  TaskOK(r, label, data)'
<1>1. label \in Labels /\ data \in TasksAt(label)
  BY DEF TaskOK
<1>2. data \in TasksAt(label)'
  BY <1>1, TasksStay
<1>3. label \in {"validating", "clearing", "committing"} => data.import \in DOMAIN imports
  BY <1>1, TaskFields
<1>4. label \in {"validating", "clearing", "committing"} => Mapped(data.import, data.mapping)'
  BY <1>3, MappedStays DEF TaskOK
<1>5. ASSUME label = "committing"
      PROVE  LET kind == imports'[data.import].file.kind
                 rows == RowsUnder(data.import, data.mapping)'
             IN  Sifted(kind, rows, data.valid)
  <2> DEFINE kind == imports[data.import].file.kind
             rows == RowsUnder(data.import, data.mapping)
  <2>1. Sifted(kind, rows, data.valid)
    BY <1>5 DEF TaskOK
  <2>2. kind' = kind /\ rows' = rows
    BY <1>3, <1>5 DEF FilesStay, RowsUnder
  <2> HIDE DEF kind, rows
  <2>3. Sifted(kind', rows', data.valid)
    BY <2>1, <2>2
  <2> QED BY <2>3 DEF kind, rows
<1> QED BY <1>1, <1>2, <1>4, <1>5 DEF TaskOK

(* Requests that stand still keep what they rely on, and the one that goes *)
(* on has what it needs where it goes.                                     *)
LEMMA TasksKept ==
  ASSUME TasksInv, FilesStay, UNCHANGED <<pc, task>>
  PROVE  TasksInv'
<1>1. \A q \in Slots : pc[q] # "idle" => TaskOK(q, pc[q], task[q])'
  BY TaskStays DEF TasksInv
<1> QED BY <1>1 DEF TasksInv

LEMMA Went ==
  ASSUME TasksInv, NEW r \in Slots, NEW label \in {"idle"} \cup Labels, NEW data,
         Goto(r, label, data), FilesStay,
         label # "idle" => TaskOK(r, label, data)'
  PROVE  TasksInv'
<1>1. pc' \in [Slots -> {"idle"} \cup Labels] /\ DOMAIN task' = Slots
  BY DEF Goto, TasksInv
<1>2. pc'[r] = label /\ task'[r] = data
  BY DEF Goto, TasksInv
<1>3. ASSUME NEW q \in Slots \ {r} PROVE pc'[q] = pc[q] /\ task'[q] = task[q]
  BY DEF Goto, TasksInv
<1>4. ASSUME NEW q \in Slots \ {r}, pc[q] # "idle" PROVE TaskOK(q, pc[q], task[q])'
  <2>1. TaskOK(q, pc[q], task[q])
    BY <1>4 DEF TasksInv
  <2> QED BY <1>4, <2>1, TaskStays, <1>3
<1> QED BY <1>1, <1>2, <1>3, <1>4 DEF TasksInv

(* Steps that read without writing.                                        *)
LEMMA FilesOfSame == ASSUME UNCHANGED imports PROVE FilesStay
BY DEF FilesStay

LEMMA ReadKeeps ==
  ASSUME IInv, NEW r \in Slots, NEW label \in {"idle"} \cup Labels, NEW data,
         Goto(r, label, data), UNCHANGED <<exclusive, imports, errors, records, writes>>,
         label # "idle" => TaskOK(r, label, data)
  PROVE  IInv'
<1>1. FilesStay
  BY FilesOfSame
<1>2. label # "idle" => TaskOK(r, label, data)'
  BY <1>1, TaskStays
<1>3. TasksInv'
  BY <1>1, <1>2, Went DEF IInv
<1>4. ImportsInv' /\ RecordsInv' /\ ErrorsInv'
  BY DEF IInv, ImportsInv, ErrorsInv, RecordsInv, Awaiting, Mapped, RowsUnder, FromConnector
<1> QED BY <1>3, <1>4 DEF IInv

LEMMA FileTyped ==
  ASSUME IInv, NEW i \in DOMAIN imports
  PROVE  /\ imports[i] \in ImportRecords
         /\ imports[i].file \in Files
         /\ imports[i].file.kind \in Kinds
         /\ i \in Nat /\ i \in Imports
<1>1. imports[i] \in ImportRecords
  BY LenProperties DEF IInv, ImportsInv
<1>2. imports[i].file \in Files
  BY <1>1 DEF ImportRecords
<1>3. i \in 1..Len(imports) /\ Len(imports) \in Nat /\ Len(imports) <= MaxImports
  BY LenProperties DEF IInv, ImportsInv
<1> QED BY <1>1, <1>2, <1>3, FilesAssumption, BoundsAssumption DEF FileOK, Imports

LEMMA RowsTyped ==
  ASSUME IInv, NEW i \in DOMAIN imports, NEW m, Mapped(i, m)
  PROVE  RowsGood(imports[i].file.kind, RowsUnder(i, m))
BY FileTyped, FilesAssumption DEF FileOK, RowsGood, RowsUnder, Mapped

LEMMA ValidateKeeps ==
  ASSUME IInv, NEW r \in Slots, NEW i \in DOMAIN imports, NEW m \in Mappings, ValidateRead(r, i, m)
  PROVE  IInv'
<1> DEFINE rows == RowsUnder(i, m)
           issues == Numbered(DOMAIN rows \ Outcome(i, m), m)
           data == [import |-> i, mapping |-> m, issues |-> issues]
<1>1. Mapped(i, m)
  BY DEF ValidateRead, Mapped
<1>2. rows \in Seq(Rows)
  BY <1>1, RowsTyped DEF RowsGood
<1>3. issues \subseteq IssueSet
  <2>1. DOMAIN rows \subseteq RowNumbers
    BY <1>2, LenProperties DEF RowNumbers
  <2> HIDE DEF rows
  <2> QED BY <2>1 DEF Numbered, IssueSet
<1> HIDE DEF issues
<1>4. data \in TasksAt("validating")
  BY <1>3 DEF TasksAt
<1>5. TaskOK(r, "validating", data)
  BY <1>1, <1>4 DEF TaskOK, Labels
<1>6. Goto(r, "validating", data)
  BY DEF ValidateRead, issues
<1>7. "validating" \in Labels
  BY DEF Labels
<1> QED BY <1>5, <1>6, <1>7, ReadKeeps DEF ValidateRead

LEMMA ClearKeeps ==
  ASSUME IInv, NEW r \in Slots, ClearErrors(r)
  PROVE  IInv'
<1> DEFINE old == task[r]
           data == [import |-> old.import, mapping |-> old.mapping, issues |-> old.issues,
                    cleared |-> Cleared(old.import)]
<1>1. TaskOK(r, "validating", old)
  BY DEF ClearErrors, IInv, TasksInv
<1>2. old.import \in DOMAIN imports /\ old.issues \subseteq IssueSet /\ Mapped(old.import, old.mapping)
  BY <1>1, TaskFields DEF TaskOK
<1>3. Cleared(old.import) \subseteq IssueSet
  BY <1>2, FileTyped DEF Cleared, IInv, ErrorsInv
<1> HIDE DEF old
<1>4. data \in TasksAt("clearing")
  BY <1>2, <1>3 DEF TasksAt, Mapped
<1>5. TaskOK(r, "clearing", data)
  BY <1>2, <1>4 DEF TaskOK, Labels
<1>6. Goto(r, "clearing", data)
  BY DEF ClearErrors, old
<1>7. "clearing" \in Labels
  BY DEF Labels
<1> QED BY <1>5, <1>6, <1>7, ReadKeeps DEF ClearErrors

LEMMA ApproveKeeps ==
  ASSUME IInv, NEW r \in Clerks, NEW queue, queue \subseteq DOMAIN imports, Approve(r, queue)
  PROVE  IInv'
<1>1. [queue |-> queue] \in TasksAt("approving")
  <2>1. queue \in Queues
    BY DEF Queues, Approve
  <2> QED BY <2>1 DEF TasksAt
<1>2. TaskOK(r, "approving", [queue |-> queue])
  BY <1>1 DEF TaskOK, Labels
<1>3. r \in Slots /\ "approving" \in Labels
  BY DEF Slots, Labels
<1> QED BY <1>2, <1>3, ReadKeeps DEF Approve

LEMMA CommitReadKeeps ==
  ASSUME IInv, NEW r \in Slots, CommitRead(r)
  PROVE  IInv'
<1>1. PICK i \in Foremost(task[r].queue) :
        /\ Awaiting(i)
        /\ Goto(r, "committing", [queue |-> task[r].queue, import |-> i,
                                  mapping |-> imports[i].mapping, valid |-> Approved(i)])
  BY DEF CommitRead
<1> DEFINE m == imports[i].mapping
           kind == imports[i].file.kind
           rows == RowsUnder(i, m)
           queue == task[r].queue
           data == [queue |-> queue, import |-> i, mapping |-> m, valid |-> Approved(i)]
<1>2. TaskOK(r, "approving", task[r])
  BY DEF CommitRead, IInv, TasksInv
<1>3. queue \in Queues /\ r \in Clerks
  BY <1>2, TaskFields DEF TaskOK
<1>4. i \in DOMAIN imports /\ Mapped(i, m)
  BY <1>1, <1>3 DEF Foremost, Queues, IInv, ImportsInv
<1>5. RowsGood(kind, rows)
  BY <1>4, RowsTyped
<1>6. Approved(i) = ValidRows(kind, rows, records)
  BY DEF Approved, Outcome
<1>7. Sifted(kind, rows, Approved(i))
  BY <1>5, <1>6, ValidRowsSifted DEF IInv, RecordsInv
<1>8. Approved(i) \subseteq RowNumbers
  BY <1>5, <1>7, LenProperties DEF Sifted, RowsGood, RowNumbers
<1> HIDE DEF queue
<1>9. data \in TasksAt("committing")
  BY <1>3, <1>4, <1>8 DEF TasksAt, Mapped
<1>10. TaskOK(r, "committing", data)
  BY <1>3, <1>4, <1>7, <1>9 DEF TaskOK, Labels
<1>11. Goto(r, "committing", data) /\ "committing" \in Labels
  BY <1>1 DEF Labels, queue
<1> QED BY <1>10, <1>11, ReadKeeps DEF CommitRead

LEMMA RejectReadKeeps ==
  ASSUME IInv, NEW r \in Slots, NEW i \in DOMAIN imports, RejectRead(r, i)
  PROVE  IInv'
<1>1. [import |-> i] \in TasksAt("rejecting") /\ "rejecting" \in Labels
  BY DEF TasksAt, Labels
<1>2. TaskOK(r, "rejecting", [import |-> i])
  BY <1>1 DEF TaskOK
<1> QED BY <1>1, <1>2, ReadKeeps DEF RejectRead

LEMMA AbortKeeps == ASSUME IInv, NEW r \in Slots, Abort(r) PROVE IInv'
BY ReadKeeps DEF Abort, Finish

(* Steps that write the list of imports.                                   *)
LEMMA StatusSet ==
  ASSUME NEW seq \in Seq(ImportRecords), NEW i \in DOMAIN seq, NEW s \in Statuses
  PROVE  LET new == [seq EXCEPT ![i].status = s]
         IN  /\ new \in Seq(ImportRecords)
             /\ DOMAIN new = DOMAIN seq /\ Len(new) = Len(seq)
             /\ new[i] = [seq[i] EXCEPT !.status = s]
             /\ new[i].file = seq[i].file /\ new[i].mapping = seq[i].mapping /\ new[i].status = s
             /\ \A k \in DOMAIN seq \ {i} : new[k] = seq[k]
<1> DEFINE row == [seq[i] EXCEPT !.status = s]
<1>1. row \in ImportRecords /\ row.file = seq[i].file /\ row.mapping = seq[i].mapping /\ row.status = s
  <2>1. seq[i] \in ImportRecords
    BY LenProperties
  <2> QED BY <2>1 DEF ImportRecords
<1> HIDE DEF row
<1>2. [seq EXCEPT ![i] = row] \in Seq(ImportRecords) /\ Len([seq EXCEPT ![i] = row]) = Len(seq)
  BY <1>1, ExceptSeq
<1>3. [seq EXCEPT ![i].status = s] = [seq EXCEPT ![i] = row]
  BY DEF row
<1>4. row = [seq[i] EXCEPT !.status = s]
  BY DEF row
<1> QED BY <1>1, <1>2, <1>3, <1>4

LEMMA StatusKeeps ==
  ASSUME IInv, NEW i \in DOMAIN imports, NEW s \in {"committed", "rejected"},
         imports' = [imports EXCEPT ![i].status = s]
  PROVE  ImportsInv' /\ FilesStay
<1>1. /\ imports' \in Seq(ImportRecords)
      /\ DOMAIN imports' = DOMAIN imports /\ Len(imports') = Len(imports)
      /\ imports'[i].file = imports[i].file /\ imports'[i].status = s
      /\ \A k \in DOMAIN imports \ {i} : imports'[k] = imports[k]
  <2>1. imports \in Seq(ImportRecords) /\ s \in Statuses
    BY DEF IInv, ImportsInv, Statuses
  <2> QED BY <2>1, StatusSet
<1>2. FilesStay
  BY <1>1 DEF FilesStay
<1>3. ASSUME NEW k \in DOMAIN imports', Awaiting(k)' PROVE Mapped(k, imports[k].mapping)'
  <2>1. k \in DOMAIN imports /\ k # i
    BY <1>1, <1>3 DEF Awaiting
  <2>2. imports'[k] = imports[k] /\ Mapped(k, imports[k].mapping)
    BY <1>1, <1>3, <2>1 DEF Awaiting, IInv, ImportsInv
  <2> QED BY <2>1, <2>2, <1>2, SameMapped
<1>4. Len(imports') <= MaxImports
  BY <1>1 DEF IInv, ImportsInv
<1> QED BY <1>1, <1>2, <1>3, <1>4 DEF ImportsInv

LEMMA UploadKeeps ==
  ASSUME IInv, NEW r \in Slots, NEW file \in Files, Upload(r, file)
  PROVE  IInv' /\ FilesStay
<1> DEFINE new == [file |-> file, status |-> "pending", mapping |-> None]
<1>1. /\ imports' = Append(imports, new) /\ imports \in Seq(ImportRecords)
      /\ Len(imports) < MaxImports
  BY DEF Upload, IInv, ImportsInv
<1>2. new \in ImportRecords
  BY DEF ImportRecords, Statuses
<1>3. /\ imports' \in Seq(ImportRecords) /\ Len(imports') = Len(imports) + 1
      /\ DOMAIN imports' = 1..Len(imports')
      /\ \A k \in 1..Len(imports) : imports'[k] = imports[k]
      /\ imports'[Len(imports')] = new
  BY <1>1, <1>2, AppendProperties, LenProperties
<1>4. Len(imports) \in Nat /\ DOMAIN imports = 1..Len(imports)
  BY <1>1, LenProperties
<1>5. FilesStay
  BY <1>3, <1>4 DEF FilesStay
<1>6. ImportsInv'
  <2>1. Len(imports') <= MaxImports
    BY <1>1, <1>3, <1>4, BoundsAssumption
  <2>2. ASSUME NEW k \in DOMAIN imports', Awaiting(k)' PROVE Mapped(k, imports[k].mapping)'
    <3>1. k \in DOMAIN imports
      BY <1>3, <1>4, <2>2 DEF Awaiting
    <3>2. imports'[k] = imports[k] /\ Mapped(k, imports[k].mapping)
      BY <1>3, <1>4, <3>1, <2>2 DEF Awaiting, IInv, ImportsInv
    <3> QED BY <3>1, <3>2, <1>5, SameMapped
  <2> QED BY <1>3, <2>1, <2>2 DEF ImportsInv
<1>7. TasksInv'
  <2>1. CASE file.kind \in ConnectorKinds
    <3> DEFINE data == [import |-> Len(imports) + 1]
    <3>1. Goto(r, "uploaded", data) /\ "uploaded" \in Labels
      BY <1>3, <2>1 DEF Upload, Labels
    <3>2. PICK d : d = data
      OBVIOUS
    <3>3. d \in TasksAt("uploaded")'
      BY <1>3, <1>4, <3>2 DEF TasksAt
    <3>4. TaskOK(r, "uploaded", d)' /\ Goto(r, "uploaded", d)
      BY <3>1, <3>2, <3>3 DEF TaskOK, Goto
    <3> QED BY <1>5, <3>1, <3>4, Went DEF IInv
  <2>2. CASE file.kind \notin ConnectorKinds
    <3>1. Goto(r, "idle", None)
      BY <2>2 DEF Upload, Finish
    <3> QED BY <1>5, <3>1, Went DEF IInv
  <2> QED BY <2>1, <2>2
<1>8. RecordsInv' /\ ErrorsInv'
  BY DEF IInv, RecordsInv, ErrorsInv, Upload
<1> QED BY <1>5, <1>6, <1>7, <1>8 DEF IInv, Upload

LEMMA StoreKeeps ==
  ASSUME IInv, NEW r \in Slots, StoreErrors(r)
  PROVE  IInv' /\ FilesStay
<1> DEFINE old == task[r]
           i == old.import
           row == [imports[i] EXCEPT !.mapping = old.mapping, !.status = "awaiting_approval"]
<1>1. TaskOK(r, "clearing", old)
  BY DEF StoreErrors, IInv, TasksInv
<1>2. /\ i \in DOMAIN imports /\ old.issues \subseteq IssueSet /\ old.cleared \subseteq IssueSet
      /\ Mapped(i, old.mapping)
  BY <1>1, TaskFields DEF TaskOK
<1>3. /\ row \in ImportRecords /\ row.file = imports[i].file
      /\ row.mapping = old.mapping
  BY <1>2, FileTyped DEF ImportRecords, Statuses, Mapped
<1>4. imports' = [imports EXCEPT ![i] = row]
  BY <1>2 DEF StoreErrors
<1> HIDE DEF row
<1>5. /\ imports' \in Seq(ImportRecords) /\ Len(imports') = Len(imports)
      /\ DOMAIN imports' = DOMAIN imports
      /\ imports'[i] = row /\ \A k \in DOMAIN imports \ {i} : imports'[k] = imports[k]
  BY <1>2, <1>3, <1>4, ExceptSeq DEF IInv, ImportsInv
<1>6. FilesStay
  BY <1>3, <1>5 DEF FilesStay
<1>7. ImportsInv'
  <2>1. ASSUME NEW k \in DOMAIN imports', Awaiting(k)' PROVE Mapped(k, imports[k].mapping)'
    <3>1. CASE k = i
      BY <1>2, <1>3, <1>5, <1>6, <3>1, MappedAs
    <3>2. CASE k # i
      <4>1. imports'[k] = imports[k] /\ k \in DOMAIN imports /\ Mapped(k, imports[k].mapping)
        BY <1>5, <2>1, <3>2 DEF Awaiting, IInv, ImportsInv
      <4> QED BY <4>1, <1>6, SameMapped
    <3> QED BY <3>1, <3>2
  <2>2. Len(imports') <= MaxImports
    BY <1>5 DEF IInv, ImportsInv
  <2> QED BY <1>5, <2>1, <2>2 DEF ImportsInv
<1>8. TasksInv'
  <2>1. Goto(r, "idle", None)
    BY DEF StoreErrors, Finish
  <2> QED BY <1>6, <2>1, Went DEF IInv
<1>9. ErrorsInv'
  <2>1. (errors[i] \ old.cleared) \cup old.issues \subseteq IssueSet
    BY <1>2, FileTyped DEF IInv, ErrorsInv
  <2> QED BY <2>1 DEF StoreErrors, IInv, ErrorsInv
<1>10. RecordsInv'
  BY DEF IInv, RecordsInv, StoreErrors
<1> QED BY <1>6, <1>7, <1>8, <1>9, <1>10 DEF IInv, StoreErrors

LEMMA RejectKeeps ==
  ASSUME IInv, NEW r \in Slots, RejectWrite(r)
  PROVE  IInv' /\ FilesStay
<1>1. TaskOK(r, "rejecting", task[r])
  BY DEF RejectWrite, IInv, TasksInv
<1>2. task[r].import \in DOMAIN imports
  BY <1>1, TaskFields DEF TaskOK
<1>3. ImportsInv' /\ FilesStay
  BY <1>2, StatusKeeps DEF RejectWrite
<1>4. TasksInv'
  <2>1. Goto(r, "idle", None)
    BY DEF RejectWrite, Finish
  <2> QED BY <1>3, <2>1, Went DEF IInv
<1>5. RecordsInv' /\ ErrorsInv'
  BY DEF IInv, RecordsInv, ErrorsInv, RejectWrite
<1> QED BY <1>3, <1>4, <1>5 DEF IInv, RejectWrite

(* Steps that write the records.                                           *)
LEMMA CommitIs ==
  ASSUME IInv, NEW r \in Slots, CommitWrite(r)
  PROVE  LET i == task[r].import
             kind == imports[i].file.kind
             rows == RowsUnder(i, task[r].mapping)
             valid == task[r].valid
         IN  /\ r \in Clerks /\ pc[r] = "committing"
             /\ i \in DOMAIN imports /\ i \in Nat /\ Mapped(i, task[r].mapping)
             /\ RowsGood(kind, rows)
             /\ Sifted(kind, rows, valid)
             /\ records' = Written(i, kind, rows, valid, records)
<1>1. TaskOK(r, "committing", task[r])
  BY DEF CommitWrite, IInv, TasksInv
<1>2. task[r].import \in DOMAIN imports /\ Mapped(task[r].import, task[r].mapping)
  BY <1>1, TaskFields DEF TaskOK
<1>3. RowsGood(imports[task[r].import].file.kind, RowsUnder(task[r].import, task[r].mapping))
  BY <1>2, RowsTyped
<1> QED BY <1>1, <1>2, <1>3, FileTyped DEF TaskOK, CommitWrite

LEMMA CommitKeeps ==
  ASSUME IInv, NEW r \in Slots, CommitWrite(r)
  PROVE  IInv' /\ FilesStay
<1> DEFINE i == task[r].import
           kind == imports[i].file.kind
           rows == RowsUnder(i, task[r].mapping)
           valid == task[r].valid
<1>1. /\ r \in Clerks /\ i \in DOMAIN imports /\ i \in Nat /\ pc[r] = "committing"
      /\ RowsGood(kind, rows)
      /\ Sifted(kind, rows, valid)
      /\ records' = Written(i, kind, rows, valid, records)
  BY CommitIs
<1>2. records \in Records /\ IsFiniteSet(records.contracts)
  BY DEF IInv, RecordsInv
<1>3. ImportsInv' /\ FilesStay
  BY <1>1, StatusKeeps DEF CommitWrite
<1>4. RecordsInv'
  <2> HIDE DEF i, kind, rows, valid
  <2>1. Written(i, kind, rows, valid, records) \in Records
    BY <1>1, <1>2, WrittenTyped DEF RowsGood
  <2>2. IsFiniteSet(Written(i, kind, rows, valid, records).contracts)
    BY <1>1, <1>2, WrittenFinite DEF RowsGood, Sifted
  <2> QED BY <1>1, <2>1, <2>2 DEF RecordsInv
<1>5. TasksInv'
  <2>1. CASE task[r].queue = {i}
    <3>1. Goto(r, "idle", None)
      BY <2>1 DEF CommitWrite, Finish
    <3> QED BY <1>3, <3>1, Went DEF IInv
  <2>2. CASE task[r].queue # {i}
    <3> DEFINE queue == task[r].queue \ {i}
    <3>1. task[r].queue \in Queues
      <4>1. TaskOK(r, "committing", task[r])
        BY <1>1 DEF IInv, TasksInv
      <4> QED BY <4>1, TaskFields DEF TaskOK
    <3>2. queue \in Queues
      BY <2>2, <3>1 DEF Queues
    <3>3. PICK d : d = [queue |-> queue]
      OBVIOUS
    <3>4. d \in TasksAt("approving")
      BY <3>2, <3>3 DEF TasksAt
    <3>5. TaskOK(r, "approving", d) /\ "approving" \in Labels
      BY <1>1, <3>4 DEF TaskOK, Labels
    <3>6. TaskOK(r, "approving", d)'
      BY <1>3, <3>5, TaskStays
    <3>7. Goto(r, "approving", d)
      BY <2>2, <3>3 DEF CommitWrite
    <3> QED BY <1>3, <3>5, <3>6, <3>7, Went DEF IInv
  <2> QED BY <2>1, <2>2
<1>6. ErrorsInv'
  BY DEF IInv, ErrorsInv, CommitWrite
<1> QED BY <1>3, <1>4, <1>5, <1>6 DEF IInv, CommitWrite

LEMMA AddPlayerKeeps ==
  ASSUME IInv, NEW r \in Slots, NEW name \in HandNames, AddPlayer(r, name)
  PROVE  IInv' /\ FilesStay
<1> DEFINE others == [records.others EXCEPT !["players"][name] = @ + 1]
<1>1. records \in Records /\ name \in Names /\ "players" \in NamedKinds
  BY BoundsAssumption DEF IInv, RecordsInv, NamedKinds
<1>2. others \in [NamedKinds -> [Names -> Nat]]
  BY <1>1, RecordsOf
<1>3. records' = [records EXCEPT !.others = others]
  BY <1>1 DEF AddPlayer
<1> HIDE DEF others
<1>4. /\ records' \in Records
      /\ records'.imported = records.imported /\ records'.contracts = records.contracts
  <2>1. records' \in Records
    BY <1>1, <1>2, <1>3 DEF Records
  <2> QED BY <1>1, <1>3, <2>1, RecordsOf
<1>5. FilesStay
  BY FilesOfSame DEF AddPlayer
<1>6. TasksInv'
  BY <1>5, TasksKept DEF AddPlayer, IInv
<1>7. RecordsInv'
  BY <1>4 DEF IInv, RecordsInv
<1>8. ImportsInv' /\ ErrorsInv'
  BY DEF IInv, ImportsInv, ErrorsInv, Awaiting, Mapped, RowsUnder, FromConnector, AddPlayer
<1> QED BY <1>5, <1>6, <1>7, <1>8 DEF IInv, AddPlayer

LEMMA TerminateKeeps ==
  ASSUME IInv, NEW r \in Slots, NEW c \in records.contracts, Terminate(r, c)
  PROVE  IInv' /\ FilesStay
<1> DEFINE ended == [c EXCEPT !.active = FALSE]
           contracts == (records.contracts \ {c}) \cup {ended}
<1>1. records \in Records /\ IsFiniteSet(records.contracts) /\ c \in Contracts
  BY RecordsOf DEF IInv, RecordsInv
<1>2. ended \in Contracts
  BY <1>1 DEF Contracts
<1> HIDE DEF ended
<1>3. records' = [records EXCEPT !.contracts = contracts]
  BY DEF Terminate, ended
<1>4. contracts \subseteq Contracts
  BY <1>1, <1>2, RecordsOf
<1>5. IsFiniteSet(contracts)
  <2>1. IsFiniteSet(records.contracts \ {c})
    BY <1>1, FS_Difference, FS_Subset
  <2> QED BY <2>1, FS_Singleton, FS_Union
<1> HIDE DEF contracts
<1>6. /\ records' \in Records
      /\ records'.contracts = contracts
  <2>1. records' \in Records
    BY <1>1, <1>3, <1>4 DEF Records
  <2> QED BY <1>1, <1>3, <2>1, RecordsOf
<1>7. FilesStay
  BY FilesOfSame DEF Terminate
<1>8. TasksInv'
  BY <1>7, TasksKept DEF Terminate, IInv
<1>9. RecordsInv'
  BY <1>5, <1>6 DEF RecordsInv
<1>10. ImportsInv' /\ ErrorsInv'
  BY DEF IInv, ImportsInv, ErrorsInv, Awaiting, Mapped, RowsUnder, FromConnector, Terminate
<1> QED BY <1>7, <1>8, <1>9, <1>10 DEF IInv, Terminate

-----------------------------------------------------------------------------
(* The theorems.                                                           *)

LEMMA InitIInv == Init => IInv
<1> SUFFICES ASSUME Init PROVE IInv
  OBVIOUS
<1>1. ImportsInv
  <2>1. Len(<<>>) = 0 /\ <<>> \in Seq(ImportRecords) /\ DOMAIN <<>> = {}
    OBVIOUS
  <2> QED BY <2>1, BoundsAssumption DEF Init, ImportsInv
<1>2. ErrorsInv
  BY DEF Init, ErrorsInv
<1>3. RecordsInv
  BY RecordsAssumption, FS_EmptySet DEF Init, RecordsInv
<1>4. TasksInv
  BY DEF Init, TasksInv
<1> QED BY <1>1, <1>2, <1>3, <1>4, DatabasesAssumption DEF Init, IInv

LEMMA StutterKeeps == ASSUME IInv, UNCHANGED vars PROVE IInv' /\ FilesStay
<1>1. FilesStay
  BY FilesOfSame DEF vars
<1>2. TasksInv'
  BY <1>1, TasksKept DEF IInv, vars
<1>3. ImportsInv' /\ RecordsInv' /\ ErrorsInv'
  BY DEF IInv, ImportsInv, ErrorsInv, RecordsInv, Awaiting, Mapped, RowsUnder, FromConnector, vars
<1> QED BY <1>1, <1>2, <1>3 DEF IInv, vars

LEMMA NextKeeps == ASSUME IInv, [Next]_vars PROVE IInv' /\ FilesStay
<1>1. ASSUME NEW r \in Slots, NEW file \in Files, Upload(r, file) PROVE IInv' /\ FilesStay
  BY <1>1, UploadKeeps
<1>2. ASSUME NEW r \in Slots, NEW i \in DOMAIN imports, NEW m \in Mappings, ValidateRead(r, i, m)
      PROVE  IInv' /\ FilesStay
  BY <1>2, ValidateKeeps, FilesOfSame DEF ValidateRead
<1>3. ASSUME NEW r \in Slots, ClearErrors(r) PROVE IInv' /\ FilesStay
  BY <1>3, ClearKeeps, FilesOfSame DEF ClearErrors
<1>4. ASSUME NEW r \in Slots, StoreErrors(r) PROVE IInv' /\ FilesStay
  BY <1>4, StoreKeeps
<1>5. ASSUME NEW r \in Clerks, NEW queue, queue \subseteq DOMAIN imports, Approve(r, queue)
      PROVE  IInv' /\ FilesStay
  BY <1>5, ApproveKeeps, FilesOfSame DEF Approve
<1>6. ASSUME NEW r \in Clerks, CommitRead(r) PROVE IInv' /\ FilesStay
  BY <1>6, CommitReadKeeps, FilesOfSame DEF CommitRead, Slots
<1>7. ASSUME NEW r \in Clerks, CommitWrite(r) PROVE IInv' /\ FilesStay
  BY <1>7, CommitKeeps DEF Slots
<1>8. ASSUME NEW r \in Slots, NEW i \in DOMAIN imports, RejectRead(r, i) PROVE IInv' /\ FilesStay
  BY <1>8, RejectReadKeeps, FilesOfSame DEF RejectRead
<1>9. ASSUME NEW r \in Slots, RejectWrite(r) PROVE IInv' /\ FilesStay
  BY <1>9, RejectKeeps
<1>10. ASSUME NEW r \in Slots, Abort(r) PROVE IInv' /\ FilesStay
  BY <1>10, AbortKeeps, FilesOfSame DEF Abort
<1>11. ASSUME NEW r \in Slots, NEW name \in HandNames, AddPlayer(r, name) PROVE IInv' /\ FilesStay
  BY <1>11, AddPlayerKeeps
<1>12. ASSUME NEW r \in Slots, NEW c \in records.contracts, Terminate(r, c) PROVE IInv' /\ FilesStay
  BY <1>12, TerminateKeeps
<1>13. CASE UNCHANGED vars
  BY <1>13, StutterKeeps
<1>14. ASSUME NEW r \in Clerks, ClerkStep(r) PROVE IInv' /\ FilesStay
  <2>1. CASE \E i \in DOMAIN imports : Approve(r, {i})
    <3>1. PICK i \in DOMAIN imports : Approve(r, {i})
      BY <2>1
    <3>2. {i} \subseteq DOMAIN imports
      OBVIOUS
    <3> QED BY <3>1, <3>2, <1>5
  <2>2. CASE Approve(r, Bundle)
    <3>1. Bundle \subseteq DOMAIN imports
      BY DEF Bundle
    <3> QED BY <2>2, <3>1, <1>5
  <2> QED BY <2>1, <2>2, <1>14, <1>6, <1>7 DEF ClerkStep
<1>15. ASSUME NEW r \in Slots, ReviewerStep(r) PROVE IInv' /\ FilesStay
  BY <1>15, <1>1, <1>2, <1>3, <1>4, <1>8, <1>9, <1>11, <1>12 DEF ReviewerStep
<1> QED BY <1>10, <1>13, <1>14, <1>15 DEF Next

LEMMA TypeFromIInv == IInv => TypeOK
<1> SUFFICES ASSUME IInv PROVE TypeOK
  OBVIOUS
<1>1. \A r \in Slots : pc[r] # "idle" => task[r] \in TasksAt(pc[r])
  BY DEF IInv, TasksInv, TaskOK
<1> QED BY <1>1 DEF IInv, ImportsInv, ErrorsInv, RecordsInv, TasksInv, TypeOK

(* Every step of every request keeps the invariant the theorems below     *)
(* rest on: what is stored and what each request carries agree.            *)
THEOREM Inductive == Spec => []IInv
<1>1. IInv /\ [Next]_vars => IInv'
  BY NextKeeps
<1> QED BY <1>1, InitIInv, PTL DEF Spec

(* The imports, their errors, the records they write and what a request    *)
(* carries from its reading to its writing are of the right type.          *)
THEOREM TypeCorrect == Spec => []TypeOK
BY Inductive, TypeFromIInv, PTL

-----------------------------------------------------------------------------
(* What contracts and connector rows have to do with their imports.        *)

LEMMA RecordsChange ==
  ASSUME [Next]_vars, records' # records
  PROVE  \/ \E r \in Clerks : CommitWrite(r)
         \/ \E r \in Slots, name \in HandNames : AddPlayer(r, name)
         \/ \E r \in Slots, c \in records.contracts : Terminate(r, c)
<1>1. CASE UNCHANGED vars
  BY <1>1 DEF vars
<1>2. ASSUME NEW r \in Clerks, ClerkStep(r) PROVE CommitWrite(r)
  BY <1>2 DEF ClerkStep, Approve, CommitRead
<1>3. ASSUME NEW r \in Slots, ReviewerStep(r)
      PROVE  \/ \E name \in HandNames : AddPlayer(r, name)
             \/ \E c \in records.contracts : Terminate(r, c)
  BY <1>3 DEF ReviewerStep, Upload, ValidateRead, ClearErrors, StoreErrors, RejectRead, RejectWrite
<1>4. ASSUME NEW r \in Slots, Abort(r) PROVE FALSE
  BY <1>4 DEF Abort
<1> QED BY <1>1, <1>2, <1>3, <1>4 DEF Next

(* The rows of a contract's file under some mapping are the contract's.    *)
WholeUnder(c, m) ==
  LET rows == RowsUnder(c.import, m)
      about == {n \in DOMAIN rows : rows[n].name = c.player}
  IN  /\ rows # None
      /\ c.seasons = {<<rows[n].key, rows[n].value>> : n \in about}
      /\ \A n \in about : rows[n].sound
      /\ \A n, k \in about : rows[n].key = rows[k].key => n = k
Whole(c) == c.import \in DOMAIN imports /\ \E m \in Mappings : WholeUnder(c, m)
WholeInv == \A c \in records.contracts : Whole(c)

LEMMA WholeStays ==
  ASSUME FilesStay, NEW d, Whole(d), NEW c,
         c.player = d.player, c.seasons = d.seasons, c.import = d.import
  PROVE  Whole(c)'
<1>1. PICK m \in Mappings : WholeUnder(d, m)
  BY DEF Whole
<1>2. d.import \in DOMAIN imports /\ d.import \in DOMAIN imports'
  BY DEF Whole, FilesStay
<1>3. RowsUnder(d.import, m)' = RowsUnder(d.import, m)
  BY <1>2 DEF FilesStay, RowsUnder
<1>4. WholeUnder(c, m)'
  <2> DEFINE rows == RowsUnder(d.import, m)
  <2>1. RowsUnder(c.import, m)' = rows
    BY <1>3 DEF RowsUnder
  <2> HIDE DEF rows
  <2>2. /\ rows # None
        /\ LET about == {n \in DOMAIN rows : rows[n].name = c.player}
           IN  /\ c.seasons = {<<rows[n].key, rows[n].value>> : n \in about}
               /\ \A n \in about : rows[n].sound
               /\ \A n, k \in about : rows[n].key = rows[k].key => n = k
    BY <1>1 DEF WholeUnder, rows
  <2> QED BY <2>1, <2>2 DEF WholeUnder
<1> QED BY <1>2, <1>4 DEF Whole

LEMMA WholeCommitted ==
  ASSUME IInv, WholeInv, NEW r \in Slots, CommitWrite(r)
  PROVE  WholeInv'
<1> DEFINE i == task[r].import
           m == task[r].mapping
           kind == imports[i].file.kind
           rows == RowsUnder(i, m)
           valid == task[r].valid
<1>1. /\ i \in DOMAIN imports /\ Mapped(i, m) /\ RowsGood(kind, rows)
      /\ Sifted(kind, rows, valid)
      /\ records' = Written(i, kind, rows, valid, records)
  BY CommitIs
<1>2. FilesStay /\ records \in Records
  BY CommitKeeps DEF IInv, RecordsInv
<1>3. ASSUME NEW c \in records.contracts PROVE Whole(c)'
  BY <1>2, WholeStays DEF WholeInv
<1>4. CASE kind # "contracts"
  <2>1. records'.contracts = records.contracts
    BY <1>1, <1>2, <1>4, WrittenElsewhere DEF RowsGood
  <2> QED BY <2>1, <1>3 DEF WholeInv
<1>5. CASE kind = "contracts"
  <2> DEFINE made(n) == NewContract(i, rows, valid, rows[n].name, Cardinality(records.contracts))
  <2>1. records'.contracts = records.contracts \cup {made(n) : n \in valid}
    BY <1>1, <1>2, <1>5, WrittenContracts
  <2>2. ASSUME NEW n \in valid PROVE Whole(made(n))
    <3> DEFINE name == rows[n].name
               about == {k \in DOMAIN rows : rows[k].name = name}
    <3>1. About(rows, valid, name) = about
      BY <1>1, <1>5, <2>2 DEF About, Sifted
    <3>2. /\ \A k \in about : rows[k].sound
          /\ \A k, j \in about : rows[k].key = rows[j].key => k = j
      BY <1>1, <1>5, <2>2 DEF Sifted
    <3>3. /\ made(n).player = name /\ made(n).import = i
          /\ made(n).seasons = {<<rows[k].key, rows[k].value>> : k \in about}
      BY <3>1 DEF NewContract
    <3>4. rows # None /\ m \in Mappings
      BY <1>1 DEF Mapped
    <3> HIDE DEF i, m
    <3>5. WholeUnder(made(n), m)
      BY <3>2, <3>3, <3>4 DEF WholeUnder
    <3> QED BY <3>3, <3>4, <3>5, <1>1 DEF Whole
  <2>3. ASSUME NEW c \in {made(n) : n \in valid} PROVE Whole(c)'
    <3>1. Whole(c)
      BY <2>2
    <3> QED BY <3>1, <1>2, WholeStays
  <2> QED BY <2>1, <2>3, <1>3 DEF WholeInv
<1> QED BY <1>4, <1>5

LEMMA WholeKept ==
  ASSUME IInv, WholeInv, [Next]_vars
  PROVE  WholeInv'
<1>1. FilesStay
  BY NextKeeps
<1>2. ASSUME records'.contracts = records.contracts PROVE WholeInv'
  BY <1>1, <1>2, WholeStays DEF WholeInv
<1>3. CASE \E r \in Clerks : CommitWrite(r)
  BY <1>3, WholeCommitted DEF Slots
<1>4. CASE \E r \in Slots, name \in HandNames : AddPlayer(r, name)
  BY <1>2, <1>4, RecordsOf DEF AddPlayer, IInv, RecordsInv
<1>5. CASE \E r \in Slots, c \in records.contracts : Terminate(r, c)
  <2>1. PICK r \in Slots, c \in records.contracts : Terminate(r, c)
    BY <1>5
  <2> DEFINE ended == [c EXCEPT !.active = FALSE]
  <2>2. c \in Contracts /\ Whole(c)
    BY RecordsOf DEF IInv, RecordsInv, WholeInv
  <2>3. ended.player = c.player /\ ended.seasons = c.seasons /\ ended.import = c.import
    BY <2>2 DEF Contracts
  <2>4. records'.contracts = (records.contracts \ {c}) \cup {ended}
    BY <2>1, RecordsOf DEF Terminate, IInv, RecordsInv
  <2> HIDE DEF ended
  <2>5. PICK e : e = ended
    OBVIOUS
  <2>6. Whole(e)'
    BY <1>1, <2>2, <2>3, <2>5, WholeStays
  <2> QED BY <1>1, <2>4, <2>5, <2>6, WholeStays DEF WholeInv
<1> QED BY <1>2, <1>3, <1>4, <1>5, RecordsChange

(* A contract made by an import has every season its file gave the player, *)
(* each once and all of them sound.                                        *)
THEOREM WholeContracts == Spec => []ContractsWhole
<1>1. Init => WholeInv
  BY RecordsAssumption DEF Init, WholeInv
<1>2. IInv /\ WholeInv /\ [Next]_vars => WholeInv'
  BY WholeKept
<1>3. WholeInv => ContractsWhole
  BY DEF WholeInv, Whole, WholeUnder, ContractsWhole
<1> QED BY <1>1, <1>2, <1>3, Inductive, PTL DEF Spec

(* A connector row and the import it is stamped with.                      *)
Stamped(key, ext) ==
  LET rows == RowsUnder(ext.import, Identity1)
      partial == imports[ext.import].file.kind = "ext_roster"
      Says(cell, known) == cell = known \/ (partial /\ cell = None)
  IN  \E n \in DOMAIN rows :
        /\ rows[n].key = key
        /\ Says(rows[n].value, ext.bio) /\ Says(rows[n].extra, ext.draft)
Traced(key, ext) == ext.import \in DOMAIN imports /\ Stamped(key, ext)
TracedInv ==
  \A key \in Keys : records.ext[key] # None =>
    records.ext[key].import \in records.sources /\ Traced(key, records.ext[key])

LEMMA TracedStays ==
  ASSUME FilesStay, NEW key, NEW ext, Traced(key, ext)
  PROVE  Traced(key, ext)'
<1>1. ext.import \in DOMAIN imports /\ ext.import \in DOMAIN imports'
  BY DEF Traced, FilesStay
<1>2. /\ RowsUnder(ext.import, Identity1)' = RowsUnder(ext.import, Identity1)
      /\ imports'[ext.import].file.kind = imports[ext.import].file.kind
  BY <1>1 DEF FilesStay, RowsUnder
<1>3. Stamped(key, ext)'
  BY <1>2 DEF Traced, Stamped
<1> QED BY <1>1, <1>3 DEF Traced

LEMMA TracedSame ==
  ASSUME FilesStay, TracedInv, records'.ext = records.ext, records.sources \subseteq records'.sources
  PROVE  TracedInv'
<1> SUFFICES ASSUME NEW key \in Keys, records'.ext[key] # None
             PROVE  /\ records'.ext[key].import \in records'.sources
                    /\ Traced(key, records.ext[key])'
  BY DEF TracedInv
<1>1. PICK ext : ext = records.ext[key]
  OBVIOUS
<1>2. ext.import \in records.sources /\ Traced(key, ext)
  BY <1>1 DEF TracedInv, Traced, Stamped
<1>3. Traced(key, ext)'
  BY <1>2, TracedStays
<1> QED BY <1>1, <1>2, <1>3 DEF Traced, Stamped

(* What an upsert writes under a key.                                      *)
LEMMA UpsertCommitted ==
  ASSUME IInv, NEW r \in Slots, CommitWrite(r), imports[task[r].import].file.kind \in ConnectorKinds
  PROVE  LET i == task[r].import
             kind == imports[i].file.kind
             rows == RowsUnder(i, Identity1)
         IN  /\ i \in DOMAIN imports
             /\ records'.sources = records.sources \cup {i}
             /\ \A key \in Keys :
                  \/ records'.ext[key] = records.ext[key]
                  \/ \E n \in DOMAIN rows :
                       /\ rows[n].key = key
                       /\ records'.ext[key] =
                            IF kind = "ext_roster" THEN Fill(records.ext[key], Incoming(i, rows[n]))
                            ELSE Incoming(i, rows[n])
<1> DEFINE i == task[r].import
           kind == imports[i].file.kind
           rows == RowsUnder(i, task[r].mapping)
           valid == task[r].valid
<1>1. /\ i \in DOMAIN imports /\ Mapped(i, task[r].mapping)
      /\ Sifted(kind, rows, valid)
      /\ records' = Written(i, kind, rows, valid, records)
  BY CommitIs
<1>2. task[r].mapping = Identity1 /\ valid \subseteq DOMAIN rows
  BY <1>1 DEF Mapped, FromConnector, Sifted
<1> HIDE DEF i, kind, rows, valid
<1>3. kind \in ConnectorKinds
  BY DEF i, kind
<1>4. records' = Upsert(i, kind, rows, valid, records)
  BY <1>1, <1>3, WrittenIs
<1>5. records'.sources = records.sources \cup {i} /\ records'.ext = ExtAfter(i, kind, rows, valid, records)
  BY <1>4, UpsertIs DEF IInv, RecordsInv
<1>6. ASSUME NEW key \in Keys
      PROVE  \/ records'.ext[key] = records.ext[key]
             \/ \E n \in DOMAIN rows :
                  /\ rows[n].key = key
                  /\ records'.ext[key] =
                       IF kind = "ext_roster" THEN Fill(records.ext[key], Incoming(i, rows[n]))
                       ELSE Incoming(i, rows[n])
  <2>1. records'.ext[key] = ExtCell(i, kind, rows, valid, records, key)
    BY <1>5 DEF ExtAfter
  <2>2. CASE Here(rows, valid, key) = {}
    BY <2>1, <2>2 DEF ExtCell
  <2>3. CASE Here(rows, valid, key) # {}
    <3>1. PICK n : n = One(Here(rows, valid, key))
      OBVIOUS
    <3>2. n \in DOMAIN rows /\ rows[n].key = key
      BY <1>2, <2>3, <3>1, OneOf DEF Here
    <3>3. records'.ext[key] =
            IF kind = "ext_roster" THEN Fill(records.ext[key], Incoming(i, rows[n]))
            ELSE Incoming(i, rows[n])
      BY <2>1, <2>3, <3>1 DEF ExtCell, Overwrite
    <3> QED BY <3>2, <3>3
  <2> QED BY <2>2, <2>3
<1> QED BY <1>1, <1>2, <1>5, <1>6 DEF i, kind, rows

LEMMA TracedCommitted ==
  ASSUME IInv, TracedInv, NEW r \in Slots, CommitWrite(r)
  PROVE  TracedInv'
<1> DEFINE i == task[r].import
           kind == imports[i].file.kind
           rows == RowsUnder(i, Identity1)
<1>1. FilesStay
  BY CommitKeeps
<1>2. CASE kind \notin ConnectorKinds
  <2>1. kind \in Kinds /\ records \in Records
        /\ records' = Written(i, kind, RowsUnder(i, task[r].mapping), task[r].valid, records)
    BY CommitIs DEF RowsGood, IInv, RecordsInv
  <2>2. records'.ext = records.ext /\ records'.sources = records.sources
    BY <1>2, <2>1, WrittenElsewhere
  <2> QED BY <1>1, <2>2, TracedSame
<1>3. CASE kind \in ConnectorKinds
  <2>1. i \in DOMAIN imports /\ records'.sources = records.sources \cup {i}
    BY <1>3, UpsertCommitted
  <2> SUFFICES ASSUME NEW key \in Keys, records'.ext[key] # None
               PROVE  /\ records'.ext[key].import \in records'.sources
                      /\ Traced(key, records.ext[key])'
    BY DEF TracedInv
  <2>2. PICK ext : ext = records'.ext[key]
    OBVIOUS
  <2>3. CASE ext = records.ext[key]
    <3>1. ext.import \in records.sources /\ Traced(key, ext)
      BY <2>2, <2>3 DEF TracedInv, Traced, Stamped
    <3>2. Traced(key, ext)'
      BY <1>1, <3>1, TracedStays
    <3> QED BY <2>1, <2>2, <3>1, <3>2 DEF Traced, Stamped
  <2>4. CASE ext # records.ext[key]
    <3>1. PICK n \in DOMAIN rows :
            /\ rows[n].key = key
            /\ ext = IF kind = "ext_roster" THEN Fill(records.ext[key], Incoming(i, rows[n]))
                     ELSE Incoming(i, rows[n])
      BY <1>3, <2>2, <2>4, UpsertCommitted
    <3>2. /\ ext.import = i
          /\ kind # "ext_roster" => ext.bio = rows[n].value /\ ext.draft = rows[n].extra
          /\ kind = "ext_roster" =>
               /\ rows[n].value = ext.bio \/ rows[n].value = None
               /\ rows[n].extra = ext.draft \/ rows[n].extra = None
      BY <3>1 DEF Fill, Incoming
    <3>3. Stamped(key, ext)
      BY <3>1, <3>2 DEF Stamped
    <3>4. Traced(key, ext)
      BY <2>1, <3>2, <3>3 DEF Traced
    <3>5. Traced(key, ext)'
      BY <1>1, <3>4, TracedStays
    <3> QED BY <2>1, <2>2, <3>2, <3>5 DEF Traced, Stamped
  <2> QED BY <2>3, <2>4
<1> QED BY <1>2, <1>3

LEMMA TracedKept ==
  ASSUME IInv, TracedInv, [Next]_vars
  PROVE  TracedInv'
<1>1. FilesStay /\ records \in Records
  BY NextKeeps DEF IInv, RecordsInv
<1>2. ASSUME records'.ext = records.ext, records'.sources = records.sources PROVE TracedInv'
  BY <1>1, <1>2, TracedSame
<1>3. CASE \E r \in Clerks : CommitWrite(r)
  BY <1>3, TracedCommitted DEF Slots
<1>4. CASE \E r \in Slots, name \in HandNames : AddPlayer(r, name)
  BY <1>1, <1>2, <1>4, RecordsOf DEF AddPlayer
<1>5. CASE \E r \in Slots, c \in records.contracts : Terminate(r, c)
  BY <1>1, <1>2, <1>5, RecordsOf DEF Terminate
<1> QED BY <1>2, <1>3, <1>4, <1>5, RecordsChange

(* A connector row says what the import it is stamped with says, and the   *)
(* import's source is on record.                                           *)
THEOREM TracedRows == Spec => []Provenance
<1>1. Init => TracedInv
  BY RecordsAssumption DEF Init, TracedInv
<1>2. IInv /\ TracedInv /\ [Next]_vars => TracedInv'
  BY TracedKept
<1>3. TracedInv => Provenance
  BY DEF TracedInv, Traced, Stamped, Provenance
<1> QED BY <1>1, <1>2, <1>3, Inductive, PTL DEF Spec

(* A roster's commit blanks no column of a row that another dataset had    *)
(* filled.                                                                 *)
THEOREM RosterFills == Spec => RosterErasesNothing
<1> DEFINE Filled(key) ==
      LET old == records.ext[key]
          new == records'.ext[key]
      IN  old # None /\ new # old /\ imports[new.import].file.kind = "ext_roster" =>
            /\ old.bio # None => new.bio # None
            /\ old.draft # None => new.draft # None
<1>1. ASSUME IInv, [Next]_vars PROVE \A key \in Keys : Filled(key)
  <2> SUFFICES ASSUME NEW key \in Keys, records'.ext[key] # records.ext[key] PROVE Filled(key)
    OBVIOUS
  <2>1. records \in Records /\ records' # records
    BY <1>1 DEF IInv, RecordsInv
  <2>2. PICK r \in Clerks : CommitWrite(r)
    BY <1>1, <2>1, RecordsChange, RecordsOf DEF AddPlayer, Terminate
  <2> DEFINE i == task[r].import
             kind == imports[i].file.kind
             rows == RowsUnder(i, Identity1)
  <2>3. kind \in ConnectorKinds
    <3>1. kind \in Kinds
          /\ records' = Written(i, kind, RowsUnder(i, task[r].mapping), task[r].valid, records)
      BY <1>1, <2>2, CommitIs DEF RowsGood, Slots
    <3> QED BY <2>1, <3>1, WrittenElsewhere
  <2>4. PICK n \in DOMAIN rows :
          records'.ext[key] = IF kind = "ext_roster" THEN Fill(records.ext[key], Incoming(i, rows[n]))
                              ELSE Incoming(i, rows[n])
    BY <1>1, <2>2, <2>3, UpsertCommitted DEF Slots
  <2> QED BY <2>4 DEF Fill, Incoming
<1>2. IInv /\ [Next]_vars => [\A key \in Keys : Filled(key)]_vars
  BY <1>1
<1> QED BY <1>2, Inductive, PTL DEF Spec, RosterErasesNothing

-----------------------------------------------------------------------------
(* Commits one at a time.                                                  *)

OneClerk == \A r, q \in Clerks : r = q

(* What a commit is about to write is still fresh.                         *)
FreshInv ==
  /\ Once(records)
  /\ OneActive(records)
  /\ \A r \in Slots : pc[r] = "committing" =>
       Fresh(imports[task[r].import].file.kind, RowsUnder(task[r].import, task[r].mapping),
             task[r].valid, records)

(* Edits by hand leave fresh rows fresh.                                   *)
StaysFresh ==
  /\ records'.imported = records.imported
  /\ \A name \in Names : Signed(name, records') => Signed(name, records)

LEMMA FreshStays ==
  ASSUME StaysFresh, NEW kind, NEW rows, NEW valid, Sifted(kind, rows, valid),
         Fresh(kind, rows, valid, records)
  PROVE  Fresh(kind, rows, valid, records')
<1>1. kind \in NamedKinds => \A n \in valid : records'.imported[kind][rows[n].name] = 0
  BY DEF Fresh, StaysFresh
<1>2. kind = "contracts" => \A n \in valid : rows[n].name \in Names
  BY DEF Sifted, Complete, ConnectorKinds
<1>3. kind = "contracts" => \A n \in valid : ~Signed(rows[n].name, records')
  BY <1>2 DEF Fresh, StaysFresh
<1> QED BY <1>1, <1>3 DEF Fresh

LEMMA EditsStayFresh ==
  ASSUME IInv, NEW r \in Slots,
         \/ \E name \in HandNames : AddPlayer(r, name)
         \/ \E c \in records.contracts : Terminate(r, c)
  PROVE  StaysFresh /\ (OneActive(records) => OneActive(records'))
<1>1. records \in Records
  BY DEF IInv, RecordsInv
<1>2. CASE \E name \in HandNames : AddPlayer(r, name)
  <2>1. records'.imported = records.imported /\ records'.contracts = records.contracts
    BY <1>1, <1>2, RecordsOf DEF AddPlayer
  <2> QED BY <2>1 DEF StaysFresh, Signed, OneActive
<1>3. CASE \E c \in records.contracts : Terminate(r, c)
  <2>1. PICK c \in records.contracts : Terminate(r, c)
    BY <1>3
  <2> DEFINE ended == [c EXCEPT !.active = FALSE]
  <2>2. ended.active = FALSE
    BY <1>1, RecordsOf DEF Contracts
  <2>3. /\ records'.imported = records.imported
        /\ records'.contracts = (records.contracts \ {c}) \cup {ended}
    BY <1>1, <2>1, RecordsOf DEF Terminate
  <2> HIDE DEF ended
  <2> QED BY <2>2, <2>3 DEF StaysFresh, Signed, OneActive
<1> QED BY <1>2, <1>3

(* A request about to commit has read, or was about to before.             *)
LEMMA AboutToCommit ==
  ASSUME IInv, [Next]_vars, NEW r \in Slots, pc'[r] = "committing"
  PROVE  \/ CommitRead(r)
         \/ pc[r] = "committing" /\ task'[r] = task[r]
<1>1. pc \in [Slots -> {"idle"} \cup Labels] /\ DOMAIN task = Slots
  BY DEF IInv, TasksInv
<1>2. ASSUME NEW q \in Slots, NEW label, NEW data, label # "committing", Goto(q, label, data)
      PROVE  pc[r] = "committing" /\ task'[r] = task[r]
  BY <1>1, <1>2 DEF Goto
<1>3. ASSUME NEW q \in Clerks, ClerkStep(q)
      PROVE  CommitRead(r) \/ (pc[r] = "committing" /\ task'[r] = task[r])
  <2>1. CASE \E queue : Approve(q, queue)
    BY <1>2, <2>1 DEF Approve, Slots
  <2>2. CASE CommitRead(q)
    BY <1>1, <2>2 DEF CommitRead, Goto
  <2>3. CASE CommitWrite(q)
    BY <1>2, <2>3 DEF CommitWrite, Finish, Slots
  <2> QED BY <1>3, <2>1, <2>2, <2>3 DEF ClerkStep
<1>4. ASSUME NEW q \in Slots, ReviewerStep(q)
      PROVE  pc[r] = "committing" /\ task'[r] = task[r]
  <2>1. CASE \E file \in Files : Upload(q, file)
    BY <1>2, <2>1 DEF Upload, Finish
  <2>2. CASE \E i \in DOMAIN imports, m \in Mappings : ValidateRead(q, i, m)
    BY <1>2, <2>2 DEF ValidateRead
  <2>3. CASE ClearErrors(q) \/ StoreErrors(q)
    BY <1>2, <2>3 DEF ClearErrors, StoreErrors, Finish
  <2>4. CASE (\E i \in DOMAIN imports : RejectRead(q, i)) \/ RejectWrite(q)
    BY <1>2, <2>4 DEF RejectRead, RejectWrite, Finish
  <2>5. CASE \/ \E name \in HandNames : AddPlayer(q, name)
             \/ \E c \in records.contracts : Terminate(q, c)
    BY <2>5 DEF AddPlayer, Terminate
  <2> QED BY <1>4, <2>1, <2>2, <2>3, <2>4, <2>5 DEF ReviewerStep
<1>5. ASSUME NEW q \in Slots, Abort(q)
      PROVE  pc[r] = "committing" /\ task'[r] = task[r]
  BY <1>2, <1>5 DEF Abort, Finish
<1>6. CASE UNCHANGED vars
  BY <1>6 DEF vars
<1> QED BY <1>3, <1>4, <1>5, <1>6 DEF Next

LEMMA ReadIsFresh ==
  ASSUME IInv, NEW r \in Slots, CommitRead(r)
  PROVE  Fresh(imports'[task'[r].import].file.kind, imports'[task'[r].import].file.rows[task'[r].mapping],
               task'[r].valid, records')
<1>1. TaskOK(r, "approving", task[r]) /\ DOMAIN task = Slots
  BY DEF CommitRead, IInv, TasksInv
<1>2. PICK i \in Foremost(task[r].queue) :
        /\ Awaiting(i)
        /\ Goto(r, "committing", [queue |-> task[r].queue, import |-> i,
                                  mapping |-> imports[i].mapping, valid |-> Approved(i)])
  BY DEF CommitRead
<1>3. i \in DOMAIN imports /\ Mapped(i, imports[i].mapping)
  BY <1>1, <1>2, TaskFields DEF TaskOK, Foremost, Queues, IInv, ImportsInv
<1>4. RowsGood(imports[i].file.kind, RowsUnder(i, imports[i].mapping)) /\ records \in Records
  BY <1>3, RowsTyped DEF IInv, RecordsInv
<1>5. Fresh(imports[i].file.kind, RowsUnder(i, imports[i].mapping), Approved(i), records)
  BY <1>4, ValidRowsSifted DEF Approved, Outcome
<1>6. /\ task'[r].import = i /\ task'[r].mapping = imports[i].mapping
      /\ task'[r].valid = Approved(i)
  BY <1>1, <1>2 DEF Goto
<1> QED BY <1>5, <1>6 DEF CommitRead, RowsUnder

LEMMA FreshCommitted ==
  ASSUME IInv, OneClerk, FreshInv, NEW r \in Slots, CommitWrite(r)
  PROVE  Once(records') /\ OneActive(records') /\ \A q \in Slots : pc'[q] # "committing"
<1> DEFINE i == task[r].import
           kind == imports[i].file.kind
           rows == RowsUnder(i, task[r].mapping)
           valid == task[r].valid
<1>1. /\ r \in Clerks /\ pc[r] = "committing"
      /\ RowsGood(kind, rows) /\ Sifted(kind, rows, valid)
      /\ records' = Written(i, kind, rows, valid, records)
  BY CommitIs
<1>2. Fresh(kind, rows, valid, records) /\ Once(records) /\ OneActive(records)
  BY <1>1 DEF FreshInv
<1>3. \A q \in Slots \ {r} : pc[q] # "committing"
  <2>1. \A q \in Slots : pc[q] = "committing" => q \in Clerks
    BY DEF IInv, TasksInv, TaskOK
  <2> QED BY <1>1, <2>1 DEF OneClerk
<1>4. \A q \in Slots : pc'[q] # "committing"
  BY <1>3 DEF CommitWrite, Finish, Goto, IInv, TasksInv
<1> HIDE DEF i, kind, rows, valid
<1>5. records \in Records /\ kind \in Kinds /\ rows \in Seq(Rows)
  BY <1>1 DEF IInv, RecordsInv, RowsGood
<1>6. Once(records') /\ OneActive(records')
  BY <1>1, <1>2, <1>5, WrittenOnce, WrittenActive
<1> QED BY <1>4, <1>6

LEMMA FreshKept ==
  ASSUME IInv, OneClerk, FreshInv, [Next]_vars
  PROVE  FreshInv'
<1>1. CASE \E r \in Clerks : CommitWrite(r)
  <2>1. Once(records') /\ OneActive(records') /\ \A q \in Slots : pc'[q] # "committing"
    BY <1>1, FreshCommitted DEF Slots
  <2> QED BY <2>1 DEF FreshInv, Once, OneActive
<1>2. CASE ~\E r \in Clerks : CommitWrite(r)
  <2>1. StaysFresh /\ OneActive(records')
    <3>1. CASE records' = records
      BY <3>1 DEF StaysFresh, FreshInv
    <3>2. CASE records' # records
      BY <1>2, <3>2, RecordsChange, EditsStayFresh DEF FreshInv
    <3> QED BY <3>1, <3>2
  <2>2. ASSUME NEW r \in Slots, pc'[r] = "committing"
        PROVE  Fresh(imports'[task'[r].import].file.kind,
                     imports'[task'[r].import].file.rows[task'[r].mapping], task'[r].valid, records')
    <3>1. CASE CommitRead(r)
      BY <3>1, ReadIsFresh
    <3>2. CASE pc[r] = "committing" /\ task'[r] = task[r]
      <4> DEFINE i == task[r].import
                 kind == imports[i].file.kind
                 rows == RowsUnder(i, task[r].mapping)
                 valid == task[r].valid
      <4>1. TaskOK(r, "committing", task[r]) /\ Fresh(kind, rows, valid, records)
        BY <3>2 DEF IInv, TasksInv, FreshInv
      <4>2. i \in DOMAIN imports /\ Sifted(kind, rows, valid)
        BY <4>1, TaskFields DEF TaskOK
      <4>3. imports'[i].file = imports[i].file
        BY <4>2, NextKeeps DEF FilesStay
      <4>4. Fresh(kind, rows, valid, records')
        <5> HIDE DEF kind, rows, valid
        <5> QED BY <2>1, <4>1, <4>2, FreshStays
      <4> QED BY <3>2, <4>3, <4>4 DEF RowsUnder
    <3> QED BY <2>2, <3>1, <3>2, AboutToCommit
  <2> QED BY <2>1, <2>2 DEF FreshInv, Once, OneActive, StaysFresh, RowsUnder
<1> QED BY <1>1, <1>2

(* While commits run one at a time, each record a commit is about to write *)
(* is still new when it is written.                                        *)
THEOREM FreshInductive == ASSUME OneClerk PROVE Spec => []FreshInv
<1>1. Init => FreshInv
  BY RecordsAssumption DEF Init, FreshInv, Once, OneActive
<1>2. IInv /\ FreshInv /\ [Next]_vars => FreshInv'
  BY FreshKept
<1> QED BY <1>1, <1>2, Inductive, PTL DEF Spec

(* While commits run one at a time, no name is imported twice, however     *)
(* many files were validated before the first of them was approved.        *)
THEOREM NamesOnce == ASSUME OneClerk PROVE Spec => []ImportedOnce
<1>1. FreshInv => ImportedOnce
  BY DEF FreshInv, Once, ImportedOnce
<1> QED BY <1>1, FreshInductive, PTL

(* While commits run one at a time, imports never give a player a second   *)
(* active contract.                                                        *)
THEOREM ActiveOnce == ASSUME OneClerk PROVE Spec => []OneActiveContract
<1>1. FreshInv => OneActiveContract
  BY DEF FreshInv, OneActive, OneActiveContract
<1> QED BY <1>1, FreshInductive, PTL

-----------------------------------------------------------------------------
(* The errors shown beside a mapping.                                      *)

Matching(issues, m) == \A issue \in issues : issue[2] = m

(* Nothing is stored of an import not yet made, a validation carries the   *)
(* errors of its own mapping, and what it has cleared is all there is.     *)
ReportInv ==
  exclusive =>
    /\ \A i \in DOMAIN imports : Matching(errors[i], imports[i].mapping)
    /\ \A i \in Imports \ DOMAIN imports : errors[i] = {}
    /\ \A r \in Slots : pc[r] \in {"validating", "clearing"} =>
         Matching(task[r].issues, task[r].mapping)
    /\ \A r \in Slots : pc[r] = "clearing" => errors[task[r].import] \subseteq task[r].cleared

(* Steps that leave the errors.                                            *)
LEMMA ReportStays ==
  ASSUME IInv, ReportInv, NEW r \in Slots, NEW label, NEW data, Goto(r, label, data),
         UNCHANGED <<exclusive, errors>>, DOMAIN imports \subseteq DOMAIN imports',
         \A i \in DOMAIN imports' :
           \/ i \in DOMAIN imports /\ imports'[i].mapping = imports[i].mapping
           \/ i \in Imports \ DOMAIN imports,
         label \in {"validating", "clearing"} => Matching(data.issues, data.mapping),
         label = "clearing" => errors[data.import] \subseteq data.cleared
  PROVE  ReportInv'
<1>1. pc \in [Slots -> {"idle"} \cup Labels] /\ DOMAIN task = Slots
  BY DEF IInv, TasksInv
<1>2. pc'[r] = label /\ task'[r] = data
  BY <1>1 DEF Goto
<1>3. \A q \in Slots \ {r} : pc'[q] = pc[q] /\ task'[q] = task[q]
  BY <1>1 DEF Goto
<1> SUFFICES ASSUME exclusive
             PROVE  /\ \A i \in DOMAIN imports' : Matching(errors'[i], imports'[i].mapping)
                    /\ \A i \in Imports \ DOMAIN imports' : errors'[i] = {}
                    /\ \A q \in Slots : pc'[q] \in {"validating", "clearing"} =>
                         Matching(task'[q].issues, task'[q].mapping)
                    /\ \A q \in Slots : pc'[q] = "clearing" =>
                         errors'[task'[q].import] \subseteq task'[q].cleared
  BY DEF ReportInv
<1>4. \A i \in DOMAIN imports' : Matching(errors'[i], imports'[i].mapping)
  BY DEF ReportInv, Matching
<1>5. \A i \in Imports \ DOMAIN imports' : errors'[i] = {}
  BY DEF ReportInv
<1>6. \A q \in Slots : pc'[q] \in {"validating", "clearing"} => Matching(task'[q].issues, task'[q].mapping)
  BY <1>2, <1>3 DEF ReportInv
<1>7. \A q \in Slots : pc'[q] = "clearing" => errors'[task'[q].import] \subseteq task'[q].cleared
  BY <1>2, <1>3 DEF ReportInv
<1> QED BY <1>4, <1>5, <1>6, <1>7

LEMMA ReportRead ==
  ASSUME IInv, ReportInv, NEW r \in Slots, NEW label, NEW data, Goto(r, label, data),
         UNCHANGED <<exclusive, imports, errors>>,
         label \in {"validating", "clearing"} => Matching(data.issues, data.mapping),
         label = "clearing" => errors[data.import] \subseteq data.cleared
  PROVE  ReportInv'
BY ReportStays

LEMMA ReportStatus ==
  ASSUME IInv, ReportInv, NEW r \in Slots, NEW label, NEW data, Goto(r, label, data),
         UNCHANGED <<exclusive, errors>>,
         NEW i \in DOMAIN imports, NEW s \in {"committed", "rejected"},
         imports' = [imports EXCEPT ![i].status = s],
         label \notin {"validating", "clearing"}
  PROVE  ReportInv'
<1>1. imports \in Seq(ImportRecords) /\ s \in Statuses
  BY DEF IInv, ImportsInv, Statuses
<1>2. /\ DOMAIN imports' = DOMAIN imports
      /\ \A k \in DOMAIN imports : imports'[k].mapping = imports[k].mapping
  BY <1>1, StatusSet
<1> QED BY <1>2, ReportStays

LEMMA ReportUpload ==
  ASSUME IInv, ReportInv, NEW r \in Slots, NEW file \in Files, Upload(r, file)
  PROVE  ReportInv'
<1> DEFINE new == [file |-> file, status |-> "pending", mapping |-> None]
<1>1. imports \in Seq(ImportRecords) /\ new \in ImportRecords
  BY DEF IInv, ImportsInv, ImportRecords, Statuses
<1>2. /\ Len(imports) \in Nat /\ DOMAIN imports = 1..Len(imports)
      /\ DOMAIN imports' = 1..(Len(imports) + 1)
      /\ \A i \in 1..Len(imports) : imports'[i] = imports[i]
  BY <1>1, AppendProperties, LenProperties DEF Upload
<1>3. Len(imports) + 1 \in Imports
  BY <1>2, BoundsAssumption DEF Upload, Imports
<1>4. \A i \in DOMAIN imports' :
        \/ i \in DOMAIN imports /\ imports'[i].mapping = imports[i].mapping
        \/ i \in Imports \ DOMAIN imports
  BY <1>2, <1>3
<1>5. DOMAIN imports \subseteq DOMAIN imports'
  BY <1>2
<1>6. PICK label, data : label \in {"uploaded", "idle"} /\ Goto(r, label, data)
  BY DEF Upload, Finish
<1> QED BY <1>4, <1>5, <1>6, ReportStays DEF Upload

LEMMA ReportStored ==
  ASSUME IInv, ReportInv, NEW r \in Slots, StoreErrors(r)
  PROVE  ReportInv'
<1> SUFFICES ASSUME exclusive PROVE ReportInv'
  BY DEF ReportInv, StoreErrors
<1> DEFINE old == task[r]
           i == old.import
<1>1. TaskOK(r, "clearing", old) /\ pc \in [Slots -> {"idle"} \cup Labels] /\ DOMAIN task = Slots
  BY DEF StoreErrors, IInv, TasksInv
<1>2. i \in DOMAIN imports /\ i \in Imports
  BY <1>1, TaskFields, FileTyped DEF TaskOK
<1>3. /\ errors[i] \subseteq old.cleared /\ Matching(old.issues, old.mapping)
  BY DEF StoreErrors, ReportInv
<1>4. /\ errors'[i] = old.issues
      /\ \A k \in Imports \ {i} : errors'[k] = errors[k]
  BY <1>2, <1>3 DEF StoreErrors, IInv, ErrorsInv
<1>5. /\ DOMAIN imports' = DOMAIN imports
      /\ imports'[i].mapping = old.mapping
      /\ \A k \in DOMAIN imports \ {i} : imports'[k] = imports[k]
  <2>1. DOMAIN imports[i] = {"file", "status", "mapping"}
    BY <1>2, FileTyped DEF ImportRecords
  <2>2. imports' = [imports EXCEPT ![i] = [@ EXCEPT !.mapping = old.mapping, !.status = "awaiting_approval"]]
    BY DEF StoreErrors
  <2> QED BY <1>2, <2>1, <2>2
<1>6. \A q \in Slots \ {r} : pc'[q] = pc[q] /\ task'[q] = task[q] /\ pc[q] # "clearing"
  BY <1>1 DEF StoreErrors, MayRun, Finish, Goto
<1>7. pc'[r] = "idle"
  BY <1>1 DEF StoreErrors, Finish, Goto
<1>8. \A k \in DOMAIN imports' : Matching(errors'[k], imports'[k].mapping)
  <2> TAKE k \in DOMAIN imports'
  <2>1. CASE k = i
    BY <1>3, <1>4, <1>5, <2>1
  <2>2. CASE k # i
    <3>1. k \in DOMAIN imports /\ k \in Imports
      BY <1>5, FileTyped
    <3> QED BY <1>4, <1>5, <2>2, <3>1 DEF ReportInv
  <2> QED BY <2>1, <2>2
<1>9. \A k \in Imports \ DOMAIN imports' : errors'[k] = {}
  BY <1>2, <1>4, <1>5 DEF ReportInv
<1>10. \A q \in Slots : pc'[q] \in {"validating", "clearing"} => Matching(task'[q].issues, task'[q].mapping)
  BY <1>6, <1>7 DEF ReportInv
<1>11. \A q \in Slots : pc'[q] # "clearing"
  BY <1>6, <1>7
<1> QED BY <1>8, <1>9, <1>10, <1>11 DEF ReportInv

LEMMA ReportKept ==
  ASSUME IInv, ReportInv, [Next]_vars
  PROVE  ReportInv'
<1>1. ASSUME NEW r \in Slots, NEW i \in DOMAIN imports, NEW m \in Mappings, ValidateRead(r, i, m)
      PROVE  ReportInv'
  <2> DEFINE found == Numbered(DOMAIN RowsUnder(i, m) \ Outcome(i, m), m)
             data == [import |-> i, mapping |-> m, issues |-> found]
  <2>1. Goto(r, "validating", data)
    BY <1>1 DEF ValidateRead
  <2>2. Matching(data.issues, data.mapping)
    BY DEF Numbered, Matching
  <2> QED BY <1>1, <2>1, <2>2, ReportRead DEF ValidateRead
<1>2. ASSUME NEW r \in Slots, ClearErrors(r) PROVE ReportInv'
  <2>1. PICK data : /\ Goto(r, "clearing", data)
                    /\ data.import = task[r].import /\ data.mapping = task[r].mapping
                    /\ data.issues = task[r].issues /\ data.cleared = errors[task[r].import]
    BY <1>2 DEF ClearErrors, Cleared
  <2>2. exclusive => Matching(data.issues, data.mapping)
    BY <1>2, <2>1 DEF ClearErrors, ReportInv
  <2>3. CASE exclusive
    BY <1>2, <2>1, <2>2, <2>3, ReportRead DEF ClearErrors
  <2>4. CASE ~exclusive
    BY <1>2, <2>4 DEF ClearErrors, ReportInv
  <2> QED BY <2>3, <2>4
<1>3. ASSUME NEW r \in Slots, RejectWrite(r) PROVE ReportInv'
  <2>1. TaskOK(r, "rejecting", task[r])
    BY <1>3 DEF RejectWrite, IInv, TasksInv
  <2>2. task[r].import \in DOMAIN imports
    BY <2>1, TaskFields DEF TaskOK
  <2>3. PICK label, data : label \in {"idle"} /\ Goto(r, label, data)
    BY <1>3 DEF RejectWrite, Finish
  <2> QED BY <1>3, <2>2, <2>3, ReportStatus DEF RejectWrite
<1>4. ASSUME NEW r \in Slots, CommitWrite(r) PROVE ReportInv'
  <2>1. task[r].import \in DOMAIN imports
    BY <1>4, CommitIs
  <2>2. PICK label, data : label \in {"idle", "approving"} /\ Goto(r, label, data)
    BY <1>4 DEF CommitWrite, Finish
  <2> QED BY <1>4, <2>1, <2>2, ReportStatus DEF CommitWrite
<1>5. ASSUME NEW r \in Slots, NEW label \in {"approving", "committing", "rejecting", "idle"}, NEW data,
             Goto(r, label, data), UNCHANGED <<exclusive, imports, errors>>
      PROVE  ReportInv'
  BY <1>5, ReportRead
<1>6. ASSUME UNCHANGED <<exclusive, imports, errors, pc, task>> PROVE ReportInv'
  BY <1>6 DEF ReportInv
<1>7. ASSUME NEW r \in Clerks, ClerkStep(r) PROVE ReportInv'
  <2>1. CASE \E queue : Approve(r, queue)
    BY <1>5, <2>1 DEF Approve, Slots
  <2>2. CASE CommitRead(r)
    BY <1>5, <2>2 DEF CommitRead, Slots
  <2> QED BY <1>4, <1>7, <2>1, <2>2 DEF ClerkStep, Slots
<1>8. ASSUME NEW r \in Slots, ReviewerStep(r) PROVE ReportInv'
  <2>1. CASE \/ \E name \in HandNames : AddPlayer(r, name)
             \/ \E c \in records.contracts : Terminate(r, c)
    BY <1>6, <2>1 DEF AddPlayer, Terminate
  <2>2. CASE \E i \in DOMAIN imports : RejectRead(r, i)
    BY <1>5, <2>2 DEF RejectRead
  <2> QED BY <1>1, <1>2, <1>3, <1>8, <2>1, <2>2, ReportUpload, ReportStored DEF ReviewerStep
<1>9. ASSUME NEW r \in Slots, Abort(r) PROVE ReportInv'
  BY <1>5, <1>9 DEF Abort, Finish
<1>10. CASE UNCHANGED vars
  BY <1>6, <1>10 DEF vars
<1> QED BY <1>7, <1>8, <1>9, <1>10 DEF Next

(* On the embedded database the errors stored of an import are those of    *)
(* the mapping stored with it.                                             *)
THEOREM ErrorsMatch == Spec => []ErrorsOfItsMapping
<1>1. Init => ReportInv
  BY DEF Init, ReportInv
<1>2. IInv /\ ReportInv /\ [Next]_vars => ReportInv'
  BY ReportKept
<1>3. ReportInv => ErrorsOfItsMapping
  BY DEF ReportInv, Matching, ErrorsOfItsMapping
<1> QED BY <1>1, <1>2, <1>3, Inductive, PTL DEF Spec

(* With one clerk, contracts are whole and a player has one active one.    *)
THEOREM SoundContracts == ASSUME OneClerk PROVE Spec => []ContractsSound
BY ActiveOnce, WholeContracts, PTL DEF ContractsSound

(* Rows and errors name the import, and the mapping, they came from.       *)
THEOREM RowsAreTraced == Spec => []RowsTraced
BY TracedRows, ErrorsMatch, PTL DEF RowsTraced
=============================================================================
