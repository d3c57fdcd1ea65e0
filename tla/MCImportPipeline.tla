-------------------------- MODULE MCImportPipeline --------------------------
(* Two imports of small files of every kind about two names, with one      *)
(* approval and two other requests at work.                                *)
EXTENDS ImportPipeline, TLC

CONSTANTS x, y, t1, t2, k1, k2, v, w, id, other, c1, r1

Row(name, ref, key, value, extra, sound) ==
  [name |-> name, ref |-> ref, key |-> key, value |-> value, extra |-> extra, sound |-> sound]
Named(name, ref) == Row(name, ref, None, None, None, TRUE)
Season(name, team, key) == Row(name, team, key, v, None, TRUE)
Stat(name, key, value) == Row(name, None, key, value, None, TRUE)
Ext(key, value, extra) == Row(None, None, key, value, extra, TRUE)
Unsound(row) == [row EXCEPT !.sound = FALSE]

File(kind, bundle, rows, otherwise) ==
  [kind |-> kind, bundle |-> bundle, rows |-> id :> rows @@ other :> otherwise]

(* An upload can be mapped in two ways, a dataset in one.                  *)
Players1 == File("players", FALSE, <<Named(x, t1), Named(x, None), Named(y, None)>>, None)
Players2 == File("players", FALSE, <<Unsound(Named(x, None)), Named(y, t2)>>, None)
Contracts1 ==
  File("contracts", FALSE, <<Season(x, t1, k1), Season(x, t1, k2), Season(y, t2, k1)>>, None)
Contracts2 ==
  File("contracts", FALSE, <<Season(x, t1, k1), Season(y, t1, k1), Season(y, t2, k1)>>, None)
Contracts3 ==
  File("contracts", FALSE, <<Season(x, t1, k1), Unsound(Season(x, t1, k2))>>,
       <<Season(x, t1, k1), Season(x, t1, k1)>>)
Conferences == File("ncaa_conferences", FALSE, <<Named(x, None)>>, None)
Schools == File("ncaa_schools", FALSE, <<Named(y, x), Named(x, x)>>, None)
Prospects == File("ncaa_players", FALSE, <<Named(x, x), Named(y, x)>>, None)
Stats == File("ncaa_season_stats", FALSE, <<Stat(x, k1, v), Stat(x, k1, w)>>, <<Stat(x, k1, w), Stat(y, k2, w)>>)
Logs == File("ncaa_game_logs", FALSE, <<Stat(x, k1, v), Stat(x, k1, v), Stat(y, k2, v)>>, None)
Drafted == File("ncaa_draft_status", FALSE, <<Stat(x, None, v), Stat(x, None, w)>>, None)
Bios1 == File("ext_players", TRUE, <<Ext(k1, v, None), Ext(k2, v, w), Ext(k1, w, w)>>, None)
Bios2 == File("ext_players", TRUE, <<Ext(k1, w, w)>>, None)
Roster == File("ext_roster", TRUE, <<Unsound(Ext(k2, v, None)), Ext(k1, w, None), Ext(k2, None, None)>>, None)

(* Files that touch the same records.                                      *)
MCBatches == {
  {Players1, Players2}, {Players2, Contracts2}, {Contracts1}, {Contracts3},
  {Conferences, Schools}, {Schools, Prospects}, {Stats}, {Logs}, {Drafted},
  {Bios1, Bios2}, {Bios1, Roster}}

MCSeasonsOf == t1 :> {k1, k2} @@ t2 :> {k1}
Nobody == [name \in Names |-> 0]
MCFirstRecords ==
  [imported |-> [kind \in NamedKinds |-> Nobody],
   others |-> [kind \in NamedKinds |->
                 IF kind \in {"players", "ncaa_players"} THEN x :> 1 @@ y :> 0
                 ELSE IF kind = "ncaa_schools" THEN x :> 0 @@ y :> 1 ELSE Nobody],
   contracts |-> {},
   stats |-> [name \in Names |-> [key \in Keys |-> None]],
   logs |-> [name \in Names |-> [key \in Keys |-> 0]],
   draft |-> [name \in Names |-> None],
   ext |-> [key \in Keys |-> None],
   sources |-> {}]
=============================================================================
