----------------------------- MODULE DraftLink ------------------------------
(***************************************************************************)
(* Which NHL player a draft pick, or a ranked prospect, became             *)
(* (draftLink.ts): the player index is searched by name, and a candidate   *)
(* is taken only if his own page says what the pick or the ranking says.   *)
(*                                                                         *)
(* A name is a sequence of characters: small letters, some of them with an *)
(* accent, "space", and "dash" for whatever is neither.  What the index    *)
(* finds (search) and the players' pages (landing) are the NHL's: inputs.  *)
(***************************************************************************)
EXTENDS Integers, SequencesExt, FiniteSets

CONSTANTS
  None,
  PlainOf   \* the letters with an accent, and each without it

-----------------------------------------------------------------------------
(* The feeds.                                                              *)

(* A pick without a player is told apart from one that lacks a field.      *)
NoSelection(r) == r.overallPick # None /\ r.firstName = None /\ r.lastName # None /\ r.positionCode = None

parseDraftPickRefs(rows) ==
  LET players == SelectSeq(rows, LAMBDA r : ~NoSelection(r))
  IN  IF \E i \in DOMAIN players : None \in {players[i].firstName, players[i].lastName, players[i].overallPick, players[i].round}
      THEN None
      ELSE [picks |-> players, noSelection |-> SelectSeq(rows, NoSelection)]

parseRankings(rows) ==
  IF \E i \in DOMAIN rows : None \in {rows[i].firstName, rows[i].lastName, rows[i].birthDate} THEN None ELSE rows

parseSearchResults(rows) == SelectSeq(rows, LAMBDA c : c.playerId # None /\ c.name # None)

-----------------------------------------------------------------------------
(* Names.                                                                  *)
fold(name) == [i \in DOMAIN name |-> IF name[i] \in DOMAIN PlainOf THEN PlainOf[name[i]] ELSE name[i]]

normalizeName(name) ==
  LET spaced == [i \in DOMAIN name |-> IF name[i] = "dash" THEN "space" ELSE fold(name)[i]]
      Kept(i) == spaced[i] # "space" \/ (i > 1 /\ spaced[i - 1] # "space" /\ \E j \in i..Len(name) : spaced[j] # "space")
      kept == SelectSeq([i \in DOMAIN name |-> i], Kept)
  IN  [k \in DOMAIN kept |-> spaced[kept[k]]]

FullName(person) == person.firstName \o <<"space">> \o person.lastName

(* 0: the full name; 1: the last name; 2: neither.                         *)
score(person, c) ==
  LET n == normalizeName(c.name)
      last == normalizeName(person.lastName)
  IN  IF n = normalizeName(FullName(person)) THEN 0
      ELSE IF n = last \/ IsSuffix(<<"space">> \o last, n) THEN 1 ELSE 2

rankCandidates(person, found) ==
  FlattenSeq([s \in 1..3 |-> SelectSeq(found, LAMBDA c : score(person, c) = s - 1)])

(* The distance of two names, row by row.                                  *)
Min3(a, b, c) == IF a <= b /\ a <= c THEN a ELSE IF b <= c THEN b ELSE c

(* Fault: a letter that differs costs nothing after one that does not.     *)
NextRow_Free(prev, a, b, i) ==
  LET cur[j \in 0..Len(b)] ==
        IF j = 0 THEN i
        ELSE Min3(prev[j] + 1, cur[j - 1] + 1, prev[j - 1] + (IF a[i] = b[j] \/ j > 1 THEN 0 ELSE 1))
  IN  cur

NextRow(prev, a, b, i) ==
  LET cur[j \in 0..Len(b)] ==
        IF j = 0 THEN i
        ELSE Min3(prev[j] + 1, cur[j - 1] + 1, prev[j - 1] + (IF a[i] = b[j] THEN 0 ELSE 1))
  IN  cur

Distance(a, b) ==
  LET rows[i \in 0..Len(a)] == IF i = 0 THEN [j \in 0..Len(b) |-> j] ELSE NextRow(rows[i - 1], a, b, i)
  IN  rows[Len(a)][Len(b)]

(* A similarity of at least 0.7: an empty name is like an empty one only.  *)
Similar(a, b) ==
  LET longer == IF Len(a) >= Len(b) THEN Len(a) ELSE Len(b)
  IN  a = b \/ (a # <<>> /\ b # <<>> /\ 10 * (longer - Distance(a, b)) >= 7 * longer)

-----------------------------------------------------------------------------
(* The search: by the full name, by the last name, and by each without     *)
(* accents, until a candidate's page is accepted.                          *)
Queries(person) ==
  LET full == FullName(person)
      last == person.lastName
      Query(via, q) == IF fold(q) # q THEN << <<via, q>>, <<via, fold(q)>> >> ELSE << <<via, q>> >>
  IN  Query("full_name", full) \o Query("last_name", last)

Pool(person, query, found, close) ==
  LET ranked == rankCandidates(person, found)
  IN  IF query[1] = "last_name"
      THEN SelectSeq(ranked, LAMBDA c : IsSuffix(normalizeName(person.lastName), normalizeName(c.name)))
      ELSE SelectSeq(ranked, LAMBDA c : c \in close)

(* Fault: a page is opened again for every query that finds its player.    *)
Open_Again(st, via, c, accepted) ==
  IF st.playerId # None THEN st
  ELSE [st EXCEPT !.opened = Append(@, c.playerId),
                  !.playerId = IF c.playerId \in accepted THEN c.playerId ELSE None,
                  !.via = IF c.playerId \in accepted THEN via ELSE None]

Open(st, via, c, accepted) ==
  IF st.playerId # None \/ Contains(st.opened, c.playerId) THEN st
  ELSE [st EXCEPT !.opened = Append(@, c.playerId),
                  !.playerId = IF c.playerId \in accepted THEN c.playerId ELSE None,
                  !.via = IF c.playerId \in accepted THEN via ELSE None]

linkByName(person, accepted, search, close, maxChecks) ==
  FoldLeft(LAMBDA st, query :
             LET pool == Pool(person, query, search[query[2]], close)
                 most == IF Len(pool) < maxChecks THEN Len(pool) ELSE maxChecks
             IN  FoldLeft(LAMBDA s, c : Open(s, query[1], c, accepted), st, SubSeq(pool, 1, most)),
           [playerId |-> None, via |-> None, opened |-> <<>>], Queries(person))

Found(person, search) == UNION {ToSet(search[q[2]]) : q \in ToSet(Queries(person))}

landingMatchesPick(landing, pick) == landing.year = pick.draftYear /\ landing.overallPick = pick.overallPick

linkDraftPick(pick, search, landing, maxChecks) ==
  linkByName(pick, {id \in DOMAIN landing : landingMatchesPick(landing[id], pick)}, search, Found(pick, search), maxChecks)

linkRankedPlayer(row, search, landing, maxChecks) ==
  linkByName(row, {id \in DOMAIN landing : landing[id].birthDate = row.birthDate}, search,
             {c \in Found(row, search) : Similar(normalizeName(c.name), normalizeName(FullName(row)))}, maxChecks)

-----------------------------------------------------------------------------
(* Properties, of one pair of names or one search each.                    *)

(* What an edit distance is: the fewest letters to add, drop or replace.   *)
RECURSIVE Edits(_, _)
Edits(a, b) ==
  IF a = <<>> THEN Len(b)
  ELSE IF b = <<>> THEN Len(a)
  ELSE IF Head(a) = Head(b) THEN Edits(Tail(a), Tail(b))
  ELSE 1 + Min3(Edits(Tail(a), b), Edits(a, Tail(b)), Edits(Tail(a), Tail(b)))

(* The distance computed row by row is the fewest edits, either way round, *)
(* and a name is like itself however it is spelled: accents, dashes and    *)
(* spaces change neither who is an exact match nor how alike two names are.*)
DistanceIsEdits(a, b) ==
  /\ Distance(a, b) = Edits(a, b)
  /\ Similar(a, b) <=> Similar(b, a)
  /\ normalizeName(normalizeName(a)) = normalizeName(a)

(* "A name match alone is never enough" (draftLink.ts:7), and a match is   *)
(* not missed: no page is opened twice, nor more of them than allowed for  *)
(* each query; and whoever could be found by name, within the checks of    *)
(* his query, and whose page says so, is linked, if he is the only one.    *)
LinkIsSure(person, accepted, search, close, maxChecks, out) ==
  LET queries == ToSet(Queries(person))
      First(pool) == {pool[i].playerId : i \in {n \in DOMAIN pool : n <= maxChecks}}
      checked == [q \in queries |-> First(Pool(person, q, search[q[2]], close)) \cap accepted]
      reachable == UNION {checked[q] : q \in queries}
  IN  /\ IsInjective(out.opened) /\ Len(out.opened) <= maxChecks * Cardinality(queries)
      /\ IF reachable = {} THEN out.playerId = None ELSE out.playerId \in reachable
      /\ out.via = "last_name" => \A q \in queries : q[1] = "full_name" => checked[q] = {}
=============================================================================
