--------------------------- MODULE FeatureRowProofs ---------------------------
(***************************************************************************)
(* Proofs about FeatureRow, for any number of requests and any projects;   *)
(* that no project is called Nothing is a hypothesis of the theorems.       *)
(***************************************************************************)
EXTENDS FeatureRow, TLAPS

Row == [project : Projects, archived : BOOLEAN, stale : BOOLEAN, variants : BOOLEAN]

Kinds == {"stale", "patch", "project", "put", "archive", "revive", "variants", "delete", Nothing}
Steps == {"idle", "validate", "update", "validatePut", "put", "archive", "revive",
          "saveVariants", "delete"}

Request == [kind : Kinds, at : Steps, project : Projects \cup {Nothing},
            field : Fields \cup {Nothing}, value : BOOLEAN, read : Row \cup {NoRow}]

\* What a request holds at each of its statements.
Holds(q) ==
    /\ q.at = "validate" => q.kind = "patch"
    /\ q.at = "update" => q.kind \in {"stale", "patch", "project"}
    /\ q.at \in {"validatePut", "put"} => q.kind = "put" /\ q.project \in Projects
    /\ q.at = "archive" => q.kind = "archive"
    /\ q.at = "revive" => q.kind = "revive"
    /\ q.at = "saveVariants" => q.kind = "variants"
    /\ q.at = "delete" => q.kind = "delete"
    /\ q.kind = "stale" => q.field = "stale" /\ q.read \in Row
    /\ q.kind = "patch" => q.field \in {"stale", "archived"} /\ q.read \in Row
                           /\ q.project \in Projects
    /\ q.kind = "project" => q.field = "project" /\ q.read \in Row /\ q.project \in Projects

TypeOK ==
    /\ feature \in Row \cup {NoRow}
    /\ req \in [Requests -> Request]
    /\ raced \subseteq Fields
    /\ \A r \in Requests : Holds(req[r])

\* Two requests in progress, one of which is about a field that the other
\* carries along, have raced for it.
OverlapsAreRaces ==
    \A r, q \in Requests : r # q =>
       \A f \in Fields : BothWrite(f, req[r].kind, req[q].kind) => f \in raced

\* A column that was not raced for is as it was asked for last, in the row and
\* in what requests that write it back have read of it.
RowAsAsked ==
    feature # NoRow => \A f \in Fields \ raced : feature[f] = asked[f]

ReadAsAsked ==
    \A r \in Requests :
       /\ req[r].kind \in {"stale", "patch", "project"} =>
             \A f \in Fields \ raced : feature # NoRow /\ req[r].read[f] = asked[f]
       /\ req[r].at = "put" \/ (req[r].at = "update" /\ req[r].kind = "patch") =>
             "project" \in raced \/ (feature # NoRow /\ req[r].project = asked.project)

RowInv == TypeOK /\ OverlapsAreRaces /\ RowAsAsked /\ ReadAsAsked

-----------------------------------------------------------------------------
\* Two rows that differ, or a row and none.
LEMMA RowFacts ==
    ASSUME Nothing \notin Projects
    PROVE  /\ NoRow \notin Row
           /\ \A p \in Projects : NewRow(p) \in Row
           /\ \A row \in Row, p \in Projects :
                 /\ DtoToRow(p, row) \in Row
                 /\ [row EXCEPT !.archived = TRUE] \in Row
                 /\ [row EXCEPT !.archived = FALSE] \in Row
                 /\ \A b \in BOOLEAN : [row EXCEPT !.variants = b] \in Row
  BY DEF Row, NoRow, NewRow, DtoToRow

\* What a PUT writes.
LEMMA PutRow ==
    ASSUME Nothing \notin Projects,
           NEW p \in Projects, NEW read \in Row \cup {NoRow}, NEW row \in Row
    PROVE  LET written == [DtoToRow(p, read) EXCEPT !.variants = row.variants]
           IN  written \in Row /\ written.variants = row.variants /\ written.project = p
<1>. DEFINE data == DtoToRow(p, read)
<1>1. data \in Row /\ data.project = p
  <2>1. CASE read \in Row
    BY <2>1 DEF DtoToRow, Row
  <2>2. CASE read = NoRow
    <3>1. read = [project |-> Nothing, archived |-> FALSE, stale |-> FALSE, variants |-> FALSE]
      BY <2>2 DEF NoRow, NewRow
    <3>. QED
      BY <3>1 DEF DtoToRow, Row
  <2>. QED
    BY <2>1, <2>2
<1>. HIDE DEF data
<1>2. /\ [data EXCEPT !.variants = row.variants] \in Row
      /\ [data EXCEPT !.variants = row.variants].variants = row.variants
      /\ [data EXCEPT !.variants = row.variants].project = p
  BY <1>1 DEF Row
<1>. QED
  BY <1>2 DEF data

LEMMA IdleType == Idle \in Request /\ Holds(Idle)
  BY DEF Idle, Request, Kinds, Steps, Holds, Nothing

\* Who is about a column races with whoever carries it along.
LEMMA WriterAndCarrier ==
    ASSUME OverlapsAreRaces, NEW r \in Requests, NEW q \in Requests, q # r, NEW f \in Fields \ raced,
           req[r].kind \in Writers(f)
    PROVE  req[q].kind \notin CarriersOf(f)
  BY DEF OverlapsAreRaces, BothWrite

LEMMA Carriers ==
    /\ \A f \in Fields : {"stale", "patch", "project"} \subseteq CarriersOf(f)
    /\ "put" \in CarriersOf("project")
    /\ \A f \in Fields : "delete" \in Writers(f)
    /\ Nothing \notin UNION {Writers(f) \cup CarriersOf(f) : f \in Fields}
  BY DEF CarriersOf, Writers, Fields, Nothing

-----------------------------------------------------------------------------
(* The forms that a step has: a request begins, goes on, ends without      *)
(* having changed the row, or ends by writing it.                          *)

LEMMA BeginKeeps ==
    ASSUME RowInv, NEW r \in Requests, NEW rec \in Request, Holds(rec), Begin(r, rec),
           UNCHANGED <<feature, asked>>,
           rec.at # "put", rec.at = "update" => rec.kind # "patch",
           rec.kind \in {"stale", "patch", "project"} => feature # NoRow /\ rec.read = feature
    PROVE  RowInv'
<1>. USE DEF RowInv
<1>1. /\ req' = [req EXCEPT ![r] = rec]
      /\ raced \subseteq raced'
      /\ raced' \subseteq Fields
      /\ \A f \in Fields, q \in Requests : BothWrite(f, rec.kind, req[q].kind) => f \in raced'
  BY DEF Begin, TypeOK
<1>2. \A q \in Requests : req'[q] = IF q = r THEN rec ELSE req[q]
  BY <1>1 DEF TypeOK
<1>3. TypeOK'
  <2>1. \A q \in Requests : Holds(req'[q])
    BY <1>2 DEF TypeOK
  <2>2. (\A q \in Requests : Holds(req[q]))'
    BY <2>1 DEF Holds
  <2>. QED
    BY <1>1, <2>2 DEF TypeOK
<1>4. OverlapsAreRaces'
  <2>1. ASSUME NEW p \in Requests, NEW q \in Requests, p # q, NEW f \in Fields,
               BothWrite(f, req'[p].kind, req'[q].kind)
        PROVE  f \in raced'
    <3>1. CASE p = r
      BY <1>1, <1>2, <2>1, <3>1
    <3>2. CASE q = r
      <4>1. BothWrite(f, rec.kind, req[p].kind)
        BY <1>2, <2>1, <3>2 DEF BothWrite
      <4>. QED
        BY <1>1, <4>1
    <3>3. CASE p # r /\ q # r
      BY <1>1, <1>2, <2>1, <3>3 DEF OverlapsAreRaces
    <3>. QED
      BY <3>1, <3>2, <3>3
  <2>. QED
    BY <2>1 DEF OverlapsAreRaces, BothWrite
<1>5. RowAsAsked'
  BY <1>1 DEF RowAsAsked
<1>6. ReadAsAsked'
  <2>. SUFFICES ASSUME NEW q \in Requests
                PROVE  ReadAsAsked!(q)'
    BY DEF ReadAsAsked
  <2>1. CASE q = r
    BY <1>1, <1>2, <2>1 DEF RowAsAsked
  <2>2. CASE q # r
    BY <1>1, <1>2, <2>2 DEF ReadAsAsked
  <2>. QED
    BY <2>1, <2>2
<1>. QED
  BY <1>3, <1>4, <1>5, <1>6

LEMMA FinishKeeps ==
    ASSUME RowInv, NEW r \in Requests, Finish(r), UNCHANGED <<feature, asked, raced>>
    PROVE  RowInv'
<1>. USE DEF RowInv
<1>1. \A q \in Requests : req'[q] = IF q = r THEN Idle ELSE req[q]
  BY DEF Finish, TypeOK
<1>2. TypeOK'
  <2>1. \A q \in Requests : Holds(req'[q])
    BY <1>1, IdleType DEF TypeOK
  <2>2. (\A q \in Requests : Holds(req[q]))'
    BY <2>1 DEF Holds
  <2>. QED
    BY <2>2, IdleType DEF TypeOK, Finish
<1>3. OverlapsAreRaces'
  <2>1. ASSUME NEW p \in Requests, NEW q \in Requests, p # q, NEW f \in Fields,
               BothWrite(f, req'[p].kind, req'[q].kind)
        PROVE  f \in raced
    <3>1. p # r /\ q # r
      BY <1>1, <2>1, Carriers DEF BothWrite, Idle
    <3>. QED
      BY <1>1, <2>1, <3>1 DEF OverlapsAreRaces
  <2>. QED
    BY <2>1 DEF OverlapsAreRaces, BothWrite
<1>4. RowAsAsked'
  BY DEF RowAsAsked
<1>5. ReadAsAsked'
  BY <1>1 DEF ReadAsAsked, Idle, Nothing
<1>. QED
  BY <1>2, <1>3, <1>4, <1>5

\* Only requests that validate the project go on; the row was there.
LEMMA GotoKeeps ==
    ASSUME RowInv, NEW r \in Requests, NEW step \in {"update", "put"}, Goto(r, step),
           UNCHANGED <<feature, asked, raced>>, Nothing \notin Projects,
           \/ At(r, "validate") /\ step = "update"
           \/ At(r, "validatePut") /\ step = "put",
           feature.project = req[r].project
    PROVE  RowInv'
<1>. USE DEF RowInv
<1>1. \A q \in Requests : req'[q] = IF q = r THEN [req[r] EXCEPT !.at = step] ELSE req[q]
  BY DEF Goto, TypeOK
<1>2. req'[r] \in Request /\ Holds(req'[r])
  BY <1>1 DEF TypeOK, Request, Steps, Holds, At
<1>3. TypeOK'
  <2>1. \A q \in Requests : Holds(req'[q])
    BY <1>1, <1>2 DEF TypeOK
  <2>2. (\A q \in Requests : Holds(req[q]))'
    BY <2>1 DEF Holds
  <2>. QED
    BY <1>1, <1>2, <2>2 DEF TypeOK, Goto
<1>4. \A q \in Requests : /\ req'[q].kind = req[q].kind
                          /\ req'[q].project = req[q].project
                          /\ req'[q].read = req[q].read
  BY <1>1 DEF TypeOK, Request
<1>5. OverlapsAreRaces'
  <2>1. ASSUME NEW p \in Requests, NEW q \in Requests, p # q, NEW f \in Fields,
               BothWrite(f, req'[p].kind, req'[q].kind)
        PROVE  f \in raced
    BY <1>4, <2>1 DEF OverlapsAreRaces
  <2>. QED
    BY <2>1 DEF OverlapsAreRaces, BothWrite
<1>6. RowAsAsked'
  BY DEF RowAsAsked
<1>7. feature # NoRow
  BY DEF TypeOK, Holds, At, NoRow, NewRow
<1>8. ReadAsAsked'
  <2>. SUFFICES ASSUME NEW q \in Requests
                PROVE  ReadAsAsked!(q)'
    BY DEF ReadAsAsked
  <2>1. CASE q = r
    BY <1>4, <1>7, <2>1 DEF ReadAsAsked, RowAsAsked, Fields
  <2>2. CASE q # r
    BY <1>1, <2>2 DEF ReadAsAsked
  <2>. QED
    BY <2>1, <2>2
<1>. QED
  BY <1>3, <1>5, <1>6, <1>8

\* A request ends by writing fields that it is about; what else is in the row
\* that it writes is as it was asked for.
LEMMA UpdateKeeps ==
    ASSUME RowInv, NEW r \in Requests, NEW row \in Row, NEW fields \in SUBSET Fields,
           Finish(r), UNCHANGED raced, Nothing \notin Projects,
           feature # NoRow, feature' = row, Asked(row, fields),
           \A f \in fields : req[r].kind \in Writers(f),
           \A f \in (Fields \ raced) \ fields : row[f] = asked[f]
    PROVE  RowInv'
<1>. USE DEF RowInv
<1>1. \A q \in Requests : req'[q] = IF q = r THEN Idle ELSE req[q]
  BY DEF Finish, TypeOK
<1>2. TypeOK'
  <2>1. \A q \in Requests : Holds(req'[q])
    BY <1>1, IdleType DEF TypeOK
  <2>2. (\A q \in Requests : Holds(req[q]))'
    BY <2>1 DEF Holds
  <2>. QED
    BY <2>2, IdleType DEF TypeOK, Finish
<1>3. OverlapsAreRaces'
  <2>1. ASSUME NEW p \in Requests, NEW q \in Requests, p # q, NEW f \in Fields,
               BothWrite(f, req'[p].kind, req'[q].kind)
        PROVE  f \in raced
    <3>1. p # r /\ q # r
      BY <1>1, <2>1, Carriers DEF BothWrite, Idle
    <3>. QED
      BY <1>1, <2>1, <3>1 DEF OverlapsAreRaces
  <2>. QED
    BY <2>1 DEF OverlapsAreRaces, BothWrite
<1>4. feature' # NoRow
  BY RowFacts
<1>5. \A f \in Fields \ raced : asked'[f] = IF f \in fields THEN row[f] ELSE asked[f]
  BY DEF Asked
<1>6. RowAsAsked'
  BY <1>5 DEF RowAsAsked
<1>7. ReadAsAsked'
  <2>. SUFFICES ASSUME NEW q \in Requests
                PROVE  ReadAsAsked!(q)'
    BY DEF ReadAsAsked
  <2>1. CASE q = r
    BY <1>1, <2>1 DEF Idle, Nothing
  <2>2. CASE q # r
    <3>1. req'[q] = req[q] /\ raced' = raced
      BY <1>1, <2>2
    <3>2. ASSUME NEW f \in Fields \ raced, req[q].kind \in CarriersOf(f)
          PROVE  asked'[f] = asked[f]
      BY <1>5, <2>2, <3>2, WriterAndCarrier
    <3>3. req[q].kind \in {"stale", "patch", "project"} =>
             \A f \in Fields \ raced : req[q].read[f] = asked'[f]
      BY <3>2, Carriers DEF ReadAsAsked
    <3>4. req[q].at = "put" \/ (req[q].at = "update" /\ req[q].kind = "patch") =>
             "project" \in raced \/ req[q].project = asked'.project
      <4>1. SUFFICES ASSUME req[q].at = "put" \/ (req[q].at = "update" /\ req[q].kind = "patch"),
                            "project" \notin raced
                     PROVE  req[q].project = asked'.project
        OBVIOUS
      <4>2. req[q].kind \in CarriersOf("project")
        BY <4>1, Carriers DEF TypeOK, Holds, Fields
      <4>3. asked'["project"] = asked["project"]
        BY <3>2, <4>1, <4>2 DEF Fields
      <4>4. req[q].project = asked.project
        BY <4>1 DEF ReadAsAsked
      <4>. QED
        BY <4>3, <4>4
    <3>. QED
      BY <1>4, <3>1, <3>3, <3>4
  <2>. QED
    BY <2>1, <2>2
<1>. QED
  BY <1>2, <1>3, <1>6, <1>7

\* A deletion has raced with everything that carries columns along.
LEMMA DeleteKeeps ==
    ASSUME RowInv, NEW r \in Requests, Delete(r), feature' = NoRow
    PROVE  RowInv'
<1>. USE DEF RowInv
<1>1. \A q \in Requests : req'[q] = IF q = r THEN Idle ELSE req[q]
  BY DEF Delete, Finish, TypeOK
<1>2. TypeOK'
  <2>1. \A q \in Requests : Holds(req'[q])
    BY <1>1, IdleType DEF TypeOK
  <2>2. (\A q \in Requests : Holds(req[q]))'
    BY <2>1 DEF Holds
  <2>. QED
    BY <2>2, IdleType DEF TypeOK, Delete, Finish
<1>3. OverlapsAreRaces'
  <2>1. ASSUME NEW p \in Requests, NEW q \in Requests, p # q, NEW f \in Fields,
               BothWrite(f, req'[p].kind, req'[q].kind)
        PROVE  f \in raced
    <3>1. p # r /\ q # r
      BY <1>1, <2>1, Carriers DEF BothWrite, Idle
    <3>. QED
      BY <1>1, <2>1, <3>1 DEF OverlapsAreRaces
  <2>. QED
    BY <2>1 DEF OverlapsAreRaces, BothWrite, Delete
<1>4. RowAsAsked'
  BY DEF RowAsAsked
<1>5. ReadAsAsked'
  <2>. SUFFICES ASSUME NEW q \in Requests
                PROVE  ReadAsAsked!(q)'
    BY DEF ReadAsAsked
  <2>0. raced' = raced
    BY DEF Delete
  <2>1. CASE q = r
    BY <1>1, <2>1 DEF Idle, Nothing
  <2>2. CASE q # r
    <3>1. req'[q] = req[q]
      BY <1>1, <2>2
    <3>2. \A f \in Fields \ raced : req[q].kind \notin CarriersOf(f)
      BY <2>2, WriterAndCarrier, Carriers DEF Delete, At, TypeOK, Holds
    <3>3. req[q].kind \in {"stale", "patch", "project"} => Fields \ raced = {}
      BY <3>2, Carriers
    <3>4. req[q].at = "put" \/ (req[q].at = "update" /\ req[q].kind = "patch") =>
             "project" \in raced
      BY <3>2, Carriers DEF TypeOK, Holds, Fields
    <3>. QED
      BY <2>0, <3>1, <3>3, <3>4
  <2>. QED
    BY <2>1, <2>2
<1>. QED
  BY <1>2, <1>3, <1>4, <1>5

\* Where there is no row, nothing in progress has one unraced column.
LEMMA CreateKeeps ==
    ASSUME RowInv, NEW p \in Projects, CreateRow(p), Nothing \notin Projects
    PROVE  RowInv'
<1>. USE DEF RowInv, CreateRow
<1>1. feature' \in Row /\ feature' # NoRow
  BY RowFacts
<1>2. TypeOK'
  BY <1>1 DEF TypeOK, Holds
<1>3. OverlapsAreRaces'
  BY DEF OverlapsAreRaces, BothWrite
<1>4. RowAsAsked'
  BY DEF RowAsAsked
<1>5. ReadAsAsked'
  BY DEF ReadAsAsked
<1>. QED
  BY <1>2, <1>3, <1>4, <1>5
-----------------------------------------------------------------------------
(* Each action has one of these forms.                                     *)

\* A PUT's row, and a row that is written as it was read but for one field.
LEMMA CallKeeps ==
    ASSUME RowInv, NEW r \in Requests, Call(r)
    PROVE  RowInv'
<1>. USE DEF RowInv
<1>1. ASSUME NEW rec \in Request, Holds(rec), Reads(r, rec), rec.at # "put",
             rec.at = "update" => rec.kind # "patch",
             rec.kind \in {"stale", "patch", "project"} => rec.read = feature
      PROVE  RowInv'
  BY <1>1, BeginKeeps DEF Reads
<1>2. feature # NoRow => feature \in Row
  BY DEF TypeOK
<1>3. CASE \E p \in Projects : ChangeProject(r, p)
  <2>. PICK p \in Projects : ChangeProject(r, p)
    BY <1>3
  <2>. DEFINE rec == [Idle EXCEPT !.kind = "project", !.at = "update", !.field = "project",
                                  !.project = p, !.read = feature]
  <2>1. Reads(r, rec) /\ feature \in Row
    BY <1>2 DEF ChangeProject, Reads
  <2>2. rec \in Request /\ Holds(rec)
    BY <2>1 DEF Idle, Request, Holds, Kinds, Steps, Fields
  <2>3. rec.at = "update" /\ rec.kind = "project" /\ rec.read = feature
    BY DEF Idle
  <2>. QED
    BY <1>1, <2>1, <2>2, <2>3
<1>4. CASE \E p \in Projects, b \in BOOLEAN : SaveVariants(r, p, b)
  <2>. PICK p \in Projects, b \in BOOLEAN : SaveVariants(r, p, b)
    BY <1>4
  <2>. DEFINE rec == [Idle EXCEPT !.kind = "variants", !.at = "saveVariants", !.project = p,
                                  !.value = b]
  <2>1. Reads(r, rec)
    BY DEF SaveVariants
  <2>2. rec \in Request /\ Holds(rec)
    BY DEF Idle, Request, Holds, Kinds, Steps, Fields
  <2>3. rec.at = "saveVariants" /\ rec.kind = "variants"
    BY DEF Idle
  <2>. QED
    BY <1>1, <2>1, <2>2, <2>3
<1>5. CASE \E p \in Projects, b \in BOOLEAN, f \in {"stale", "archived"} :
              PatchFeature(r, p, f, b)
  <2>. PICK p \in Projects, b \in BOOLEAN, f \in {"stale", "archived"} : PatchFeature(r, p, f, b)
    BY <1>5
  <2>. DEFINE rec == [Idle EXCEPT !.kind = "patch", !.at = "validate", !.project = p,
                                  !.field = f, !.value = b, !.read = feature]
  <2>1. Reads(r, rec) /\ feature \in Row
    BY <1>2 DEF PatchFeature, Reads
  <2>2. rec \in Request /\ Holds(rec)
    BY <2>1 DEF Idle, Request, Holds, Kinds, Steps, Fields
  <2>3. rec.at = "validate" /\ rec.read = feature
    BY DEF Idle
  <2>. QED
    BY <1>1, <2>1, <2>2, <2>3
<1>6. CASE \E p \in Projects, b, c \in BOOLEAN : UpdateFeature(r, p, b, c)
  <2>. PICK p \in Projects, b \in BOOLEAN, c \in BOOLEAN : UpdateFeature(r, p, b, c)
    BY <1>6
  <2>. DEFINE row == [project |-> p, archived |-> c, stale |-> b, variants |-> FALSE]
              rec == [Idle EXCEPT !.kind = "put", !.at = "validatePut", !.project = p, !.read = row]
  <2>1. Begin(r, rec) /\ UNCHANGED <<feature, asked>>
    BY DEF UpdateFeature
  <2>2. row \in Row
    BY DEF Row
  <2>3. rec \in Request /\ Holds(rec)
    BY <2>2 DEF Idle, Request, Holds, Kinds, Steps, Fields
  <2>4. rec.at = "validatePut" /\ rec.kind = "put"
    BY DEF Idle
  <2>. QED
    BY <2>1, <2>3, <2>4, BeginKeeps
<1>7. CASE \E b \in BOOLEAN : UpdateStale(r, b)
  <2>. PICK b \in BOOLEAN : UpdateStale(r, b)
    BY <1>7
  <2>. DEFINE rec == [Idle EXCEPT !.kind = "stale", !.at = "update", !.field = "stale",
                                  !.value = b, !.read = feature]
  <2>1. Reads(r, rec) /\ feature \in Row
    BY <1>2 DEF UpdateStale, Reads
  <2>2. rec \in Request /\ Holds(rec)
    BY <2>1 DEF Idle, Request, Holds, Kinds, Steps, Fields
  <2>3. rec.at = "update" /\ rec.kind = "stale" /\ rec.read = feature
    BY DEF Idle
  <2>. QED
    BY <1>1, <2>1, <2>2, <2>3
<1>8. ASSUME NEW kind \in {"archive", "revive", "delete"}
      PROVE  LET rec == [Idle EXCEPT !.kind = kind, !.at = kind]
             IN  /\ rec \in Request /\ Holds(rec)
                 /\ rec.at = kind /\ rec.kind = kind
  BY <1>8 DEF Idle, Request, Holds, Kinds, Steps, Fields
<1>9. CASE ArchiveToggle(r) \/ DeleteFeature(r) \/ ReviveToggle(r)
  <2>1. CASE ArchiveToggle(r)
    BY <1>1, <1>8, <2>1 DEF ArchiveToggle
  <2>2. CASE DeleteFeature(r)
    BY <1>1, <1>8, <2>2 DEF DeleteFeature
  <2>3. CASE ReviveToggle(r)
    BY <1>8, <2>3, BeginKeeps DEF ReviveToggle
  <2>. QED
    BY <1>9, <2>1, <2>2, <2>3
<1>. QED
  BY <1>3, <1>4, <1>5, <1>6, <1>7, <1>9 DEF Call

LEMMA UpdateRowKeeps ==
    ASSUME RowInv, NEW r \in Requests, UpdateRow(r), feature # NoRow, Nothing \notin Projects
    PROVE  RowInv'
<1>. USE DEF RowInv
<1>. DEFINE q == req[r]
<1>1. q \in Request /\ Holds(q) /\ q.kind \in {"stale", "patch", "project"} /\ q.read \in Row
  BY DEF UpdateRow, At, TypeOK, Holds
<1>2. /\ Written(r) \in Row
      /\ \A f \in Fields : f # q.field /\ f # "project" => Written(r)[f] = q.read[f]
      /\ q.kind = "stale" => Written(r).project = q.read.project
      /\ q.kind = "patch" => Written(r).project = q.project
  BY <1>1 DEF Written, DtoToRow, Row, Request, Fields, Holds
<1>3. q.field \in Fields /\ q.kind \in Writers(q.field)
  BY <1>1 DEF Holds, Writers, Fields
<1>4. ASSUME NEW f \in (Fields \ raced) \ {q.field}
      PROVE  Written(r)[f] = asked[f]
  <2>1. q.read[f] = asked[f]
    BY <1>1 DEF ReadAsAsked
  <2>2. CASE f # "project"
    BY <1>2, <2>1, <2>2
  <2>3. CASE f = "project" /\ q.kind = "stale"
    BY <1>2, <2>1, <2>3
  <2>4. CASE f = "project" /\ q.kind = "patch"
    <3>1. q.project = asked.project
      BY <2>4 DEF ReadAsAsked, UpdateRow, At
    <3>. QED
      BY <1>2, <2>4, <3>1
  <2>5. ~(f = "project" /\ q.kind = "project")
    BY <1>1 DEF Holds
  <2>. QED
    BY <1>1, <2>2, <2>3, <2>4, <2>5
<1>5. feature' = Written(r) /\ Asked(Written(r), {q.field}) /\ Finish(r) /\ UNCHANGED raced
  BY DEF UpdateRow, Update
<1>. QED
  BY <1>2, <1>3, <1>4, <1>5, UpdateKeeps

LEMMA PutKeeps ==
    ASSUME RowInv, NEW r \in Requests, Put(r), feature # NoRow, Nothing \notin Projects
    PROVE  RowInv'
<1>. USE DEF RowInv
<1>. DEFINE q == req[r]
            row == [DtoToRow(q.project, q.read) EXCEPT !.variants = feature.variants]
<1>1. q \in Request /\ q.kind = "put" /\ q.project \in Projects /\ feature \in Row
  BY DEF Put, At, TypeOK, Holds
<1>2. row \in Row /\ row.variants = feature.variants /\ row.project = q.project
  BY <1>1, PutRow DEF Request
<1>3. \A f \in {"stale", "archived"} : q.kind \in Writers(f)
  BY <1>1 DEF Writers
<1>4. ASSUME NEW f \in (Fields \ raced) \ {"stale", "archived"}
      PROVE  row[f] = asked[f]
  <2>1. CASE f = "variants"
    BY <1>2, <2>1 DEF RowAsAsked
  <2>2. CASE f = "project"
    <3>1. q.project = asked.project
      BY <2>2 DEF ReadAsAsked, Put, At
    <3>. QED
      BY <1>2, <2>2, <3>1
  <2>. QED
    BY <2>1, <2>2 DEF Fields
<1>5. feature' = row /\ Asked(row, {"stale", "archived"}) /\ Finish(r) /\ UNCHANGED raced
  BY DEF Put, Update
<1>6. {"stale", "archived"} \in SUBSET Fields
  BY DEF Fields
<1>. HIDE DEF row
<1>. QED
  BY <1>2, <1>3, <1>4, <1>5, <1>6, UpdateKeeps

\* An update of one column leaves the others as they are.
LEMMA ColumnKeeps ==
    ASSUME RowInv, NEW r \in Requests, feature # NoRow, Nothing \notin Projects,
           Archive(r) \/ Revive(r) \/ (SaveVariantsRow(r) /\ feature.project = req[r].project)
    PROVE  RowInv'
<1>. USE DEF RowInv
<1>0. feature \in Row /\ req[r] \in Request /\ Holds(req[r])
  BY DEF TypeOK
<1>1. ASSUME NEW f \in {"archived", "variants"}, NEW b \in BOOLEAN,
             feature' = [feature EXCEPT ![f] = b], Asked(feature', {f}), Finish(r),
             UNCHANGED raced, req[r].kind \in Writers(f)
      PROVE  RowInv'
  <2>1. feature' \in Row /\ \A g \in Fields \ {f} : feature'[g] = feature[g]
    BY <1>0, <1>1 DEF Row, Fields
  <2>2. \A g \in (Fields \ raced) \ {f} : feature'[g] = asked[g]
    BY <2>1 DEF RowAsAsked
  <2>3. {f} \in SUBSET Fields
    BY DEF Fields
  <2>. QED
    BY <1>1, <2>1, <2>2, <2>3, UpdateKeeps
<1>2. CASE Archive(r)
  <2>1. req[r].kind \in Writers("archived")
    BY <1>0, <1>2 DEF Archive, At, Holds, Writers
  <2>2. feature' = [feature EXCEPT !["archived"] = TRUE] /\ Asked(feature', {"archived"})
    BY <1>2 DEF Archive, Update
  <2>. QED
    BY <1>1, <1>2, <2>1, <2>2 DEF Archive
<1>3. CASE Revive(r)
  <2>1. req[r].kind \in Writers("archived")
    BY <1>0, <1>3 DEF Revive, At, Holds, Writers
  <2>2. feature' = [feature EXCEPT !["archived"] = FALSE] /\ Asked(feature', {"archived"})
    BY <1>3 DEF Revive, Update
  <2>. QED
    BY <1>1, <1>3, <2>1, <2>2 DEF Revive
<1>4. CASE SaveVariantsRow(r) /\ feature.project = req[r].project
  <2>1. req[r].kind \in Writers("variants") /\ req[r].value \in BOOLEAN
    BY <1>0, <1>4 DEF SaveVariantsRow, At, Holds, Writers, Request
  <2>2. feature' = [feature EXCEPT !["variants"] = req[r].value] /\ Asked(feature', {"variants"})
    BY <1>4 DEF SaveVariantsRow, Update
  <2>. QED
    BY <1>1, <1>4, <2>1, <2>2 DEF SaveVariantsRow
<1>. QED
  BY <1>2, <1>3, <1>4

LEMMA ContinueKeeps ==
    ASSUME RowInv, NEW r \in Requests, Continue(r), Nothing \notin Projects
    PROVE  RowInv'
<1>1. CASE ValidateContext(r) \/ ValidatePut(r)
  <2>1. CASE feature.project = req[r].project
    <3>1. CASE ValidateContext(r)
      <4>1. At(r, "validate") /\ Goto(r, "update") /\ UNCHANGED <<feature, asked, raced>>
        BY <2>1, <3>1 DEF ValidateContext
      <4>. QED
        BY <2>1, <4>1, GotoKeeps
    <3>2. CASE ValidatePut(r)
      BY <2>1, <3>2, GotoKeeps DEF ValidatePut
    <3>. QED
      BY <1>1, <3>1, <3>2
  <2>2. CASE feature.project # req[r].project
    BY <1>1, <2>2, FinishKeeps DEF ValidateContext, ValidatePut
  <2>. QED
    BY <2>1, <2>2
<1>2. CASE feature = NoRow /\ (UpdateRow(r) \/ Put(r) \/ Archive(r) \/ Revive(r) \/ SaveVariantsRow(r))
  BY <1>2, FinishKeeps DEF UpdateRow, Put, Archive, Revive, SaveVariantsRow, Update
<1>3. CASE feature # NoRow /\ (UpdateRow(r) \/ Put(r))
  BY <1>3, UpdateRowKeeps, PutKeeps
<1>4. CASE feature # NoRow /\ (Archive(r) \/ Revive(r) \/ SaveVariantsRow(r))
  BY <1>4, ColumnKeeps, FinishKeeps DEF SaveVariantsRow
<1>5. CASE Delete(r)
  BY <1>5, DeleteKeeps, FinishKeeps DEF Delete
<1>. QED
  BY <1>1, <1>2, <1>3, <1>4, <1>5 DEF Continue

LEMMA NextKeeps ==
    ASSUME RowInv, [Next]_vars, Nothing \notin Projects
    PROVE  RowInv'
<1>1. CASE UNCHANGED vars
  BY <1>1 DEF RowInv, TypeOK, OverlapsAreRaces, RowAsAsked, ReadAsAsked, BothWrite, vars, Holds
<1>. QED
  BY <1>1, CallKeeps, ContinueKeeps, CreateKeeps DEF Next

LEMMA InitRow == Init => RowInv
<1>. SUFFICES ASSUME Init
              PROVE  RowInv
  OBVIOUS
<1>1. \A r \in Requests : req[r] = Idle
  BY DEF Init
<1>2. TypeOK
  BY <1>1, IdleType DEF Init, TypeOK
<1>3. OverlapsAreRaces
  BY <1>1, Carriers DEF OverlapsAreRaces, BothWrite, Idle
<1>4. RowAsAsked /\ ReadAsAsked
  BY <1>1 DEF Init, RowAsAsked, ReadAsAsked, Idle, Nothing
<1>. QED
  BY <1>2, <1>3, <1>4 DEF RowInv

\* However many requests overlap, a column differs from what was asked for last
\* only if a request that wrote back what it had read raced with one about it.
THEOREM RowLossCorrect ==
    ASSUME Nothing \notin Projects
    PROVE  Spec => []LostOnlyByRaces
<1>1. RowInv /\ [Next]_vars => RowInv'
  BY NextKeeps
<1>2. RowInv => LostOnlyByRaces
  BY DEF RowInv, RowAsAsked, LostOnlyByRaces
<1>. QED
  BY InitRow, <1>1, <1>2, PTL DEF Spec

-----------------------------------------------------------------------------
\* What is written is a row: only a deletion leaves none, and that one looks
\* at the column that was asked for.
LEMMA OnlyArchivedGoes ==
    ASSUME RowInv, [Next]_vars, Nothing \notin Projects, feature # NoRow, feature' = NoRow
    PROVE  asked.archived \/ "archived" \in raced
<1>. USE DEF RowInv
<1>1. feature \in Row /\ feature' \notin Row
  BY RowFacts DEF TypeOK
<1>2. ASSUME NEW r \in Requests, UpdateRow(r)
      PROVE  FALSE
  <2>1. req[r] \in Request /\ Holds(req[r]) /\ req[r].kind \in {"stale", "patch", "project"}
    BY <1>2 DEF UpdateRow, At, TypeOK, Holds
  <2>2. Written(r) \in Row
    BY <2>1 DEF Written, DtoToRow, Row, Request, Fields, Holds
  <2>. QED
    BY <1>1, <1>2, <2>2 DEF UpdateRow, Update
<1>3. ASSUME NEW r \in Requests, Put(r)
      PROVE  FALSE
  <2>1. req[r] \in Request /\ req[r].project \in Projects
    BY <1>3 DEF Put, At, TypeOK, Holds
  <2>2. [DtoToRow(req[r].project, req[r].read) EXCEPT !.variants = feature.variants] \in Row
    BY <1>1, <2>1, PutRow DEF Request
  <2>. QED
    BY <1>1, <1>3, <2>2 DEF Put, Update
<1>4. ASSUME NEW r \in Requests, Archive(r) \/ Revive(r) \/ SaveVariantsRow(r)
      PROVE  FALSE
  <2>1. feature'.project = feature.project
    BY <1>1, <1>4 DEF Archive, Revive, SaveVariantsRow, Update, Row
  <2>. QED
    BY <1>1, <2>1 DEF NoRow, NewRow, Row
<1>5. ASSUME NEW r \in Requests, Delete(r)
      PROVE  feature.archived
  BY <1>5 DEF Delete, IsArchived
<1>6. feature.archived => asked.archived \/ "archived" \in raced
  BY DEF RowAsAsked, Fields
<1>7. ASSUME NEW r \in Requests, Call(r) \/ ValidateContext(r) \/ ValidatePut(r)
      PROVE  FALSE
  BY <1>7 DEF Call, ChangeProject, SaveVariants, PatchFeature, UpdateFeature, UpdateStale,
              ArchiveToggle, ReviveToggle, DeleteFeature, Reads, ValidateContext, ValidatePut
<1>8. ~ \E p \in Projects : CreateRow(p)
  BY DEF CreateRow
<1>9. ~ UNCHANGED vars
  BY DEF vars
<1>. QED
  BY <1>2, <1>3, <1>4, <1>5, <1>6, <1>7, <1>8, <1>9 DEF Next, Continue

\* A toggle is deleted only if the last request about its archiving archived
\* it, or that column was raced for.
THEOREM DeletionCorrect ==
    ASSUME Nothing \notin Projects
    PROVE  Spec => DeletedWhenArchived
<1>1. RowInv /\ [Next]_vars => RowInv'
  BY NextKeeps
<1>2. RowInv /\ [Next]_vars
         => [feature # NoRow /\ feature' = NoRow =>
                asked.archived \/ "archived" \in raced]_vars
  BY OnlyArchivedGoes
<1>. QED
  BY InitRow, <1>1, <1>2, PTL DEF Spec, DeletedWhenArchived
=============================================================================
