------------------------------ MODULE Catalogue ------------------------------
(***************************************************************************)
(* The business knowledge of one domain: the handlers of app/api/domains.py *)
(* over the YAML file of the domain, the GlossaryManager or RuleEngine in  *)
(* memory, the rows of the MySQL store, and the two backends of MetricRAG. *)
(*                                                                         *)
(* A handler checks and changes memory and file in one go, then awaits its *)
(* MySQL statements, whose failure it ignores, then changes the indexes;   *)
(* what it adds to them is embedded by a task of its own after the reply.  *)
(* No lock is held over the awaits.  Terms and rules have the same         *)
(* handlers; their tables and their start-up differ.  A process without a  *)
(* MySQL store does what one whose statements fail does.  A file is written *)
(* whole or not at all, and reading rows for a list is one step.           *)
(***************************************************************************)
EXTENDS Naturals, FiniteSets

CONSTANTS Request, \* concurrent requests, each with its indexing task
          Name,    \* terms, or identifiers of rules
          Text,    \* what a term or rule says
          Says,    \* [Name -> SUBSET Text], which of them a name may say
          Kinds,   \* subset of {"terms", "rules"}
          Whole,   \* the domain itself, among the things that are changed
          MaxMishaps, \* bound of the model: failures of a file, of a statement or
                      \* of an index, and restarts, in one behaviour
          None

ASSUME CatalogueAssumption ==
    /\ Says \in [Name -> SUBSET Text]
    /\ Kinds \subseteq {"terms", "rules"}
    /\ Whole \notin Name
    /\ None \notin Name \cup Text \cup {Whole} \cup [Name -> Text \cup {None}]
    /\ MaxMishaps \in Nat

VARIABLES
    kind,   \* which of the two the process is looked at for
    file,   \* the YAML file of the domain: [Name -> Text \cup {None}], or None
    memory, \* [Name -> Text \cup {None}]
    row,    \* whether the table of domains has it
    rows,   \* [Name -> SUBSET Text], rows of its terms or rules
    lance,  \* [Name -> SUBSET Text], documents in LanceDB
    bm25,   \* [Name -> Text \cup {None}], documents in BM25
    req,    \* [Request -> Req]
    mishaps, \* failures and restarts so far, up to MaxMishaps
    badRows, badDocs \* history: what was last changed with a disturbance

catalogueVars == <<kind, file, memory, row, rows, lance, bm25, req, mishaps, badRows, badDocs>>
tables  == <<row, rows>>
indexes == <<lance, bm25>>
marks   == <<badRows, badDocs>>

Contents == {f \in [Name -> Text \cup {None}] : \A n \in Name : f[n] \in Says[n] \cup {None}}
Blank    == [n \in Name |-> None]
Stage    == {"idle", "erase", "save", "sync", "row", "drop", "clean", "index"}
Req      == [stage : Stage, from : Name \cup {None}, to : Name \cup {None},
             text : Text \cup {None}, rowsOk : BOOLEAN, docsOk : BOOLEAN]
Idle     == [stage |-> "idle", from |-> None, to |-> None, text |-> None,
             rowsOk |-> TRUE, docsOk |-> TRUE]

CatalogueTypeOK ==
    /\ kind \in Kinds
    /\ file \in Contents \cup {None} /\ memory \in Contents
    /\ row \in BOOLEAN /\ rows \in [Name -> SUBSET Text]
    /\ ~row => \A n \in Name : rows[n] = {}
    /\ lance \in [Name -> SUBSET Text] /\ bm25 \in Contents
    /\ req \in [Request -> Req]
    /\ mishaps \in 0 .. MaxMishaps
    /\ badRows \subseteq Name \cup {Whole} /\ badDocs \subseteq Name

-----------------------------------------------------------------------------
(* Helper state formulae *)

Loaded == file # None

Value(f, n) == {f[n]} \ {None}

InMemory == {n \in Name : memory[n] # None}

(* What the request changes: its names, or the domain with all of them.    *)
Touches(j) == CASE j.stage = "idle" -> {}
                [] j.stage = "row" -> {Whole}
                [] j.stage \in {"drop", "clean"} -> Name \cup {Whole}
                [] OTHER -> {j.from, j.to} \ {None}

(* r begins; requests that change the same things disturb each other.      *)
Begins(r, j) ==
    /\ req[r].stage = "idle"
    /\ LET others == {q \in Request : Touches(req[q]) \cap Touches(j) # {}}
           marked(k) == [k EXCEPT !.rowsOk = FALSE, !.docsOk = FALSE]
       IN  req' = [q \in Request |-> IF q = r THEN IF others = {} THEN j ELSE marked(j)
                                     ELSE IF q \in others THEN marked(req[q]) ELSE req[q]]
    /\ UNCHANGED <<kind, tables, indexes, marks>>

Goes(r, stage) == req' = [req EXCEPT ![r].stage = stage]

(* The request is through with the rows, or with the documents, it touched. *)
SettlesRows(j) == badRows' = IF j.rowsOk THEN badRows \ Touches(j) ELSE badRows \cup Touches(j)
SettlesDocs(j) == badDocs' = IF j.docsOk THEN badDocs \ Touches(j)
                                         ELSE badDocs \cup (Touches(j) \ {Whole})

(* One thing more goes wrong.                                              *)
Mishap == mishaps < MaxMishaps /\ mishaps' = mishaps + 1

(* _persist_domain_yaml writes what is in memory; an OSError is swallowed. *)
Persists == (file' = memory' /\ UNCHANGED mishaps) \/ (UNCHANGED file /\ Mishap)

(* What the manager makes of a change: an old name goes, the new one is    *)
(* there, whatever had it before.                                          *)
Changed(from, to, text) == [n \in Name |-> IF n = to THEN text
                                           ELSE IF n = from THEN None ELSE memory[n]]

CatalogueInit ==
    /\ kind \in Kinds
    /\ file \in Contents \cup {None}
    /\ memory = IF file = None THEN Blank ELSE file
    /\ row = FALSE
    /\ rows = [n \in Name |-> {}]
    /\ bm25 = IF kind = "terms" THEN memory ELSE Blank
    /\ lance = [n \in Name |-> Value(bm25, n)]
    /\ req = [r \in Request |-> Idle]
    /\ mishaps = 0
    /\ badRows = InMemory \cup (IF file = None THEN {} ELSE {Whole})
    /\ badDocs = IF kind = "terms" THEN {} ELSE InMemory

-----------------------------------------------------------------------------
(* The handlers up to their first await *)

Add(r, n, t) ==
    /\ Loaded
    /\ memory[n] = None
    /\ memory' = Changed(None, n, t)
    /\ Persists
    /\ Begins(r, [Idle EXCEPT !.stage = "save", !.to = n, !.text = t])

Change(r, m, n, t) ==
    /\ Loaded
    /\ memory[m] # None
    /\ memory' = Changed(m, n, t)
    /\ Persists
    /\ Begins(r, [Idle EXCEPT !.stage = IF m = n THEN "save" ELSE "erase",
                              !.from = IF m = n THEN None ELSE m, !.to = n, !.text = t])

Discard(r, m) ==
    /\ Loaded
    /\ memory[m] # None
    /\ memory' = Changed(m, None, None)
    /\ Persists
    /\ Begins(r, [Idle EXCEPT !.stage = "erase", !.from = m])

AddTerm(r, n, t)       == kind = "terms" /\ Add(r, n, t)
ChangeTerm(r, m, n, t) == kind = "terms" /\ Change(r, m, n, t)
RemoveTerm(r, m)       == kind = "terms" /\ Discard(r, m)
AddRule(r, n, t)       == kind = "rules" /\ Add(r, n, t)
ChangeRule(r, m, n, t) == kind = "rules" /\ Change(r, m, n, t)
RemoveRule(r, m)       == kind = "rules" /\ Discard(r, m)

CreateDomain(r) ==
    /\ ~Loaded
    /\ file' = Blank
    /\ Begins(r, [Idle EXCEPT !.stage = "row"])
    /\ UNCHANGED <<memory, mishaps>>

(* Its fields are changed in the file, which keeps its terms and rules.    *)
UpdateDomain(r) ==
    /\ Loaded
    /\ Begins(r, [Idle EXCEPT !.stage = "row"])
    /\ UNCHANGED <<file, memory, mishaps>>

DeleteDomain(r) ==
    /\ Loaded
    /\ file' = None
    /\ memory' = Blank
    /\ Begins(r, [Idle EXCEPT !.stage = "drop"])
    /\ UNCHANGED mishaps

-----------------------------------------------------------------------------
(* The statements, in the order in which the server comes to them *)

(* Mutant: INSERT IGNORE.                                                  *)
SavedOnce(n, t) == IF rows[n] = {} THEN {t} ELSE rows[n]

(* ON DUPLICATE KEY UPDATE.  The key of domain_rules is unique, so the row *)
(* is updated; glossary_terms has no such key and gets one row more.       *)
Saved(n, t) == {t} \cup IF kind = "terms" THEN rows[n] ELSE {}

(* The foreign key wants the domain's row.                                 *)
SaveRow(r) ==
    /\ req[r].stage = "save"
    /\ row
    /\ rows' = [rows EXCEPT ![req[r].to] = Saved(req[r].to, req[r].text)]
    /\ Goes(r, "sync")
    /\ UNCHANGED <<kind, file, memory, row, indexes, mishaps, marks>>

EraseRow(r) ==
    /\ req[r].stage = "erase"
    /\ rows' = [rows EXCEPT ![req[r].from] = {}]
    /\ Goes(r, IF req[r].to = None THEN "sync" ELSE "save")
    /\ UNCHANGED <<kind, file, memory, row, indexes, mishaps, marks>>

(* The statement fails, for want of the domain's row if for nothing else,  *)
(* or its answer is lost; a second one is then not sent.                   *)
StatementFails(r) ==
    /\ \/ req[r].stage = "save" /\ ~row /\ UNCHANGED <<rows, mishaps>>
       \/ /\ req[r].stage = "save" /\ row /\ Mishap
          /\ rows' \in {rows, [rows EXCEPT ![req[r].to] = Saved(req[r].to, req[r].text)]}
       \/ /\ req[r].stage = "erase" /\ Mishap
          /\ rows' \in {rows, [rows EXCEPT ![req[r].from] = {}]}
    /\ req' = [req EXCEPT ![r].stage = "sync", ![r].rowsOk = FALSE]
    /\ UNCHANGED <<kind, file, memory, row, indexes, marks>>

(* INSERT ... ON DUPLICATE KEY UPDATE of the domain's row, the last thing  *)
(* its request does.  The statement succeeds or fails, or its answer is    *)
(* lost.                                                                   *)
SaveDomain(r) ==
    /\ req[r].stage = "row"
    /\ \/ row' = TRUE /\ SettlesRows(req[r]) /\ UNCHANGED mishaps
       \/ row' \in {row, TRUE} /\ SettlesRows([req[r] EXCEPT !.rowsOk = FALSE]) /\ Mishap
    /\ req' = [req EXCEPT ![r] = Idle]
    /\ UNCHANGED <<kind, file, memory, rows, indexes, badDocs>>

(* DELETE cascades to the rows of terms and rules.                         *)
DropDomain(r) ==
    /\ req[r].stage = "drop"
    /\ LET dropped == row' = FALSE /\ rows' = [n \in Name |-> {}]
       IN  \/ dropped /\ Goes(r, "clean") /\ UNCHANGED mishaps
           \/ /\ dropped \/ UNCHANGED tables
              /\ req' = [req EXCEPT ![r].stage = "clean", ![r].rowsOk = FALSE]
              /\ Mishap
    /\ UNCHANGED <<kind, file, memory, indexes, marks>>

-----------------------------------------------------------------------------
(* What follows the last statement *)

(* Mutant: only a removal cleans LanceDB, a change of name does not.       *)
PurgedByRemoval(j) == IF j.from = None \/ j.to # None THEN lance
                      ELSE [lance EXCEPT ![j.from] = {}]

(* _remove_metric_from_rag of the old name: LanceDB deletes its document;  *)
(* BM25 compares metadata that has no doc_id and deletes nothing.          *)
Purged(j) == IF j.from = None THEN lance ELSE [lance EXCEPT ![j.from] = {}]

(* The old name leaves the index, or the deletion fails and is forgotten.  *)
(* The request is through with it; the new name is left to a task.         *)
Sync(r) ==
    /\ req[r].stage = "sync"
    /\ LET old(j) == [j EXCEPT !.to = None]
           lost   == [req[r] EXCEPT !.docsOk = FALSE]
       IN  \/ lance' = Purged(req[r]) /\ SettlesDocs(old(req[r])) /\ UNCHANGED mishaps
           \/ req[r].from # None /\ UNCHANGED lance /\ SettlesDocs(old(lost)) /\ Mishap
    /\ SettlesRows(req[r])
    /\ req' = [req EXCEPT ![r] = IF @.to = None THEN Idle
                                 ELSE [@ EXCEPT !.stage = "index", !.from = None, !.rowsOk = TRUE]]
    /\ UNCHANGED <<kind, file, memory, tables, bm25>>

(* Both backends are asked to delete by the field domain, which both have. *)
Clean(r) ==
    /\ req[r].stage = "clean"
    /\ SettlesRows(req[r])
    /\ \E d, s \in BOOLEAN :
          /\ IF d /\ s THEN UNCHANGED mishaps ELSE Mishap
          /\ lance' = IF d THEN [n \in Name |-> {}] ELSE lance
          /\ bm25' = IF s THEN Blank ELSE bm25
          /\ SettlesDocs(IF d /\ s THEN req[r] ELSE [req[r] EXCEPT !.docsOk = FALSE])
    /\ req' = [req EXCEPT ![r] = Idle]
    /\ UNCHANGED <<kind, file, memory, tables>>

(* index_metrics: LanceDB deletes the documents of the batch, a failure    *)
(* being suppressed, and inserts the new ones; then BM25 deletes and       *)
(* inserts.  If its insertion fails, what it deleted is gone when the next *)
(* call commits, and there again when one rolls back.                      *)
IndexSteps == {"deleted", "inserted", "keyed"}

IndexMetrics(batch, text, done) ==
    /\ "keyed" \in done => "inserted" \in done
    /\ lance' = [n \in Name |-> IF n \in batch
                                THEN (IF "deleted" \in done THEN {} ELSE lance[n])
                                     \cup (IF "inserted" \in done THEN {text[n]} ELSE {})
                                ELSE lance[n]]
    /\ \E gone \in SUBSET batch :
          /\ "keyed" \in done \/ "inserted" \notin done => gone = {}
          /\ bm25' = [n \in Name |-> IF "keyed" \in done /\ n \in batch THEN text[n]
                                     ELSE IF n \in gone THEN None ELSE bm25[n]]

(* The task of a request comes as far with its document as it does; any    *)
(* failure, that of the embedding included, is forgotten.                  *)
IndexMetric(r) ==
    /\ req[r].stage = "index"
    /\ \E done \in SUBSET IndexSteps :
          /\ IndexMetrics({req[r].to}, [n \in Name |-> req[r].text], done)
          /\ IF done = IndexSteps THEN SettlesDocs(req[r]) /\ UNCHANGED mishaps
             ELSE SettlesDocs([req[r] EXCEPT !.docsOk = FALSE]) /\ Mishap
    /\ req' = [req EXCEPT ![r] = Idle]
    /\ UNCHANGED <<kind, file, memory, tables, badRows>>

(* The process dies and starts again from the files.  Terms are indexed in *)
(* one batch, as far as that comes: its failure is forgotten, and disturbs *)
(* every term of the batch once something is deleted or inserted.  Nothing *)
(* else is ever removed, and rules are left.                               *)
Restart ==
    /\ Mishap
    /\ memory' = IF file = None THEN Blank ELSE file
    /\ LET cut == UNION {Touches(req[r]) : r \in Request}
           lost == {n \in Name : memory[n] # memory'[n]}
           fresh == {n \in Name : memory'[n] # None /\ kind = "terms"}
           bad == badDocs \cup lost \cup (cut \ {Whole})
       IN  /\ badRows' = badRows \cup cut \cup lost
           /\ \E done \in SUBSET IndexSteps :
                 /\ IndexMetrics(fresh, memory', done)
                 /\ badDocs' = IF done = IndexSteps THEN bad \ fresh
                               ELSE IF done = {} THEN bad ELSE bad \cup fresh
    /\ req' = [r \in Request |-> Idle]
    /\ UNCHANGED <<kind, file, tables>>

CatalogueNext ==
    \/ \E r \in Request :
          \/ \E n \in Name : \E t \in Says[n] : AddTerm(r, n, t) \/ AddRule(r, n, t)
          \/ \E m, n \in Name : \E t \in Says[n] : ChangeTerm(r, m, n, t) \/ ChangeRule(r, m, n, t)
          \/ \E m \in Name : RemoveTerm(r, m) \/ RemoveRule(r, m)
          \/ CreateDomain(r) \/ UpdateDomain(r) \/ DeleteDomain(r)
          \/ SaveRow(r) \/ EraseRow(r) \/ StatementFails(r) \/ SaveDomain(r) \/ DropDomain(r)
          \/ Sync(r) \/ Clean(r) \/ IndexMetric(r)
    \/ Restart

CatalogueSpec == CatalogueInit /\ [][CatalogueNext]_catalogueVars

-----------------------------------------------------------------------------
(* Properties *)

Quiet == \A r \in Request : req[r].stage = "idle"

(* list_glossary and list_rules: the rows if there are any, else memory.   *)
Listing(n) == IF \E m \in Name : rows[m] # {} THEN rows[n] ELSE Value(memory, n)

(* What lists show is what the process works with: a name whose last       *)
(* change met no failure, no restart and no other change of it is listed   *)
(* with what it now says if it is there and not at all if it is not, rules *)
(* with nothing else; and the domain is listed from the table as long as   *)
(* it is there.  One such change repairs what earlier ones left behind.    *)
(* (And every variable has its type.)                                      *)
ListsAreCurrent ==
    /\ CatalogueTypeOK
    /\ Quiet /\ Loaded => \A n \in Name \ badRows :
          LET now == Value(memory, n)
          IN  /\ now \subseteq Listing(n)
              /\ kind = "rules" \/ now = {} => Listing(n) = now
    /\ Quiet /\ Whole \notin badRows => (row <=> Loaded)

(* What a search for metrics finds is what the process works with, as far  *)
(* as documents are ever removed: LanceDB holds exactly what a name says   *)
(* now, BM25 at least that, unless the last change of the name, or a       *)
(* start-up that indexed it since, was disturbed or failed half-way; in    *)
(* whatever order the indexing tasks ran.                                  *)
MetricsAreCurrent == Quiet => \A n \in Name \ badDocs :
    /\ lance[n] = Value(memory, n)
    /\ memory[n] # None => bm25[n] = memory[n]
=============================================================================
