------------------------------ MODULE DocsSite ------------------------------
(***************************************************************************)
(* The documentation site: the articles table with the starter articles    *)
(* that every start of the process merges into it (lib/db.ts), the article *)
(* routes, and one tab of the editor (app/admin/ui.tsx).  A second editor  *)
(* works on the same table.  Title, section and order of an article are    *)
(* left out: nothing here depends on them.                                 *)
(***************************************************************************)
EXTENDS Naturals, Sequences, FiniteSets, SequencesExt

CONSTANTS Seeded,       \* bound: the starters considered, by seed key
          OldSlugs,     \* bound: slugs an older release may have left behind
          FreeSlugs,    \* bound: other slugs the editors type
          MaxId,        \* bound: articles ever created
          MaxEvents     \* bound: edits, saves, removals, uploads, acts of the
                        \* other editor, lost answers and crashes in a behaviour

None == "none"

\* The starter articles, one per platform.
AndroidRow == [slug |-> "android-happ", status |-> "published", body |-> "seed"]
IphoneRow  == [slug |-> "iphone-happ", status |-> "published", body |-> "seed"]
WindowsRow == [slug |-> "windows-fclashx", status |-> "published", body |-> "seed"]
MacosRow   == [slug |-> "macos-fclashx", status |-> "published", body |-> "seed"]
FaqRow     == [slug |-> "faq", status |-> "published", body |-> "seed"]

canonicalArticleSlugs ==
  {"android-happ", "iphone-happ", "windows-fclashx", "macos-fclashx", "faq"}

primaryLegacySlugsBySeedKey ==
  [key \in canonicalArticleSlugs |->
     CASE key = "android-happ"    -> {"android-happ-kak-podklyuchit-vpn"}
       [] key = "iphone-happ"     -> {"iphone-ipad-happ-kak-podklyuchit-vpn"}
       [] key = "windows-fclashx" -> {"windows-fclashx-kak-podklyuchit-vpn"}
       [] key = "macos-fclashx"   -> {"macos-fclashx-kak-podklyuchit-vpn"}
       [] OTHER                   -> {}]

legacySeedSlugs ==
  UNION {primaryLegacySlugsBySeedKey[key] : key \in canonicalArticleSlugs} \union
  {"android-happ-kak-skachat-i-ustanovit-happ",
   "windows-fclashx-kak-skachat-i-ustanovit-flclashx",
   "macos-fclashx-kak-skachat-i-ustanovit-flclashx",
   "prevyshen-limit-ustroystv", "kak-udalit-staroe-ustroystvo",
   "vpn-ne-podklyuchaetsya", "profil-ne-importiruetsya", "kuda-obratitsya-za-pomoschyu"}

CURRENT_SEED_REVISION == 1

Slugs == Seeded \union OldSlugs \union FreeSlugs
Status == {"draft", "published"}
Body == {"", "seed", "old", "mine", "other"}
Id == 1 .. MaxId
Article == [id : Id, slug : Slugs, status : Status, body : Body,
            key : Seeded \union {None}, rev : 0 .. CURRENT_SEED_REVISION]
\* `from` is the article whose text the form shows, a history field.
Form == [slug : Slugs \union {""}, status : Status, body : Body,
         from : Id \union {0}]
emptyArticle == [slug |-> "", status |-> "draft", body |-> "", from |-> 0]

VARIABLES articles,   \* the table
          nextId,     \* AUTOINCREMENT
          running,    \* the process has started and seeded
          list,       \* the tab: its copy of the table
          sel,        \* the tab: selectedId, 0 for null
          form,
          call,       \* the tab: the save or remove in progress
          load,       \* the tab: its first render still waits for the list
          upload,     \* the tab: an image upload with the text it will write back
          crossed,    \* history: an upload has finished in another article's form
          spent       \* the bounded events so far

table == <<articles, nextId>>
editor == <<list, sel, form>>
vars == <<articles, nextId, running, list, sel, form, call, load, upload, crossed, spent>>

NoCall == [op |-> None, at |-> None, id |-> 0, payload |-> emptyArticle]
NoUpload == [from |-> 0, body |-> None]
Stage == {None, "request", "checked", "answered", "list", "failed"}

TypeOK ==
  /\ articles \subseteq Article
  /\ nextId \in 1 .. MaxId + 1
  /\ \A a, b \in articles : a.id = b.id \/ a.slug = b.slug => a = b
  /\ \A a \in articles : a.id < nextId
  /\ running \in BOOLEAN /\ crossed \in BOOLEAN
  /\ list \subseteq Article /\ sel \in Id \union {0} /\ form \in Form
  /\ call \in [op : {None, "save", "remove"}, at : Stage, id : Id \union {0},
               payload : Form]
  /\ load \in BOOLEAN
  /\ spent \in 0 .. MaxEvents
  /\ upload \in [from : Id \union {0}, body : Body \union {None}]

-----------------------------------------------------------------------------
\* seed

Unique(rows) == \A a, b \in rows : a.slug = b.slug => a = b
First(rows) == CHOOSE a \in rows : \A b \in rows : a.id <= b.id

FindStarterAny(rows, key) ==                                       \* mutant
  {a \in rows : a.key = key \/ a.slug \in {key} \union primaryLegacySlugsBySeedKey[key]}
FindStarter(rows, key) ==
  LET byKey  == {a \in rows : a.key = key}
      bySlug == {a \in rows : a.slug = key}
      legacy == {a \in rows : a.slug \in primaryLegacySlugsBySeedKey[key]}
  IN  IF byKey # {} THEN byKey ELSE IF bySlug # {} THEN bySlug ELSE legacy

OutdatedAlways(starter) == TRUE                                    \* mutant
Outdated(starter) == starter.rev < CURRENT_SEED_REVISION

SeedOne(db, row) ==
  LET found   == FindStarter(db.rows, row.slug)
      starter == First(found)
      Fill(id, slug) == [id |-> id, slug |-> slug, status |-> row.status, body |-> row.body,
                         key |-> row.slug, rev |-> CURRENT_SEED_REVISION]
      Slug == IF starter.slug \in {row.slug} \union primaryLegacySlugsBySeedKey[row.slug]
              THEN row.slug ELSE starter.slug
  IN  IF found = {} THEN [rows |-> db.rows \union {Fill(db.next, row.slug)}, next |-> db.next + 1]
      ELSE IF ~Outdated(starter) THEN db
      ELSE [db EXCEPT !.rows = (@ \ {starter}) \union {Fill(starter.id, Slug)}]

HideLegacy(rows) ==
  {IF a.slug \in legacySeedSlugs \ canonicalArticleSlugs THEN [a EXCEPT !.status = "draft"] ELSE a
     : a \in rows}

SeedIfIncluded(db, row) == IF row.slug \in Seeded THEN SeedOne(db, row) ELSE db

\* The starters in the order of initialArticles.
InitialArticles(db) ==
  LET android == SeedIfIncluded(db, AndroidRow)
      iphone  == SeedIfIncluded(android, IphoneRow)
      windows == SeedIfIncluded(iphone, WindowsRow)
      macos   == SeedIfIncluded(windows, MacosRow)
  IN  SeedIfIncluded(macos, FaqRow)

Seed(rows, next) ==
  LET db == InitialArticles([rows |-> rows, next |-> next])
  IN  [db EXCEPT !.rows = HideLegacy(@)]

\* What an older release may have left: articles without key or revision.
OldDatabase(slugs) ==
  LET order == SetToSeq(slugs)
  IN  {[id |-> i, slug |-> order[i], status |-> "published", body |-> "old",
        key |-> None, rev |-> 0] : i \in DOMAIN order}

Init ==
  /\ \E slugs \in SUBSET (OldSlugs \union Seeded) :
       articles = OldDatabase(slugs) /\ nextId = Cardinality(slugs) + 1
  /\ running = FALSE
  /\ list = {} /\ sel = 0 /\ form = emptyArticle
  /\ call = NoCall /\ load = TRUE /\ upload = NoUpload
  /\ crossed = FALSE
  /\ spent = 0

Spend == spent < MaxEvents /\ spent' = spent + 1

\* getDb of the first request of a process; one transaction.
Start ==
  /\ ~running /\ running' = TRUE
  /\ LET db == Seed(articles, nextId) IN
       /\ db.next <= MaxId + 1
       /\ IF Unique(db.rows) THEN articles' = db.rows /\ nextId' = db.next
                             ELSE UNCHANGED table
  /\ UNCHANGED <<editor, call, load, upload, crossed, spent>>

\* The process ends; requests it was serving fail in the browser.
Crash ==
  /\ running /\ running' = FALSE
  /\ Spend
  /\ call' = IF call.at \in {"request", "checked", "list"} THEN [call EXCEPT !.at = "failed"] ELSE call
  /\ UNCHANGED <<table, editor, load, upload, crossed>>

-----------------------------------------------------------------------------
\* The article routes

TakenNever(slug, id) == FALSE                                      \* mutant
Taken(slug, id) == \E a \in articles : a.slug = slug /\ a.id # id

Created(id, f, rows) ==
  rows \union {[id |-> id, slug |-> f.slug, status |-> f.status, body |-> f.body,
                key |-> None, rev |-> 0]}

Updated(id, f, rows) ==
  {IF a.id = id THEN [a EXCEPT !.slug = f.slug, !.status = f.status, !.body = f.body] ELSE a
     : a \in rows}

\* An untouched form has no title and is refused.  The answer carries the saved
\* row: call.id becomes its id.
PostArticle ==
  /\ running /\ call.op = "save" /\ call.at = "request" /\ call.id = 0
  /\ IF call.payload.slug = "" \/ Taken(call.payload.slug, 0)
     THEN call' = [call EXCEPT !.at = "failed"] /\ UNCHANGED table
     ELSE /\ nextId <= MaxId
          /\ articles' = Created(nextId, call.payload, articles)
          /\ nextId' = nextId + 1
          /\ call' = [call EXCEPT !.at = "answered", !.id = nextId]
  /\ UNCHANGED <<running, editor, load, upload, crossed, spent>>

\* PUT looks the article up, then awaits the body of the request ...
PutCheck ==
  /\ running /\ call.op = "save" /\ call.at = "request" /\ call.id # 0
  /\ call' = [call EXCEPT !.at = IF \E a \in articles : a.id = call.id THEN "checked" ELSE "failed"]
  /\ UNCHANGED <<table, running, editor, load, upload, crossed, spent>>

\* ... and writes.  An article deleted in between is not written, and the
\* missing row makes the answer an error.
PutWrite ==
  /\ running /\ call.at = "checked"
  /\ IF Taken(call.payload.slug, call.id) \/ \A a \in articles : a.id # call.id
     THEN call' = [call EXCEPT !.at = "failed"] /\ UNCHANGED table
     ELSE /\ articles' = Updated(call.id, call.payload, articles)
          /\ call' = [call EXCEPT !.at = "answered"]
          /\ UNCHANGED nextId
  /\ UNCHANGED <<running, editor, load, upload, crossed, spent>>

DeleteArticle ==
  /\ running /\ call.op = "remove" /\ call.at = "request"
  /\ articles' = {a \in articles : a.id # call.id}
  /\ call' = [call EXCEPT !.at = "answered"]
  /\ UNCHANGED <<nextId, running, editor, load, upload, crossed, spent>>

listAllArticles == articles

Rewritten(a) == [a EXCEPT !.body = "other"]

\* Another editor saves, creates or deletes through the same routes.
OtherEditor ==
  /\ running /\ Spend
  /\ \/ \E a \in articles : articles' = articles \ {a} /\ UNCHANGED nextId
     \/ \E a \in articles :
          /\ \/ \E slug \in Slugs :
                  ~Taken(slug, a.id) /\ articles' = Updated(a.id, [Rewritten(a) EXCEPT !.slug = slug], articles)
             \/ articles' = Updated(a.id, [Rewritten(a) EXCEPT !.status = "draft"], articles)
          /\ UNCHANGED nextId
     \/ \E slug \in Slugs :
          /\ ~Taken(slug, 0) /\ nextId <= MaxId
          /\ articles' = Created(nextId, [slug |-> slug, status |-> "published", body |-> "other"], articles)
          /\ nextId' = nextId + 1
  /\ UNCHANGED <<running, editor, call, load, upload, crossed>>

-----------------------------------------------------------------------------
\* The editor's tab

FormOf(a) == [slug |-> a.slug, status |-> a.status, body |-> a.body, from |-> a.id]
selected == \E a \in list : a.id = sel

SelectIdOnly(a) == sel' = a.id /\ UNCHANGED form                   \* mutant
SelectArticle(a) == sel' = a.id /\ form' = FormOf(a)

\* The first loadArticles, with its GET: in its closure selectedId is null
\* whatever the editor has done meanwhile, so it selects the first row.
FinishLoad ==
  /\ running /\ load /\ load' = FALSE
  /\ list' = listAllArticles
  /\ IF articles = {} THEN UNCHANGED <<sel, form>> ELSE \E a \in articles : SelectArticle(a)
  /\ UNCHANGED <<table, running, call, upload, crossed, spent>>

ClickArticle(a) ==
  /\ a.id # sel /\ SelectArticle(a)
  /\ UNCHANGED <<table, running, list, call, load, upload, crossed, spent>>

NewArticle ==
  /\ sel' = 0 /\ form' = emptyArticle
  /\ UNCHANGED <<table, running, list, call, load, upload, crossed, spent>>

\* What the fields of the form and the buttons above its text can make of it.
Edited == {[form EXCEPT !.slug = slug, !.body = "mine"] : slug \in Slugs}
          \union {[form EXCEPT !.status = status, !.body = "mine"] : status \in Status}

\* update and setTitle, which fills an empty slug.
Type ==
  /\ Spend /\ form' \in Edited
  /\ UNCHANGED <<table, running, list, sel, call, load, upload, crossed>>

\* The buttons are disabled while saving; only a selected article is removed.
CanSave == call = NoCall
CanRemove == CanSave /\ selected

\* PUT to the selected article, POST when none of the list is selected.
Save ==
  /\ CanSave /\ Spend
  /\ call' = [NoCall EXCEPT !.op = "save", !.at = "request", !.payload = form,
                            !.id = IF selected THEN sel ELSE 0]
  /\ UNCHANGED <<table, running, editor, load, upload, crossed>>

RemoveArticle ==
  /\ CanRemove /\ Spend
  /\ call' = [NoCall EXCEPT !.op = "remove", !.at = "request", !.id = sel]
  /\ UNCHANGED <<table, running, editor, load, upload, crossed>>

\* The answer arrives; the list is requested again.
Answered ==
  /\ call.at = "answered" /\ call' = [call EXCEPT !.at = "list"]
  /\ IF call.op = "remove" THEN sel' = 0 /\ form' = emptyArticle ELSE UNCHANGED <<sel, form>>
  /\ UNCHANGED <<table, running, list, load, upload, crossed, spent>>

AnswerLost ==
  /\ call.at = "answered" /\ Spend
  /\ call' = [call EXCEPT !.at = "failed"]
  /\ UNCHANGED <<table, running, editor, load, upload, crossed>>

\* loadArticles, with its GET.  After a save its article is selected, whatever
\* is on the screen by now.
Finish ==
  /\ running /\ call.at = "list" /\ call' = NoCall
  /\ list' = listAllArticles
  /\ IF call.op = "save"
     THEN sel' = call.id /\ form' = [call.payload EXCEPT !.from = call.id]
     ELSE UNCHANGED <<sel, form>>
  /\ UNCHANGED <<table, running, load, upload, crossed, spent>>

Fail ==
  /\ call.at = "failed" /\ call' = NoCall
  /\ UNCHANGED <<table, running, editor, load, upload, crossed, spent>>

\* uploadImage keeps the text of the form it was started from ...
UploadImage ==
  /\ upload = NoUpload /\ Spend
  /\ upload' = [from |-> form.from, body |-> form.body]
  /\ UNCHANGED <<table, running, editor, call, load, crossed>>

\* ... and insert writes that text back, with the image, into the form that is
\* on the screen when the upload ends.
InsertImage ==
  /\ upload # NoUpload /\ upload' = NoUpload
  /\ form' = [form EXCEPT !.body = upload.body, !.from = upload.from]
  /\ crossed' = (crossed \/ upload.from # form.from)
  /\ UNCHANGED <<table, running, list, sel, call, load, spent>>

Next ==
  \/ Start \/ Crash \/ OtherEditor
  \/ PostArticle \/ PutCheck \/ PutWrite \/ DeleteArticle
  \/ FinishLoad \/ NewArticle \/ Type \/ Save \/ RemoveArticle
  \/ \E a \in list : ClickArticle(a)
  \/ Answered \/ AnswerLost \/ Finish \/ Fail \/ UploadImage \/ InsertImage

Spec == Init /\ [][Next]_vars

-----------------------------------------------------------------------------
\* Whatever the editors and older releases have made of the table, the seed
\* transaction of the next start succeeds (no two articles claim one slug), and
\* a second start would change nothing more.
SeedSettles ==
  LET once == Seed(articles, nextId)
  IN  Unique(once.rows) /\ Seed(once.rows, once.next) = once

\* A start keeps what editors have made of a starter article, its slug and
\* draft status included, unless they gave it a slug the seed hides.
RestartKeepsEdits ==
  [][~running /\ running' =>
       \A a \in articles : a.rev = CURRENT_SEED_REVISION /\ a.slug \notin legacySeedSlugs
                            => a \in articles']_vars

\* An article is never overwritten with the text of another one, however the
\* editor clicks while answers are on their way, as long as no image upload
\* ends in the form of an article it was not started from.
OwnText ==
  call.op = "save" /\ call.at = "request" /\ call.id # 0 /\ ~crossed => call.payload.from = call.id
=============================================================================
