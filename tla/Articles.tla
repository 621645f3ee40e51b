------------------------------ MODULE Articles ------------------------------
(***************************************************************************)
(* Articles of the public site: their slugs, the redirects renames leave   *)
(* behind, and the files of their hero images                              *)
(* (app/services/articles_service.py).                                     *)
(*                                                                         *)
(* A handler that edits an article reads the row (Begin...), works on it   *)
(* and commits (Commit) the columns that differ from what it has read,     *)
(* because that is what SQLAlchemy's UPDATE contains; other requests may   *)
(* commit in between.  Articles are never deleted.                         *)
(***************************************************************************)
EXTENDS Naturals, FiniteSets, Sequences, Functions

CONSTANTS Ids,          \* ids of articles
          Slugs,
          Categories,
          Authors,
          Headings,     \* ids of headings
          Others,       \* blocks of the other kinds
          Bodies,       \* the bodies that are sent
          Payloads,     \* the articles that are sent to be created
          Patches,      \* the fields that are set in a PATCH, and to what
          Requests,     \* requests that may be under way at a time
          NoImage,
          NoRequest,
          MaxEdits      \* bound: edits that are begun

VARIABLES article,      \* articles, by id
          redirect,     \* article_redirects: from_slug -> to_slug
          files,        \* stored images: name -> article it was uploaded for
          categories,   \* slugs of article_categories
          authors,      \* slugs of article_authors
          req,          \* requests under way
          had,          \* history: the slugs an article has had
          raced,        \* history: articles whose edits have overlapped
          edits         \* edits begun

vars == <<article, redirect, files, categories, authors, req, had, raced, edits>>
----------------------------------------------------------------------------
ArticleStatus == {"draft", "published", "archived"}

(* The titles and ids of the headings of a body, in order. *)
BuildToc(body) == SelectSeq(body, LAMBDA block : block \in Headings)

(* Of a block, only the id of a heading matters. *)
ContentBlock == Headings \cup Others

(* A body has a block, and no two headings with one id. *)
ValidBody(body) ==
  body # <<>> /\ Range(body) \subseteq ContentBlock /\ IsInjective(BuildToc(body))

(* What the schemas let through: whole articles, and the fields of a PATCH. *)
(* An image that is named by hand is one from elsewhere: NoImage.          *)
ArticleWriteRequest(p) ==
  /\ p \in [slug : Slugs, status : ArticleStatus, body : Bodies, related : SUBSET Slugs]
  /\ ValidBody(p.body)
  /\ p.slug \notin p.related

PatchFields == [slug |-> Slugs, status |-> ArticleStatus, category |-> Categories, author |-> Authors,
                body |-> Bodies, related |-> SUBSET Slugs, image |-> {NoImage}]

ArticlePatchRequest(p) ==
  /\ \A f \in DOMAIN p : f \in DOMAIN PatchFields /\ p[f] \in PatchFields[f]
  /\ "body" \in DOMAIN p => ValidBody(p.body)
  /\ {"slug", "related"} \subseteq DOMAIN p => p.slug \notin p.related

Article == [slug : Slugs, status : ArticleStatus, category : Categories,
            author : Authors, body : Bodies,
            toc : {BuildToc(b) : b \in Bodies},
            related : SUBSET Slugs, image : Slugs \cup {NoImage}]

(* A request has read `was` and wants to write `now`; an upload has to     *)
(* store its file before that.                                             *)
Request == [id : Ids, was : Article, now : Article, upload : BOOLEAN]

TypeOK ==
  /\ DOMAIN article \subseteq Ids
  /\ \A x \in DOMAIN article : article[x] \in Article
  /\ DOMAIN redirect \subseteq Slugs
  /\ \A s \in DOMAIN redirect : redirect[s] \in Slugs
  /\ DOMAIN files \subseteq Slugs
  /\ \A k \in DOMAIN files : files[k] \in Ids
  /\ categories \subseteq Categories /\ authors \subseteq Authors
  /\ \A r \in Requests : req[r] = NoRequest \/ req[r] \in Request
  /\ had \in [Ids -> SUBSET Slugs]
  /\ raced \subseteq Ids
  /\ edits \in 0 .. MaxEdits

Init ==
  /\ article = <<>> /\ redirect = <<>> /\ files = <<>>
  /\ categories = {} /\ authors = {}
  /\ req = [r \in Requests |-> NoRequest]
  /\ had = [x \in Ids |-> {}]
  /\ raced = {} /\ edits = 0
----------------------------------------------------------------------------
Holders(s) == {x \in DOMAIN article : article[x].slug = s}

(* No article but x has the slug. *)
SlugAvailable(s, x) == Holders(s) \subseteq {x}

RelatedNotSelf(related, slug) == slug \notin related

CreateCategory(c) ==
  /\ c \notin categories
  /\ categories' = categories \cup {c}
  /\ UNCHANGED <<article, redirect, files, authors, req, had, raced, edits>>

CreateAuthor(a) ==
  /\ a \notin authors
  /\ authors' = authors \cup {a}
  /\ UNCHANGED <<article, redirect, files, categories, req, had, raced, edits>>

(* The unique key on the slug refuses at the commit what the check at the  *)
(* beginning has let through, so that creating is a single step.           *)
CreateArticle(x, p) ==
  /\ x \notin DOMAIN article
  /\ ArticleWriteRequest(p)
  /\ SlugAvailable(p.slug, x)
  /\ RelatedNotSelf(p.related, p.slug)
  /\ \E c \in categories, a \in authors :
       LET row == [slug |-> p.slug, status |-> p.status, category |-> c,
                   author |-> a, body |-> p.body, toc |-> BuildToc(p.body),
                   related |-> p.related, image |-> NoImage]
       IN  article' = [y \in DOMAIN article \cup {x} |->
                         IF y = x THEN row ELSE article[y]]
  /\ had' = [had EXCEPT ![x] = {p.slug}]
  /\ UNCHANGED <<redirect, files, categories, authors, req, raced, edits>>
----------------------------------------------------------------------------
(* Requests that edit an article.                                          *)

(* r has read article x and is going to turn it into `now`. *)
Begin(r, x, now, upload) ==
  /\ req[r] = NoRequest
  /\ edits < MaxEdits /\ edits' = edits + 1
  /\ req' = [req EXCEPT ![r] = [id |-> x, was |-> article[x], now |-> now,
                                upload |-> upload]]
  /\ raced' = IF \E q \in Requests : req[q] # NoRequest /\ req[q].id = x
              THEN raced \cup {x} ELSE raced
  /\ UNCHANGED <<article, redirect, files, categories, authors, had>>

\* Mutant: the table of contents is built when an article is created only.
PatchedWithoutToc(row, p) ==
  [f \in DOMAIN row |-> IF f \in DOMAIN p THEN p[f] ELSE row[f]]

Patched(row, p) ==
  [f \in DOMAIN row |->
     IF f = "toc" /\ "body" \in DOMAIN p THEN BuildToc(p.body)
     ELSE IF f \in DOMAIN p THEN p[f] ELSE row[f]]

\* Mutant: the slug from before a rename.
OwnSlugBefore(was, now) == was.slug

(* The slug the related ones are compared with. *)
OwnSlug(was, now) == now.slug

BeginUpdate(r, x, p) ==
  LET now == Patched(article[x], p) IN
  /\ ArticlePatchRequest(p)
  /\ RelatedNotSelf(now.related, OwnSlug(article[x], now))
  /\ SlugAvailable(now.slug, x)
  /\ "category" \in DOMAIN p => p.category \in categories
  /\ "author" \in DOMAIN p => p.author \in authors
  /\ Begin(r, x, now, FALSE)

BeginPublish(r, x) ==
  Begin(r, x, [article[x] EXCEPT !.status = "published"], FALSE)

BeginArchive(r, x) ==
  Begin(r, x, [article[x] EXCEPT !.status = "archived"], FALSE)

\* Mutant: images are named after the category.
ImageNameOfCategory(row) == row.category

(* The name a hero image is stored under. *)
ImageName(row) == row.slug

BeginUpload(r, x) ==
  Begin(r, x, [article[x] EXCEPT !.image = ImageName(article[x])], TRUE)

StoreFile(r) ==
  /\ req[r] # NoRequest /\ req[r].upload
  /\ LET name == ImageName(req[r].was)
     IN  files' = [k \in DOMAIN files \cup {name} |->
                     IF k = name THEN req[r].id ELSE files[k]]
  /\ req' = [req EXCEPT ![r].upload = FALSE]
  /\ UNCHANGED <<article, redirect, categories, authors, had, raced, edits>>

\* Mutant: every column is written, and with it what others have changed.
WrittenEntirely(row, was, now) == now

(* The columns in which `now` differs from `was`, written over `row`. *)
Written(row, was, now) ==
  [f \in DOMAIN row |-> IF now[f] = was[f] THEN row[f] ELSE now[f]]

(* The redirects follow an article whose slug changes (ON UPDATE CASCADE). *)
Cascaded(old, new) ==
  [s \in DOMAIN redirect |-> IF redirect[s] = old THEN new ELSE redirect[s]]

(* A rename adds a redirect from the slug the request has read; the unique *)
(* keys refuse a slug in use and a second redirect from one slug.          *)
Commit(r) ==
  LET q       == req[r]
      row     == Written(article[q.id], q.was, q.now)
      renamed == q.was.slug # q.now.slug
  IN
  /\ q # NoRequest /\ ~q.upload
  /\ renamed => SlugAvailable(row.slug, q.id) /\ q.was.slug \notin DOMAIN redirect
  /\ article' = [article EXCEPT ![q.id] = row]
  /\ redirect' = IF ~renamed THEN redirect
                 ELSE LET moved == Cascaded(article[q.id].slug, row.slug)
                      IN  [s \in DOMAIN redirect \cup {q.was.slug} |->
                             IF s = q.was.slug THEN row.slug ELSE moved[s]]
  /\ had' = [had EXCEPT ![q.id] = @ \cup {row.slug}]
  /\ req' = [req EXCEPT ![r] = NoRequest]
  /\ UNCHANGED <<files, categories, authors, raced, edits>>

(* A unique key refuses, or the process dies. *)
Fail(r) ==
  /\ req[r] # NoRequest
  /\ req' = [req EXCEPT ![r] = NoRequest]
  /\ UNCHANGED <<article, redirect, files, categories, authors, had, raced, edits>>

Next ==
  \/ \E c \in Categories : CreateCategory(c)
  \/ \E a \in Authors : CreateAuthor(a)
  \/ \E x \in Ids, p \in Payloads : CreateArticle(x, p)
  \/ \E r \in Requests, x \in DOMAIN article :
       \/ \E p \in Patches : BeginUpdate(r, x, p)
       \/ BeginPublish(r, x)
       \/ BeginArchive(r, x)
       \/ BeginUpload(r, x)
  \/ \E r \in Requests : StoreFile(r) \/ Commit(r) \/ Fail(r)

Spec == Init /\ [][Next]_vars
----------------------------------------------------------------------------
(* What a reader gets for a slug (get_public_article).                     *)

Answer(s) ==
  CASE \E x \in Holders(s) : article[x].status = "published" -> "page"
    [] \E x \in Holders(s) : article[x].status = "archived"  -> "gone"
    [] \E x \in Holders(s) : article[x].status = "draft"     -> "not found"
    [] Holders(s) = {} /\ s \in DOMAIN redirect              -> "moved"
    [] OTHER                                                 -> "not found"

(* An old link leads to its article, however often that has been renamed,  *)
(* back and forth or at the same time, unless another article has taken    *)
(* the slug: the answer is `moved`, and one hop ends at the article.       *)
OldLinksLeadHome ==
  \A x \in Ids : \A s \in had[x] :
    \/ Holders(s) # {}
    \/ Answer(s) = "moved" /\ Holders(redirect[s]) = {x}

(* The table of contents is that of the body, unless edits of the article  *)
(* have overlapped: it is a column of its own, and an edit whose headings  *)
(* are those it has read does not write it.                                *)
TocFollowsBody ==
  \A x \in DOMAIN article \ raced : article[x].toc = BuildToc(article[x].body)

(* No article is listed as related to itself, unless edits of it have      *)
(* overlapped: one renames it, another relates it to the new slug.         *)
NotRelatedToItself ==
  \A x \in DOMAIN article \ raced : article[x].slug \notin article[x].related

(* The image an article shows is one that was uploaded for it, unless its  *)
(* name, an old slug of the article, has since passed to another article.  *)
ImageIsOwn ==
  \A x \in DOMAIN article :
    LET k == article[x].image
    IN  \/ k = NoImage
        \/ k \in DOMAIN files /\ files[k] = x
        \/ \E y \in Ids \ {x} : k \in had[y]
=============================================================================
