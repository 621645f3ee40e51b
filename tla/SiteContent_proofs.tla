------------------------- MODULE SiteContent_proofs -------------------------
(***************************************************************************)
(* Proofs about Releases and about Articles, which have nothing in common: *)
(* each for any sets of rows, requests, slugs, bodies and patches, and any *)
(* bound on the requests that are begun.                                   *)
(***************************************************************************)
EXTENDS SiteContent, FiniteSetTheorems, TLAPS

----------------------------------------------------------------------------
(* Articles.                                                               *)

ArticlesTyped ==
  /\ DOMAIN article \subseteq ArticleIds
  /\ \A x \in DOMAIN article : article[x] \in A!Article
  /\ categories \subseteq Categories /\ authors \subseteq Authors
  /\ had \in [ArticleIds -> SUBSET Slugs]

SlugsHeldOnce ==
  \A x, y \in DOMAIN article : article[x].slug = article[y].slug => x = y

(* The slugs an article has had are those it has and those that redirect.  *)
SlugsRedirect ==
  \A x \in ArticleIds :
    /\ x \notin DOMAIN article => had[x] = {}
    /\ x \in DOMAIN article => article[x].slug \in had[x]
    /\ \A s \in had[x] : x \in DOMAIN article /\ (article[x].slug # s => s \in DOMAIN redirect)

(* A slug that nobody holds leads to the article that has had it. *)
RedirectsLeadHome ==
  \A x \in ArticleIds : \A s \in had[x] : A!Holders(s) = {} => A!Holders(redirect[s]) = {x}

(* The image k is one of article x's own, or its name has passed on.  *)
Owns(x, k) ==
  \/ k = NoImage
  \/ k \in DOMAIN images /\ images[k] = x
  \/ \E y \in ArticleIds \ {x} : k \in had[y]

(* What an edit has read and what it will write. *)
EditFits(q) ==
  /\ q \in A!Request
  /\ q.id \in DOMAIN article
  /\ q.was.slug \in had[q.id]
  /\ q.upload => q.now = [q.was EXCEPT !.image = A!ImageName(q.was)]
  /\ ~q.upload /\ q.now.image # q.was.image => Owns(q.id, q.now.image)
  /\ q.id \notin overlapped =>
       /\ q.was = article[q.id]
       /\ q.now.toc = A!BuildToc(q.now.body)
       /\ q.now.slug \notin q.now.related

EditsFit ==
  /\ DOMAIN edit = Requests
  /\ \A r \in Requests : edit[r] # NoRequest => EditFits(edit[r])
  /\ \A r, s \in Requests :
       edit[r] # NoRequest /\ edit[s] # NoRequest /\ edit[r].id = edit[s].id /\ r # s
         => edit[r].id \in overlapped

ArticlesInv ==
  /\ ArticlesTyped
  /\ SlugsHeldOnce /\ SlugsRedirect /\ RedirectsLeadHome
  /\ EditsFit
  /\ TocFollowsBody /\ NotRelatedToItself /\ ImageIsOwn

\* A row is a record of these columns.
LEMMA ArticleIsRecord ==
    ASSUME NEW a \in A!Article
    PROVE  /\ a.slug \in Slugs /\ a.status \in A!ArticleStatus /\ a.category \in Categories
           /\ a.author \in Authors /\ a.body \in Bodies /\ a.toc \in {A!BuildToc(b) : b \in Bodies}
           /\ a.related \in SUBSET Slugs /\ a.image \in Slugs \cup {NoImage}
           /\ DOMAIN a = {"slug", "status", "category", "author", "body", "toc", "related", "image"}
           /\ a = [f \in DOMAIN a |-> a[f]]
BY DEF A!Article

\* A commit writes the columns that differ from what was read.
LEMMA WrittenFields ==
    ASSUME NEW row \in A!Article, NEW was \in A!Article, NEW now \in A!Article
    PROVE  LET new == A!Written(row, was, now) IN
           /\ new \in A!Article
           /\ new.slug = IF now.slug = was.slug THEN row.slug ELSE now.slug
           /\ new.image = IF now.image = was.image THEN row.image ELSE now.image
           /\ row = was => new = now
<1> DEFINE new == A!Written(row, was, now)
<1>1. /\ DOMAIN new = {"slug", "status", "category", "author", "body", "toc", "related", "image"}
      /\ new = [f \in DOMAIN new |-> IF now[f] = was[f] THEN row[f] ELSE now[f]]
  BY ArticleIsRecord DEF A!Written
<1> HIDE DEF new
<1>2. /\ new.slug = IF now.slug = was.slug THEN row.slug ELSE now.slug
      /\ new.status = IF now.status = was.status THEN row.status ELSE now.status
      /\ new.category = IF now.category = was.category THEN row.category ELSE now.category
      /\ new.author = IF now.author = was.author THEN row.author ELSE now.author
      /\ new.body = IF now.body = was.body THEN row.body ELSE now.body
      /\ new.toc = IF now.toc = was.toc THEN row.toc ELSE now.toc
      /\ new.related = IF now.related = was.related THEN row.related ELSE now.related
      /\ new.image = IF now.image = was.image THEN row.image ELSE now.image
  BY <1>1
<1>3. new = [slug |-> new.slug, status |-> new.status, category |-> new.category, author |-> new.author,
             body |-> new.body, toc |-> new.toc, related |-> new.related, image |-> new.image]
  BY <1>1
<1>4. new \in A!Article
  <2>1. /\ new.slug \in Slugs /\ new.status \in A!ArticleStatus /\ new.category \in Categories
        /\ new.author \in Authors /\ new.body \in Bodies /\ new.toc \in {A!BuildToc(b) : b \in Bodies}
        /\ new.related \in SUBSET Slugs /\ new.image \in Slugs \cup {NoImage}
    BY <1>2, ArticleIsRecord
  <2> QED
    BY <1>3, <2>1 DEF A!Article
<1>5. ASSUME row = was PROVE new = now
  <2>1. DOMAIN now = DOMAIN new /\ now = [f \in DOMAIN now |-> now[f]]
    BY <1>1, ArticleIsRecord
  <2>2. \A f \in DOMAIN new : new[f] = now[f]
    BY <1>1, <1>5
  <2> QED
    BY <1>1, <2>1, <2>2
<1> QED
  BY <1>2, <1>4, <1>5 DEF new

\* A PATCH writes the table of contents with the body, and no other image.
LEMMA PatchedFields ==
    ASSUME NEW row \in A!Article, NEW p, A!ArticlePatchRequest(p)
    PROVE  LET new == A!Patched(row, p) IN
           /\ new \in A!Article
           /\ row.toc = A!BuildToc(row.body) => new.toc = A!BuildToc(new.body)
           /\ new.image # row.image => new.image = NoImage
<1> DEFINE new == A!Patched(row, p)
           Taken(f) == IF f \in DOMAIN p THEN p[f] ELSE row[f]
           toc == IF "body" \in DOMAIN p THEN A!BuildToc(p.body) ELSE row.toc
<1>1. \A f \in DOMAIN p : f \in DOMAIN A!PatchFields /\ p[f] \in A!PatchFields[f]
  BY DEF A!ArticlePatchRequest
<1>2. /\ DOMAIN A!PatchFields = {"slug", "status", "category", "author", "body", "related", "image"}
      /\ A!PatchFields.slug = Slugs /\ A!PatchFields.status = A!ArticleStatus
      /\ A!PatchFields.category = Categories /\ A!PatchFields.author = Authors
      /\ A!PatchFields.body = Bodies /\ A!PatchFields.related = SUBSET Slugs
      /\ A!PatchFields.image = {NoImage}
  BY DEF A!PatchFields
<1>3. "toc" \notin DOMAIN p
  BY <1>1, <1>2
<1>4. /\ DOMAIN new = {"slug", "status", "category", "author", "body", "toc", "related", "image"}
      /\ new = [f \in DOMAIN new |-> new[f]]
      /\ new.slug = Taken("slug") /\ new.status = Taken("status") /\ new.category = Taken("category")
      /\ new.author = Taken("author") /\ new.body = Taken("body") /\ new.related = Taken("related")
      /\ new.image = Taken("image") /\ new.toc = toc
  BY <1>3, ArticleIsRecord DEF A!Patched
<1>5. /\ Taken("slug") \in Slugs /\ Taken("status") \in A!ArticleStatus /\ Taken("category") \in Categories
      /\ Taken("author") \in Authors /\ Taken("body") \in Bodies /\ Taken("related") \in SUBSET Slugs
      /\ Taken("image") \in {row.image, NoImage}
  BY <1>1, <1>2, ArticleIsRecord
<1>6. /\ toc \in {A!BuildToc(b) : b \in Bodies}
      /\ row.toc = A!BuildToc(row.body) => toc = A!BuildToc(Taken("body"))
  BY <1>1, <1>2, ArticleIsRecord
<1> HIDE DEF new, toc, Taken
<1>7. new = [slug |-> new.slug, status |-> new.status, category |-> new.category, author |-> new.author,
             body |-> new.body, toc |-> new.toc, related |-> new.related, image |-> new.image]
  BY <1>4
<1>8. new \in A!Article
  <2>1. new.image \in Slugs \cup {NoImage}
    BY <1>4, <1>5, ArticleIsRecord
  <2> QED
    BY <1>4, <1>5, <1>6, <1>7, <2>1 DEF A!Article
<1>9. /\ row.toc = A!BuildToc(row.body) => new.toc = A!BuildToc(new.body)
      /\ new.image # row.image => new.image = NoImage
  BY <1>4, <1>5, <1>6
<1> QED
  BY <1>8, <1>9 DEF new

LEMMA ArticlesInvInit == A!Init => ArticlesInv
<1> SUFFICES ASSUME A!Init PROVE ArticlesInv
  OBVIOUS
<1>1. /\ DOMAIN article = {} /\ DOMAIN redirect = {} /\ DOMAIN images = {}
      /\ categories = {} /\ authors = {} /\ overlapped = {}
      /\ DOMAIN edit = Requests /\ \A r \in Requests : edit[r] = NoRequest
      /\ had = [x \in ArticleIds |-> {}]
  BY DEF A!Init
<1> QED
  BY <1>1 DEF ArticlesInv, ArticlesTyped, SlugsHeldOnce, SlugsRedirect, RedirectsLeadHome, EditsFit,
       TocFollowsBody, A!TocFollowsBody, NotRelatedToItself, A!NotRelatedToItself, ImageIsOwn, A!ImageIsOwn

\* What an invariant about rows and redirects alone does not notice.
LEMMA RowsAlone ==
    ASSUME ArticlesInv, UNCHANGED <<article, redirect, had>>
    PROVE  SlugsHeldOnce' /\ SlugsRedirect' /\ RedirectsLeadHome'
BY DEF ArticlesInv, SlugsHeldOnce, SlugsRedirect, RedirectsLeadHome, A!Holders

LEMMA CreateArticleKeeps ==
    ASSUME ArticlesInv, NEW x \in ArticleIds, NEW p \in Payloads, A!CreateArticle(x, p)
    PROVE  ArticlesInv'
<1>1. PICK c \in categories, a \in authors :
        article' = [y \in DOMAIN article \cup {x} |->
                      IF y = x THEN [slug |-> p.slug, status |-> p.status, category |-> c, author |-> a,
                                     body |-> p.body, toc |-> A!BuildToc(p.body), related |-> p.related,
                                     image |-> NoImage]
                      ELSE article[y]]
  BY DEF A!CreateArticle
<1> DEFINE row == [slug |-> p.slug, status |-> p.status, category |-> c, author |-> a,
                   body |-> p.body, toc |-> A!BuildToc(p.body), related |-> p.related, image |-> NoImage]
<1>2. /\ x \notin DOMAIN article /\ p.slug \notin p.related /\ A!Holders(p.slug) = {}
      /\ p \in [slug : Slugs, status : A!ArticleStatus, body : Bodies, related : SUBSET Slugs]
      /\ had' = [had EXCEPT ![x] = {p.slug}]
      /\ UNCHANGED <<redirect, images, categories, authors, edit, overlapped, edits>>
  BY DEF A!CreateArticle, A!ArticleWriteRequest, A!SlugAvailable, A!Holders
<1>3. categories \subseteq Categories /\ authors \subseteq Authors /\ had \in [ArticleIds -> SUBSET Slugs]
  BY DEF ArticlesInv, ArticlesTyped
<1>4. /\ row \in A!Article /\ row.slug = p.slug /\ row.image = NoImage
      /\ row.toc = A!BuildToc(row.body) /\ row.slug \notin row.related
  BY <1>2, <1>3 DEF A!Article
<1> HIDE DEF row
<1>5. /\ DOMAIN article' = DOMAIN article \cup {x} /\ article'[x] = row
      /\ \A y \in DOMAIN article : y # x /\ article'[y] = article[y]
  BY <1>1, <1>2 DEF row
<1>6. had' \in [ArticleIds -> SUBSET Slugs] /\ had'[x] = {p.slug} /\ \A y \in ArticleIds \ {x} : had'[y] = had[y]
  BY <1>2, <1>3
<1>7. \A y \in DOMAIN article : y \in ArticleIds /\ article[y] \in A!Article /\ article[y].slug # p.slug
  BY <1>2 DEF ArticlesInv, ArticlesTyped, A!Holders
<1>8. ArticlesTyped'
  BY <1>2, <1>4, <1>5, <1>6 DEF ArticlesInv, ArticlesTyped
<1>9. SlugsHeldOnce'
  BY <1>4, <1>5, <1>7 DEF ArticlesInv, SlugsHeldOnce
<1>10. SlugsRedirect'
  BY <1>2, <1>4, <1>5, <1>6 DEF ArticlesInv, SlugsRedirect
<1>11. \A s : A!Holders(s)' = IF s = p.slug THEN {x} ELSE A!Holders(s)
  BY <1>2, <1>4, <1>5 DEF A!Holders
<1>12. RedirectsLeadHome'
  BY <1>2, <1>5, <1>6, <1>11 DEF ArticlesInv, RedirectsLeadHome
<1>13. \A y \in ArticleIds : \A k : y # x /\ Owns(y, k) => Owns(y, k)'
  BY <1>2, <1>5, <1>6, <1>7 DEF Owns, ArticlesInv, SlugsRedirect
<1>14. EditsFit'
  <2> SUFFICES ASSUME NEW r \in Requests, edit[r] # NoRequest PROVE EditFits(edit[r])'
    BY <1>2 DEF ArticlesInv, EditsFit
  <2>1. EditFits(edit[r]) /\ edit' = edit /\ edit[r].id \in ArticleIds /\ edit[r].id # x
    BY <1>2, <1>7 DEF ArticlesInv, EditsFit, EditFits
  <2> QED
    BY <1>2, <1>5, <1>6, <1>13, <2>1 DEF EditFits
<1>15. TocFollowsBody' /\ NotRelatedToItself'
  BY <1>2, <1>4, <1>5 DEF ArticlesInv, TocFollowsBody, A!TocFollowsBody, NotRelatedToItself, A!NotRelatedToItself
<1>16. ImageIsOwn'
  <2> SUFFICES ASSUME NEW y \in DOMAIN article' PROVE Owns(y, article[y].image)'
    BY DEF ImageIsOwn, A!ImageIsOwn, Owns
  <2>1. CASE y = x
    BY <1>4, <1>5, <2>1 DEF Owns
  <2>2. CASE y # x
    <3>1. y \in DOMAIN article /\ y \in ArticleIds /\ article'[y] = article[y]
      BY <1>5, <1>7, <2>2
    <3>2. Owns(y, article[y].image)
      BY <3>1 DEF ArticlesInv, ImageIsOwn, A!ImageIsOwn, Owns
    <3>3. \A k : Owns(y, k) => Owns(y, k)'
      BY <1>13, <2>2, <3>1
    <3> QED
      BY <3>1, <3>2, <3>3 DEF Owns
  <2> QED
    BY <2>1, <2>2
<1> QED
  BY <1>8, <1>9, <1>10, <1>12, <1>14, <1>15, <1>16 DEF ArticlesInv

\* What a request that begins has to satisfy.
LEMMA BeginKeeps ==
    ASSUME ArticlesInv, NEW r \in Requests, NEW x \in DOMAIN article, NEW now \in A!Article,
           NEW upload \in BOOLEAN, A!Begin(r, x, now, upload),
           upload => now = [article[x] EXCEPT !.image = A!ImageName(article[x])],
           ~upload => now.image \in {article[x].image, NoImage},
           x \notin overlapped => now.toc = A!BuildToc(now.body) /\ now.slug \notin now.related
    PROVE  ArticlesInv'
<1> DEFINE q == [id |-> x, was |-> article[x], now |-> now, upload |-> upload]
<1>1. /\ edit' = [edit EXCEPT ![r] = q] /\ edit[r] = NoRequest
      /\ overlapped' = IF \E s \in Requests : edit[s] # NoRequest /\ edit[s].id = x
                       THEN overlapped \cup {x} ELSE overlapped
      /\ DOMAIN edit = Requests
      /\ UNCHANGED <<article, redirect, images, categories, authors, had>>
  BY DEF A!Begin, ArticlesInv, EditsFit
<1>2. /\ article[x] \in A!Article /\ x \in ArticleIds
      /\ q \in A!Request /\ q.id = x /\ q.was = article[x] /\ q.now = now /\ q.upload = upload
  BY DEF ArticlesInv, ArticlesTyped, A!Request
<1> HIDE DEF q
<1>3. SlugsHeldOnce' /\ SlugsRedirect' /\ RedirectsLeadHome'
  BY <1>1, RowsAlone
<1>4. \A s \in Requests : edit'[s] # NoRequest =>
        \/ s # r /\ edit[s] # NoRequest /\ edit'[s] = edit[s]
        \/ s = r /\ edit'[s] = q
  BY <1>1
<1>5. /\ article[x].slug \in had[x]
      /\ ~upload /\ now.image # article[x].image => Owns(x, now.image)
  BY <1>2 DEF ArticlesInv, SlugsRedirect, Owns
<1>6. EditsFit'
  <2>1. ASSUME NEW s \in Requests, edit'[s] # NoRequest PROVE EditFits(edit[s])'
    <3>1. CASE edit'[s] = q
      BY <1>1, <1>2, <1>5, <3>1 DEF EditFits, Owns
    <3>2. CASE edit'[s] = edit[s] /\ edit[s] # NoRequest
      BY <1>1, <3>2 DEF ArticlesInv, EditsFit, EditFits, Owns
    <3> QED
      BY <1>4, <2>1, <3>1, <3>2
  <2>2. \A s, t \in Requests :
          edit'[s] # NoRequest /\ edit'[t] # NoRequest /\ edit'[s].id = edit'[t].id /\ s # t
            => edit'[s].id \in overlapped'
    BY <1>1, <1>2, <1>4 DEF ArticlesInv, EditsFit
  <2> QED
    BY <1>1, <2>1, <2>2 DEF EditsFit
<1>7. ArticlesTyped' /\ TocFollowsBody' /\ NotRelatedToItself' /\ ImageIsOwn'
  BY <1>1 DEF ArticlesInv, ArticlesTyped, TocFollowsBody, A!TocFollowsBody,
       NotRelatedToItself, A!NotRelatedToItself, ImageIsOwn, A!ImageIsOwn
<1> QED
  BY <1>3, <1>6, <1>7 DEF ArticlesInv

LEMMA BeginUpdateKeeps ==
    ASSUME ArticlesInv, NEW r \in Requests, NEW x \in DOMAIN article, NEW p \in ArticlePatches,
           A!BeginUpdate(r, x, p)
    PROVE  ArticlesInv'
<1> DEFINE now == A!Patched(article[x], p)
<1>1. /\ A!ArticlePatchRequest(p)
      /\ now.slug \notin now.related
      /\ A!Begin(r, x, now, FALSE)
  BY DEF A!BeginUpdate, A!RelatedNotSelf, A!OwnSlug
<1>2. article[x] \in A!Article
  BY DEF ArticlesInv, ArticlesTyped
<1>3. /\ now \in A!Article
      /\ article[x].toc = A!BuildToc(article[x].body) => now.toc = A!BuildToc(now.body)
      /\ now.image \in {article[x].image, NoImage}
  BY <1>1, <1>2, PatchedFields
<1> HIDE DEF now
<1>4. x \notin overlapped => article[x].toc = A!BuildToc(article[x].body)
  BY DEF ArticlesInv, TocFollowsBody, A!TocFollowsBody
<1> QED
  BY <1>1, <1>3, <1>4, BeginKeeps

\* publish_article, archive_article and the upload of an image change one column.
LEMMA BeginOneColumnKeeps ==
    ASSUME ArticlesInv, NEW r \in Requests, NEW x \in DOMAIN article,
           A!BeginPublish(r, x) \/ A!BeginArchive(r, x) \/ A!BeginUpload(r, x)
    PROVE  ArticlesInv'
<1>1. article[x] \in A!Article
  BY DEF ArticlesInv, ArticlesTyped
<1>2. x \notin overlapped => /\ article[x].toc = A!BuildToc(article[x].body)
                             /\ article[x].slug \notin article[x].related
  BY DEF ArticlesInv, TocFollowsBody, A!TocFollowsBody, NotRelatedToItself, A!NotRelatedToItself
<1>3. ASSUME NEW status \in A!ArticleStatus, A!Begin(r, x, [article[x] EXCEPT !.status = status], FALSE)
      PROVE  ArticlesInv'
  <2> DEFINE now == [article[x] EXCEPT !.status = status]
  <2>1. /\ now \in A!Article /\ now.image = article[x].image /\ now.toc = article[x].toc
        /\ now.body = article[x].body /\ now.slug = article[x].slug /\ now.related = article[x].related
    BY <1>1 DEF A!Article
  <2>2. A!Begin(r, x, now, FALSE)
    BY <1>3
  <2> HIDE DEF now
  <2> QED
    BY <1>2, <2>1, <2>2, BeginKeeps
<1>4. CASE A!BeginPublish(r, x)
  BY <1>3, <1>4 DEF A!BeginPublish, A!ArticleStatus
<1>5. CASE A!BeginArchive(r, x)
  BY <1>3, <1>5 DEF A!BeginArchive, A!ArticleStatus
<1>6. CASE A!BeginUpload(r, x)
  <2> DEFINE now == [article[x] EXCEPT !.image = A!ImageName(article[x])]
  <2>1. /\ now \in A!Article /\ now.toc = article[x].toc /\ now.body = article[x].body
        /\ now.slug = article[x].slug /\ now.related = article[x].related
    BY <1>1 DEF A!Article, A!ImageName
  <2>2. A!Begin(r, x, now, TRUE) /\ now = [article[x] EXCEPT !.image = A!ImageName(article[x])]
    BY <1>6 DEF A!BeginUpload
  <2> HIDE DEF now
  <2> QED
    BY <1>2, <2>1, <2>2, BeginKeeps
<1> QED
  BY <1>4, <1>5, <1>6

\* A file is stored under a slug its article has had.
LEMMA StoreFileKeeps ==
    ASSUME ArticlesInv, NEW r \in Requests, A!StoreFile(r)
    PROVE  ArticlesInv'
<1> DEFINE q == edit[r]
<1>1. /\ q # NoRequest /\ q.upload /\ EditFits(q) /\ q \in A!Request
      /\ DOMAIN images' = DOMAIN images \cup {q.was.slug} /\ images'[q.was.slug] = q.id
      /\ \A k \in DOMAIN images : k # q.was.slug => images'[k] = images[k]
      /\ DOMAIN edit = Requests /\ edit' = [edit EXCEPT ![r] = [q EXCEPT !.upload = FALSE]]
      /\ UNCHANGED <<article, redirect, categories, authors, had, overlapped, edits>>
  BY DEF A!StoreFile, A!ImageName, ArticlesInv, EditsFit, EditFits
<1>2. q.was.slug \in had[q.id] /\ q.id \in ArticleIds
  BY <1>1 DEF EditFits, A!Request
<1>3. \A y \in ArticleIds : \A k : Owns(y, k) => Owns(y, k)'
  <2> SUFFICES ASSUME NEW y \in ArticleIds, NEW k, Owns(y, k) PROVE Owns(y, k)'
    OBVIOUS
  <2>1. CASE k = q.was.slug /\ y # q.id
    BY <1>1, <1>2, <2>1 DEF Owns
  <2>2. CASE k # q.was.slug \/ y = q.id
    BY <1>1, <1>2, <2>2 DEF Owns
  <2> QED
    BY <2>1, <2>2
<1>4. SlugsHeldOnce' /\ SlugsRedirect' /\ RedirectsLeadHome'
  BY <1>1, RowsAlone
<1>5. ArticlesTyped' /\ TocFollowsBody' /\ NotRelatedToItself'
  BY <1>1 DEF ArticlesInv, ArticlesTyped, TocFollowsBody, A!TocFollowsBody, NotRelatedToItself, A!NotRelatedToItself
<1>6. ImageIsOwn'
  <2>1. \A x \in DOMAIN article : x \in ArticleIds /\ Owns(x, article[x].image)
    BY DEF ArticlesInv, ArticlesTyped, ImageIsOwn, A!ImageIsOwn, Owns
  <2>2. \A x \in DOMAIN article' : Owns(x, article[x].image)'
    BY <1>1, <1>3, <2>1 DEF Owns
  <2> QED
    BY <2>2 DEF ImageIsOwn, A!ImageIsOwn, Owns
\* The request itself: the image it will write is its own by now.
<1>7. /\ edit'[r].id = q.id /\ edit'[r].was = q.was /\ edit'[r].now = q.now /\ ~edit'[r].upload
      /\ edit'[r] \in A!Request /\ q.now.image = q.was.slug
      /\ \A s \in Requests \ {r} : edit'[s] = edit[s]
  <2>1. edit'[r] = [q EXCEPT !.upload = FALSE] /\ \A s \in Requests \ {r} : edit'[s] = edit[s]
    BY <1>1
  <2>2. q.was \in A!Article /\ q.now = [q.was EXCEPT !.image = q.was.slug]
    BY <1>1 DEF EditFits, A!Request, A!ImageName
  <2>3. q.now.image = q.was.slug
    BY <2>2 DEF A!Article
  <2> HIDE DEF q
  <2> QED
    BY <1>1, <2>1, <2>3 DEF A!Request
<1>8. EditsFit'
  <2>1. EditFits(edit[r])'
    BY <1>1, <1>2, <1>7 DEF EditFits, Owns
  <2>2. ASSUME NEW s \in Requests \ {r}, edit[s] # NoRequest PROVE EditFits(edit[s])'
    <3>1. EditFits(edit[s]) /\ edit'[s] = edit[s] /\ edit[s].id \in ArticleIds
      BY <1>7, <2>2 DEF ArticlesInv, EditsFit, EditFits, A!Request
    <3>2. \A k : Owns(edit[s].id, k) => Owns(edit[s].id, k)'
      BY <1>1, <1>3, <3>1 DEF Owns
    <3> QED
      BY <1>1, <3>1, <3>2 DEF EditFits, Owns
  <2>3. \A s, t \in Requests :
          edit'[s] # NoRequest /\ edit'[t] # NoRequest /\ edit'[s].id = edit'[t].id /\ s # t
            => edit'[s].id \in overlapped'
    BY <1>1, <1>7 DEF ArticlesInv, EditsFit
  <2> QED
    BY <1>1, <1>7, <2>1, <2>2, <2>3 DEF EditsFit
<1> QED
  BY <1>4, <1>5, <1>6, <1>8 DEF ArticlesInv

LEMMA FailKeeps ==
    ASSUME ArticlesInv, NEW r \in Requests, A!Fail(r)
    PROVE  ArticlesInv'
<1>1. /\ edit' = [edit EXCEPT ![r] = NoRequest]
      /\ UNCHANGED <<article, redirect, images, categories, authors, had, overlapped, edits>>
  BY DEF A!Fail
<1>2. SlugsHeldOnce' /\ SlugsRedirect' /\ RedirectsLeadHome'
  BY <1>1, RowsAlone
<1>3. \A s \in Requests : edit'[s] # NoRequest => edit'[s] = edit[s] /\ edit[s] # NoRequest
  BY <1>1 DEF ArticlesInv, EditsFit
<1>4. EditsFit'
  <2>1. ASSUME NEW s \in Requests, edit'[s] # NoRequest PROVE EditFits(edit[s])'
    BY <1>1, <1>3, <2>1 DEF ArticlesInv, EditsFit, EditFits, Owns
  <2> QED
    BY <1>1, <1>3, <2>1 DEF ArticlesInv, EditsFit
<1>5. ArticlesTyped' /\ TocFollowsBody' /\ NotRelatedToItself' /\ ImageIsOwn'
  BY <1>1 DEF ArticlesInv, ArticlesTyped, TocFollowsBody, A!TocFollowsBody,
       NotRelatedToItself, A!NotRelatedToItself, ImageIsOwn, A!ImageIsOwn
<1> QED
  BY <1>2, <1>4, <1>5 DEF ArticlesInv

\* A slug that redirects cannot be left again, so that an article leaves the slug it
\* has, which nobody has had before.
LEMMA CommitKeeps ==
    ASSUME ArticlesInv, NEW r \in Requests, A!Commit(r)
    PROVE  ArticlesInv'
<1> DEFINE q == edit[r]
           x == q.id
           row == A!Written(article[x], q.was, q.now)
           cur == article[x].slug
           renamed == q.was.slug # q.now.slug
<1>1. /\ q # NoRequest /\ ~q.upload /\ EditFits(q) /\ q \in A!Request
      /\ x \in DOMAIN article /\ x \in ArticleIds
      /\ article[x] \in A!Article /\ q.was \in A!Article /\ q.now \in A!Article
  BY DEF A!Commit, ArticlesInv, ArticlesTyped, EditsFit, EditFits, A!Request
<1>2. /\ row \in A!Article
      /\ row.slug = IF renamed THEN q.now.slug ELSE cur
      /\ row.image = IF q.now.image = q.was.image THEN article[x].image ELSE q.now.image
      /\ article[x] = q.was => row = q.now
  BY <1>1, WrittenFields
<1>3. /\ renamed => A!Holders(row.slug) \subseteq {x} /\ q.was.slug \notin DOMAIN redirect
      /\ article' = [article EXCEPT ![x] = row]
      /\ redirect' = IF ~renamed THEN redirect
                     ELSE [s \in DOMAIN redirect \cup {q.was.slug} |->
                             IF s = q.was.slug THEN row.slug ELSE A!Cascaded(cur, row.slug)[s]]
      /\ had' = [had EXCEPT ![x] = @ \cup {row.slug}]
      /\ edit' = [edit EXCEPT ![r] = NoRequest]
      /\ UNCHANGED <<images, categories, authors, overlapped, edits>>
  BY DEF A!Commit, A!SlugAvailable
<1>4. had \in [ArticleIds -> SUBSET Slugs] /\ DOMAIN edit = Requests
  BY DEF ArticlesInv, ArticlesTyped, EditsFit
<1>5. renamed => cur = q.was.slug
  BY <1>1, <1>3 DEF EditFits, ArticlesInv, SlugsRedirect
<1> HIDE DEF row
<1>6. /\ DOMAIN article' = DOMAIN article /\ article'[x] = row
      /\ \A y \in DOMAIN article : y # x => article'[y] = article[y]
  BY <1>1, <1>3
<1>7. /\ had' \in [ArticleIds -> SUBSET Slugs] /\ had'[x] = had[x] \cup {row.slug}
      /\ \A y \in ArticleIds \ {x} : had'[y] = had[y]
  <2>1. row.slug \in Slugs
    BY <1>2, ArticleIsRecord
  <2> QED
    BY <1>1, <1>3, <1>4, <2>1
<1>8. IF renamed
      THEN /\ DOMAIN redirect' = DOMAIN redirect \cup {cur} /\ cur \notin DOMAIN redirect
           /\ redirect'[cur] = row.slug
           /\ \A s \in DOMAIN redirect :
                redirect'[s] = IF redirect[s] = cur THEN row.slug ELSE redirect[s]
      ELSE redirect' = redirect /\ row.slug = cur
  BY <1>2, <1>3, <1>5 DEF A!Cascaded
<1>9. ArticlesTyped'
  BY <1>2, <1>3, <1>6, <1>7 DEF ArticlesInv, ArticlesTyped
<1>10. SlugsHeldOnce'
  BY <1>2, <1>3, <1>6 DEF ArticlesInv, SlugsHeldOnce, A!Holders
<1>11. SlugsRedirect'
  BY <1>1, <1>6, <1>7, <1>8 DEF ArticlesInv, SlugsRedirect
<1>12. RedirectsLeadHome'
  <2> SUFFICES ASSUME NEW y \in ArticleIds, NEW s \in had'[y], A!Holders(s)' = {},
                      NEW t, t = redirect'[s]
               PROVE  A!Holders(t)' = {y}
    BY DEF RedirectsLeadHome, A!Holders
  \* The article alone has the slug that is new to it.
  <2>1. \A u : u = row.slug => A!Holders(u)' = {x}
    BY <1>1, <1>2, <1>3, <1>6, <1>10 DEF A!Holders, SlugsHeldOnce
  <2>2. \A u : u # cur /\ u # row.slug => A!Holders(u)' = A!Holders(u)
    BY <1>6 DEF A!Holders
  <2>3. s # row.slug /\ s \in had[y]
    BY <1>7, <2>1
  <2>4. CASE s = cur
    <3>1. renamed /\ cur \notin DOMAIN redirect /\ t = row.slug
      BY <1>1, <1>6, <1>8, <2>3, <2>4
    <3>2. y = x
      BY <1>1, <2>3, <2>4, <3>1 DEF ArticlesInv, SlugsRedirect, SlugsHeldOnce
    <3> QED
      BY <2>1, <3>1, <3>2
  <2>5. CASE s # cur
    <3>1. A!Holders(s) = {} /\ A!Holders(redirect[s]) = {y} /\ s \in DOMAIN redirect
      BY <2>2, <2>3, <2>5 DEF ArticlesInv, RedirectsLeadHome, SlugsRedirect, A!Holders
    <3>2. redirect[s] = cur => y = x
      BY <1>1, <3>1 DEF A!Holders
    <3>3. t = IF renamed /\ redirect[s] = cur THEN row.slug ELSE redirect[s]
      BY <1>8, <2>5, <3>1
    <3>4. CASE redirect[s] = cur
      BY <1>8, <2>1, <3>2, <3>3, <3>4
    <3>5. CASE redirect[s] # cur
      <4>1. redirect[s] # row.slug
        BY <1>2, <1>3, <1>6, <1>8, <3>1, <3>5 DEF A!Holders
      <4> QED
        BY <2>2, <3>1, <3>3, <3>5, <4>1
    <3> QED
      BY <3>4, <3>5
  <2> QED
    BY <2>4, <2>5
<1>13. \A y \in ArticleIds : \A k : Owns(y, k) => Owns(y, k)'
  BY <1>3, <1>7 DEF Owns
<1>14. \A s \in Requests : edit'[s] # NoRequest => s # r /\ edit'[s] = edit[s] /\ edit[s] # NoRequest
  BY <1>3, <1>4
<1>15. EditsFit'
  <2>1. ASSUME NEW s \in Requests, edit'[s] # NoRequest PROVE EditFits(edit[s])'
    <3>1. EditFits(edit[s]) /\ edit'[s] = edit[s] /\ edit[s].id \in ArticleIds
      BY <1>14, <2>1 DEF ArticlesInv, EditsFit, EditFits, A!Request
    <3>2. edit[s].id = x => x \in overlapped
      BY <1>1, <1>14, <2>1 DEF ArticlesInv, EditsFit
    <3>3. \A k : Owns(edit[s].id, k) => Owns(edit[s].id, k)'
      BY <1>3, <1>7, <3>1 DEF Owns
    <3> QED
      BY <1>3, <1>6, <1>7, <3>1, <3>2, <3>3 DEF EditFits, Owns
  <2> QED
    BY <1>3, <1>4, <1>14, <2>1 DEF ArticlesInv, EditsFit
<1>16. x \notin overlapped => row.toc = A!BuildToc(row.body) /\ row.slug \notin row.related
  BY <1>1, <1>2 DEF EditFits
<1>17. TocFollowsBody' /\ NotRelatedToItself'
  BY <1>3, <1>6, <1>16 DEF ArticlesInv, TocFollowsBody, A!TocFollowsBody, NotRelatedToItself, A!NotRelatedToItself
<1>18. ImageIsOwn'
  <2>1. \A y \in DOMAIN article : y \in ArticleIds /\ Owns(y, article[y].image)
    BY DEF ArticlesInv, ArticlesTyped, ImageIsOwn, A!ImageIsOwn, Owns
  <2>2. Owns(x, row.image)
    BY <1>1, <1>2, <2>1 DEF EditFits
  <2>3. ASSUME NEW y \in DOMAIN article' PROVE Owns(y, article[y].image)'
    <3>1. y \in ArticleIds /\ Owns(y, article'[y].image)
      BY <1>6, <2>1, <2>2
    <3> QED
      BY <1>3, <1>7, <3>1 DEF Owns
  <2> QED
    BY <2>3 DEF ImageIsOwn, A!ImageIsOwn, Owns
<1> QED
  BY <1>9, <1>10, <1>11, <1>12, <1>15, <1>17, <1>18 DEF ArticlesInv

LEMMA ArticlesInvStep == ArticlesInv /\ [A!Next]_A!vars => ArticlesInv'
<1> SUFFICES ASSUME ArticlesInv, [A!Next]_A!vars PROVE ArticlesInv'
  OBVIOUS
\* Nothing depends on which categories and authors there are.
<1>1. ASSUME UNCHANGED <<article, redirect, images, edit, had, overlapped>>,
             categories' \subseteq Categories, authors' \subseteq Authors
      PROVE  ArticlesInv'
  <2>1. SlugsHeldOnce' /\ SlugsRedirect' /\ RedirectsLeadHome'
    BY <1>1, RowsAlone
  <2>2. EditsFit'
    <3>1. ASSUME NEW s \in Requests, edit[s] # NoRequest PROVE EditFits(edit[s])'
      BY <1>1, <3>1 DEF ArticlesInv, EditsFit, EditFits, Owns
    <3> QED
      BY <1>1, <3>1 DEF ArticlesInv, EditsFit
  <2> QED
    BY <1>1, <2>1, <2>2 DEF ArticlesInv, ArticlesTyped, TocFollowsBody, A!TocFollowsBody,
         NotRelatedToItself, A!NotRelatedToItself, ImageIsOwn, A!ImageIsOwn
<1>2. categories \subseteq Categories /\ authors \subseteq Authors
  BY DEF ArticlesInv, ArticlesTyped
<1>3. ASSUME NEW c \in Categories, A!CreateCategory(c) PROVE ArticlesInv'
  BY <1>1, <1>2, <1>3 DEF A!CreateCategory
<1>4. ASSUME NEW a \in Authors, A!CreateAuthor(a) PROVE ArticlesInv'
  BY <1>1, <1>2, <1>4 DEF A!CreateAuthor
<1>5. CASE UNCHANGED A!vars
  BY <1>1, <1>2, <1>5 DEF A!vars
<1> QED
  BY <1>3, <1>4, <1>5, CreateArticleKeeps, BeginUpdateKeeps, BeginOneColumnKeeps, StoreFileKeeps, CommitKeeps,
     FailKeeps DEF A!Next

LEMMA ArticlesInvariant == A!Spec => []ArticlesInv
BY ArticlesInvInit, ArticlesInvStep, PTL DEF A!Spec

\* An old link answers with one hop to its article, however often that was renamed,
\* unless another article has the slug by now (update_article, get_public_article).
THEOREM OldLinksAreFollowed == A!Spec => []OldLinksLeadHome
<1>1. ArticlesInv => OldLinksLeadHome
  <2> SUFFICES ASSUME ArticlesInv, NEW x \in ArticleIds, NEW s \in had[x], A!Holders(s) = {}
               PROVE  A!Answer(s) = "moved" /\ A!Holders(redirect[s]) = {x}
    BY DEF OldLinksLeadHome, A!OldLinksLeadHome
  <2>1. A!Holders(redirect[s]) = {x} /\ s \in DOMAIN redirect
    BY DEF ArticlesInv, RedirectsLeadHome, SlugsRedirect, A!Holders
  <2> QED
    BY <2>1 DEF A!Answer
<1> QED
  BY <1>1, ArticlesInvariant, PTL

\* The table of contents follows the body through every edit that is alone.
THEOREM ContentsFollowBody == A!Spec => []TocFollowsBody
<1>1. ArticlesInv => TocFollowsBody
  BY DEF ArticlesInv
<1> QED
  BY <1>1, ArticlesInvariant, PTL

\* No edit that is alone relates an article to itself, by its related slugs or its own.
THEOREM NothingIsRelatedToItself == A!Spec => []NotRelatedToItself
<1>1. ArticlesInv => NotRelatedToItself
  BY DEF ArticlesInv
<1> QED
  BY <1>1, ArticlesInvariant, PTL

\* Uploads, renames and edits that overlap never put another article's image into one,
\* as long as no article takes over a slug of another (upload_article_hero_image).
THEOREM ImagesAreOwn == A!Spec => []ImageIsOwn
<1>1. ArticlesInv => ImageIsOwn
  BY DEF ArticlesInv
<1> QED
  BY <1>1, ArticlesInvariant, PTL

----------------------------------------------------------------------------
(* Releases.                                                               *)

(* The APK f is one of release x's own, or its name has passed on. *)
ApkOf(x, f) ==
  \/ f = NoFile
  \/ f \in DOMAIN files /\ files[f] = x
  \/ \E y \in Ids \ {x} : <<y, f>> \in stored

(* What a request has read and what it will write. *)
ReleaseRequestFits(q) ==
  /\ q \in Request
  /\ q.id \in DOMAIN release
  /\ q.page = NoPage \/ page \in Page
  /\ q.kind = "upload" => /\ q.at \in {"store", "row"}
                          /\ q.now = [q.was EXCEPT !.apk = ApkFilename[q.was.name]]
                          /\ q.at = "row" => ApkOf(q.id, q.now.apk)
  /\ q.kind = "update" => /\ q.at \notin {"store", "final"}
                          /\ q.now.apk = q.was.apk /\ q.now.published = q.was.published
                          /\ q.at \in {"row", "refresh"} \/ q.now = q.was
  /\ q.kind = "publish" => /\ q.at \notin {"store", "row", "refresh"}
                           /\ q.now = [q.was EXCEPT !.published = TRUE]
                           /\ q.was.apk # NoFile /\ release[q.id].apk # NoFile

(* What it may rely on if nothing has run meanwhile. *)
AloneFits(q) ==
  LET row == release[q.id] IN
  q.alone =>
    /\ q.at \in {"store", "row", "page", "commit"} => row = q.was
    /\ q.at = "refresh" => row = q.now
    /\ q.at = "commit" => page = q.page
    /\ q.at \in {"reload", "setting", "final"} => page = PageOf(row)
    /\ q.at = "setting" => q.link = row.apk
    /\ q.at = "final" => setting = row.apk

(* What publishing does if there is no other request to publish. *)
PublishFits(q) ==
  q.kind = "publish" /\ ~raced =>
    IF q.at \in {"page", "commit"} THEN q.was.published => q.id \in Published
                                   ELSE Published = {q.id}

RequestsFit ==
  /\ DOMAIN req = Requests
  /\ \A r \in Requests : req[r] # NoRequest =>
       ReleaseRequestFits(req[r]) /\ AloneFits(req[r]) /\ PublishFits(req[r])

(* A request that is alone is so. *)
AloneIsAlone ==
  \A r, s \in Requests : req[r] # NoRequest /\ req[s] # NoRequest /\ req[r].alone => r = s

PublishesAlone ==
  ~raced => \A r, s \in Requests :
    req[r] # NoRequest /\ req[r].kind = "publish" /\ req[s] # NoRequest /\ req[s].kind = "publish" => r = s

RowsFit ==
  /\ DOMAIN release \subseteq Ids
  /\ \A x \in DOMAIN release : release[x] \in Release /\ ApkOf(x, release[x].apk)
  /\ \A x \in Published : release[x].apk # NoFile
  /\ page \in Page \cup {NoPage}
  /\ launched /\ ~raced => \E x \in Ids : Published = {x}

ReleasesInv == RequestsFit /\ AloneIsAlone /\ PublishesAlone /\ RowsFit

LEMMA ReleasesInvInit == Init => ReleasesInv
<1> SUFFICES ASSUME Init PROVE ReleasesInv
  OBVIOUS
<1>1. /\ DOMAIN release = {} /\ page = NoPage /\ launched = FALSE
      /\ DOMAIN req = Requests /\ \A r \in Requests : req[r] = NoRequest
  BY DEF Init
<1> QED
  BY <1>1 DEF ReleasesInv, RequestsFit, AloneIsAlone, PublishesAlone, RowsFit, Published

LEMMA ReleaseFields ==
    ASSUME NEW row \in Release, NEW was \in Release, NEW now \in Release
    PROVE  LET new == Written(row, was, now) IN
           /\ new \in Release
           /\ new.apk = IF now.apk = was.apk THEN row.apk ELSE now.apk
           /\ new.published = IF now.published = was.published THEN row.published ELSE now.published
           /\ row = was => new = now
<1> DEFINE new == Written(row, was, now)
<1>1. /\ DOMAIN row = {"name", "code", "text", "apk", "published"}
      /\ DOMAIN now = {"name", "code", "text", "apk", "published"} /\ now = [f \in DOMAIN now |-> now[f]]
  BY DEF Release
<1>2. /\ DOMAIN new = {"name", "code", "text", "apk", "published"}
      /\ new = [f \in DOMAIN new |-> IF now[f] = was[f] THEN row[f] ELSE now[f]]
  BY <1>1 DEF Written
<1> HIDE DEF new
<1>3. /\ new.name = IF now.name = was.name THEN row.name ELSE now.name
      /\ new.code = IF now.code = was.code THEN row.code ELSE now.code
      /\ new.text = IF now.text = was.text THEN row.text ELSE now.text
      /\ new.apk = IF now.apk = was.apk THEN row.apk ELSE now.apk
      /\ new.published = IF now.published = was.published THEN row.published ELSE now.published
  BY <1>2
<1>4. new = [name |-> new.name, code |-> new.code, text |-> new.text, apk |-> new.apk,
             published |-> new.published]
  BY <1>2
<1>5. new \in Release
  <2>1. /\ new.name \in Names /\ new.code \in Codes /\ new.text \in Texts
        /\ new.apk \in Files \cup {NoFile} /\ new.published \in BOOLEAN
    BY <1>3 DEF Release
  <2> QED
    BY <1>4, <2>1 DEF Release
<1>6. row = was => new = now
  BY <1>1, <1>2
<1> QED
  BY <1>3, <1>5, <1>6 DEF new

LEMMA PageFields ==
    ASSUME NEW row \in Page, NEW was \in Page, NEW now \in Page
    PROVE  LET new == Written(row, was, now) IN
           /\ new \in Page
           /\ row = was => new = now
<1> DEFINE new == Written(row, was, now)
<1>1. /\ DOMAIN row = {"code", "text", "link"}
      /\ DOMAIN now = {"code", "text", "link"} /\ now = [f \in DOMAIN now |-> now[f]]
  BY DEF Page
<1>2. /\ DOMAIN new = {"code", "text", "link"}
      /\ new = [f \in DOMAIN new |-> IF now[f] = was[f] THEN row[f] ELSE now[f]]
  BY <1>1 DEF Written
<1> HIDE DEF new
<1>3. /\ new.code = IF now.code = was.code THEN row.code ELSE now.code
      /\ new.text = IF now.text = was.text THEN row.text ELSE now.text
      /\ new.link = IF now.link = was.link THEN row.link ELSE now.link
      /\ new = [code |-> new.code, text |-> new.text, link |-> new.link]
  BY <1>2
<1>4. new \in Page
  BY <1>3 DEF Page
<1>5. row = was => new = now
  BY <1>1, <1>2
<1> QED
  BY <1>4, <1>5 DEF new

\* What a step of request r, which leaves q of it, has to satisfy: while it is under
\* way no other request is alone.
LEMMA RequestSteps ==
    ASSUME ReleasesInv, NEW r \in Requests, req[r] # NoRequest, NEW q,
           req' = [req EXCEPT ![r] = q], raced' = raced,
           q # NoRequest => /\ q.kind = req[r].kind /\ q.alone = req[r].alone
                            /\ ReleaseRequestFits(q)' /\ AloneFits(q)' /\ PublishFits(q)',
           \A x \in Ids : \A f : ApkOf(x, f) => ApkOf(x, f)',
           page' \in Page \/ page' = page,
           DOMAIN release' = DOMAIN release,
           \A x \in DOMAIN release : release[x].apk # NoFile => release'[x].apk # NoFile,
           req[r].kind # "publish" => Published' = Published,
           RowsFit'
    PROVE  ReleasesInv'
<1>1. DOMAIN req = Requests /\ DOMAIN release \subseteq Ids
  BY DEF ReleasesInv, RequestsFit, RowsFit
<1>2. \A s \in Requests : req'[s] # NoRequest =>
        IF s = r THEN req'[s] = q ELSE req'[s] = req[s] /\ req[s] # NoRequest
  BY <1>1
<1>3. RequestsFit'
  <2>1. ASSUME NEW s \in Requests, req'[s] # NoRequest
        PROVE  ReleaseRequestFits(req[s])' /\ AloneFits(req[s])' /\ PublishFits(req[s])'
    <3> PICK d : d = req'[s]
      OBVIOUS
    <3>1. CASE s = r
      <4>1. d = q /\ q # NoRequest
        BY <1>2, <2>1, <3>1
      <4>2. ReleaseRequestFits(d)' /\ AloneFits(d)' /\ PublishFits(d)'
        BY <4>1
      <4> QED
        BY <4>2 DEF ReleaseRequestFits, AloneFits, PublishFits, ApkOf
    <3>2. CASE s # r
      <4>1. d = req[s] /\ d # NoRequest
        BY <1>2, <2>1, <3>2
      <4>2. /\ ReleaseRequestFits(d) /\ PublishFits(d) /\ ~d.alone
            /\ d.kind = "publish" /\ ~raced => req[r].kind # "publish"
        BY <3>2, <4>1 DEF ReleasesInv, RequestsFit, AloneIsAlone, PublishesAlone
      <4>3. d.id \in Ids
        BY <1>1, <4>2 DEF ReleaseRequestFits
      <4>4. ReleaseRequestFits(d)'
        <5>1. \A f : ApkOf(d.id, f) => ApkOf(d.id, f)'
          BY <4>3 DEF ApkOf
        <5> QED
          BY <4>2, <5>1 DEF ReleaseRequestFits
      <4>5. PublishFits(d)' /\ AloneFits(d)'
        BY <4>2 DEF PublishFits, AloneFits
      <4> QED
        BY <4>4, <4>5 DEF ReleaseRequestFits, AloneFits, PublishFits, ApkOf
    <3> QED
      BY <3>1, <3>2
  <2> QED
    BY <1>1, <2>1 DEF RequestsFit
<1>4. AloneIsAlone'
  BY <1>2 DEF ReleasesInv, AloneIsAlone
<1>5. PublishesAlone'
  BY <1>2 DEF ReleasesInv, PublishesAlone
<1> QED
  BY <1>3, <1>4, <1>5 DEF ReleasesInv

\* A request that is no longer alone relies on less.
LEMMA NotAloneFits ==
    ASSUME NEW q, ReleaseRequestFits(q), PublishFits(q)
    PROVE  LET d == [q EXCEPT !.alone = FALSE] IN
           /\ ReleaseRequestFits(d) /\ AloneFits(d) /\ PublishFits(d)
           /\ d.kind = q.kind /\ ~d.alone
<1> DEFINE d == [q EXCEPT !.alone = FALSE]
<1>1. q \in Request
  BY DEF ReleaseRequestFits
<1>2. /\ d \in Request /\ d.kind = q.kind /\ d.id = q.id /\ d.at = q.at /\ d.was = q.was
      /\ d.now = q.now /\ d.page = q.page /\ d.link = q.link /\ d.alone = FALSE
  BY <1>1 DEF Request
<1> HIDE DEF d
<1>3. ReleaseRequestFits(d) /\ AloneFits(d) /\ PublishFits(d)
  BY <1>2 DEF ReleaseRequestFits, AloneFits, PublishFits
<1> QED
  BY <1>2, <1>3 DEF d

\* An edit by hand leaves no request alone.
LEMMA EditsByHandKeep ==
    ASSUME ReleasesInv,
           req' = [r \in Requests |-> IF req[r] = NoRequest THEN NoRequest
                                      ELSE [req[r] EXCEPT !.alone = FALSE]],
           page' \in Page \/ page' = page,
           UNCHANGED <<release, files, launched, raced, stored>>
    PROVE  ReleasesInv'
<1>1. ASSUME NEW r \in Requests, req'[r] # NoRequest
      PROVE  /\ req[r] # NoRequest /\ req'[r].kind = req[r].kind /\ ~req'[r].alone
             /\ ReleaseRequestFits(req[r])' /\ AloneFits(req[r])' /\ PublishFits(req[r])'
  <2>1. req[r] # NoRequest /\ req'[r] = [req[r] EXCEPT !.alone = FALSE]
    BY <1>1
  <2>2. ReleaseRequestFits(req[r]) /\ PublishFits(req[r])
    BY <2>1 DEF ReleasesInv, RequestsFit
  <2> PICK d : d = req'[r]
    OBVIOUS
  <2>3. /\ ReleaseRequestFits(d) /\ PublishFits(d)
        /\ d.kind = req[r].kind /\ ~d.alone
    BY <2>1, <2>2, NotAloneFits
  <2> QED
    BY <2>1, <2>3 DEF ReleaseRequestFits, AloneFits, PublishFits, ApkOf, Published
<1>2. RequestsFit' /\ AloneIsAlone'
  BY <1>1 DEF RequestsFit, AloneIsAlone
<1>3. PublishesAlone'
  BY <1>1 DEF ReleasesInv, PublishesAlone
<1>4. RowsFit'
  BY DEF ReleasesInv, RowsFit, Published, ApkOf
<1> QED
  BY <1>2, <1>3, <1>4 DEF ReleasesInv

LEMMA CreateReleaseKeeps ==
    ASSUME ReleasesInv, NEW x \in Ids, NEW name \in Names, NEW code \in Codes, CreateRelease(x, name, code)
    PROVE  ReleasesInv'
<1> PICK text \in Texts :
      release' = [y \in DOMAIN release \cup {x} |->
                    IF y = x THEN [name |-> name, code |-> code, text |-> text, apk |-> NoFile, published |-> FALSE]
                    ELSE release[y]]
  BY DEF CreateRelease
<1> DEFINE row == [name |-> name, code |-> code, text |-> text, apk |-> NoFile, published |-> FALSE]
<1>1. /\ x \notin DOMAIN release
      /\ UNCHANGED <<page, setting, files, req, launched, raced, stored>>
  BY DEF CreateRelease
<1>2. row \in Release /\ row.apk = NoFile /\ row.published = FALSE
  BY DEF Release
<1> HIDE DEF row
<1>3. /\ DOMAIN release' = DOMAIN release \cup {x} /\ release'[x] = row
      /\ \A y \in DOMAIN release : y # x /\ release'[y] = release[y]
  BY <1>1 DEF row
<1>4. Published' = Published
  BY <1>1, <1>2, <1>3 DEF Published
<1>5. RequestsFit'
  <2>1. ASSUME NEW r \in Requests, req[r] # NoRequest
        PROVE  ReleaseRequestFits(req[r])' /\ AloneFits(req[r])' /\ PublishFits(req[r])'
    <3>1. ReleaseRequestFits(req[r]) /\ AloneFits(req[r]) /\ PublishFits(req[r])
      BY <2>1 DEF ReleasesInv, RequestsFit
    <3>2. req[r].id \in DOMAIN release /\ release'[req[r].id] = release[req[r].id] /\ req' = req
      BY <1>1, <1>3, <3>1 DEF ReleaseRequestFits
    <3> QED
      BY <1>1, <1>3, <1>4, <3>1, <3>2 DEF ReleaseRequestFits, AloneFits, PublishFits, ApkOf, PageOf
  <2> QED
    BY <1>1, <2>1 DEF ReleasesInv, RequestsFit
<1>6. AloneIsAlone' /\ PublishesAlone'
  BY <1>1 DEF ReleasesInv, AloneIsAlone, PublishesAlone
<1>7. RowsFit'
  BY <1>1, <1>2, <1>3, <1>4 DEF ReleasesInv, RowsFit, ApkOf, Published
<1> QED
  BY <1>5, <1>6, <1>7 DEF ReleasesInv

\* What a request that begins has to satisfy.
LEMMA BeginRequestKeeps ==
    ASSUME ReleasesInv, NEW r \in Requests, NEW x \in DOMAIN release,
           NEW kind \in {"update", "upload", "publish"}, NEW at \in {"store", "row", "page"}, NEW now \in Release,
           Begin(r, kind, x, at, now),
           kind = "upload" => at = "store" /\ now = [release[x] EXCEPT !.apk = ApkFilename[release[x].name]],
           kind = "update" => at = "row" /\ now.apk = release[x].apk /\ now.published = release[x].published,
           kind = "publish" => /\ at = "page" /\ now = [release[x] EXCEPT !.published = TRUE]
                               /\ release[x].apk # NoFile
    PROVE  ReleasesInv'
<1> DEFINE others == {p \in Requests : req[p] # NoRequest}
<1> PICK q : q = [kind |-> kind, id |-> x, at |-> at, was |-> release[x], now |-> now,
                  page |-> NoPage, link |-> NoFile, alone |-> others = {}]
  OBVIOUS
<1>1. /\ req[r] = NoRequest
      /\ req' = [p \in Requests |-> IF p = r THEN q
                                    ELSE IF p \in others THEN [req[p] EXCEPT !.alone = FALSE] ELSE NoRequest]
      /\ raced' = (raced \/ (kind = "publish" /\ \E p \in others : req[p].kind = "publish"))
      /\ UNCHANGED <<release, page, setting, files, launched, stored>>
  BY DEF Begin
<1>2. release[x] \in Release /\ x \in Ids
  BY DEF ReleasesInv, RowsFit
<1>3. /\ q.kind = kind /\ q.id = x /\ q.at = at /\ q.was = release[x] /\ q.now = now
      /\ q.page = NoPage /\ q.link = NoFile /\ q.alone = (others = {}) /\ q \in Request
  BY <1>2 DEF Request
<1>4. ReleaseRequestFits(q) /\ AloneFits(q)
  BY <1>3 DEF ReleaseRequestFits, AloneFits
<1>5. kind = "publish" => q.at = "page" /\ (q.was.published => q.id \in Published)
  BY <1>3 DEF Published
<1>6. ASSUME NEW p \in Requests, req'[p] # NoRequest, p # r
      PROVE  /\ req[p] # NoRequest /\ req'[p].kind = req[p].kind /\ ~req'[p].alone
             /\ ReleaseRequestFits(req[p])' /\ AloneFits(req[p])' /\ PublishFits(req[p])'
  <2>1. req[p] # NoRequest /\ req'[p] = [req[p] EXCEPT !.alone = FALSE]
    BY <1>1, <1>6
  <2>2. ReleaseRequestFits(req[p]) /\ PublishFits(req[p])
    BY <2>1 DEF ReleasesInv, RequestsFit
  <2> PICK d : d = req'[p]
    OBVIOUS
  <2>3. /\ ReleaseRequestFits(d) /\ PublishFits(d)
        /\ d.kind = req[p].kind /\ ~d.alone
    BY <2>1, <2>2, NotAloneFits
  <2>4. (~raced' => ~raced) /\ UNCHANGED <<release, page, setting, files, launched, stored>>
    BY <1>1
  <2>5. ReleaseRequestFits(req[p])'
    BY <2>3, <2>4 DEF ReleaseRequestFits, ApkOf
  <2>6. AloneFits(req[p])'
    BY <2>3 DEF AloneFits
  <2>7. PublishFits(req[p])'
    BY <2>3, <2>4 DEF PublishFits, Published
  <2> QED
    BY <2>1, <2>3, <2>5, <2>6, <2>7
<1>7. req'[r] = q
  BY <1>1
<1>8. RequestsFit'
  <2>1. ReleaseRequestFits(req[r])' /\ AloneFits(req[r])' /\ PublishFits(req[r])'
    BY <1>1, <1>3, <1>4, <1>5, <1>7 DEF ReleaseRequestFits, AloneFits, PublishFits, ApkOf, Published, PageOf
  <2> QED
    BY <1>1, <1>6, <2>1 DEF RequestsFit
<1>9. AloneIsAlone'
  <2>1. ASSUME NEW p \in Requests, req'[p] # NoRequest, p # r PROVE ~q.alone
    BY <1>3, <1>6, <2>1
  <2> QED
    BY <1>6, <1>7, <2>1 DEF AloneIsAlone
<1>10. PublishesAlone'
  <2>1. ASSUME ~raced', NEW p \in Requests, req'[p] # NoRequest, req'[p].kind = "publish", p # r
        PROVE  ~raced /\ req[p] # NoRequest /\ req[p].kind = "publish" /\ q.kind # "publish"
    BY <1>1, <1>3, <1>6, <2>1
  <2> QED
    BY <1>7, <2>1 DEF ReleasesInv, PublishesAlone
<1>11. RowsFit'
  BY <1>1 DEF ReleasesInv, RowsFit, ApkOf, Published
<1> QED
  BY <1>8, <1>9, <1>10, <1>11 DEF ReleasesInv

LEMMA BeginsKeep ==
    ASSUME ReleasesInv, NEW r \in Requests, NEW x \in DOMAIN release,
           (\E p \in Patches : BeginUpdate(r, x, p)) \/ BeginUpload(r, x) \/ BeginPublish(r, x)
    PROVE  ReleasesInv'
<1>1. release[x] \in Release
  BY DEF ReleasesInv, RowsFit
<1>2. ASSUME NEW p \in Patches, BeginUpdate(r, x, p) PROVE ReleasesInv'
  <2> DEFINE Taken(f) == IF f \in DOMAIN p THEN p[f] ELSE release[x][f]
             now == [f \in DOMAIN release[x] |-> Taken(f)]
  <2>1. Begin(r, "update", x, "row", now)
    BY <1>2 DEF BeginUpdate
  <2>2. /\ "name" \in DOMAIN p => p["name"] \in Names
        /\ "code" \in DOMAIN p => p["code"] \in Codes
        /\ "text" \in DOMAIN p => p["text"] \in Texts
        /\ "apk" \notin DOMAIN p /\ "published" \notin DOMAIN p
    BY PatchesAreUpdates
  <2>3. /\ Taken("name") \in Names /\ Taken("code") \in Codes /\ Taken("text") \in Texts
        /\ Taken("apk") = release[x].apk /\ Taken("published") = release[x].published
    BY <1>1, <2>2 DEF Release
  <2>4. DOMAIN release[x] = {"name", "code", "text", "apk", "published"}
    BY <1>1 DEF Release
  <2> HIDE DEF Taken
  <2>5. now = [name |-> Taken("name"), code |-> Taken("code"), text |-> Taken("text"),
               apk |-> release[x].apk, published |-> release[x].published]
    BY <2>3, <2>4
  <2> HIDE DEF now
  <2>6. now \in Release /\ now.apk = release[x].apk /\ now.published = release[x].published
    BY <1>1, <2>3, <2>5 DEF Release
  <2> QED
    BY <2>1, <2>6, BeginRequestKeeps
<1>3. CASE BeginUpload(r, x)
  <2> DEFINE now == [release[x] EXCEPT !.apk = ApkFilename[release[x].name]]
  <2>1. Begin(r, "upload", x, "store", now)
    BY <1>3 DEF BeginUpload
  <2>2. now \in Release
    BY <1>1, FilenameIsFunction DEF Release
  <2> QED
    BY <2>1, <2>2, BeginRequestKeeps
<1>4. CASE BeginPublish(r, x)
  <2> DEFINE now == [release[x] EXCEPT !.published = TRUE]
  <2>1. Begin(r, "publish", x, "page", now) /\ release[x].apk # NoFile
    BY <1>4 DEF BeginPublish
  <2>2. now \in Release
    BY <1>1 DEF Release
  <2> QED
    BY <2>1, <2>2, BeginRequestKeeps
<1> QED
  BY <1>2, <1>3, <1>4

\* Steps that leave the tables alone: storing a file, and those that only read.
LEMMA StoreFileKeepsReleases ==
    ASSUME ReleasesInv, NEW r \in Requests, StoreFile(r)
    PROVE  ReleasesInv'
<1> PICK q0 : q0 = req[r]
  OBVIOUS
<1> PICK q : q = [q0 EXCEPT !.at = "row"]
  OBVIOUS
<1> DEFINE file == ApkFilename[q0.was.name]
<1>1. /\ req[r] # NoRequest /\ q0.at = "store"
      /\ DOMAIN files' = DOMAIN files \cup {file} /\ files'[file] = q0.id
      /\ \A f \in DOMAIN files : f # file => files'[f] = files[f]
      /\ stored' = stored \cup {<<q0.id, file>>}
      /\ UNCHANGED <<release, page, setting, launched, raced>>
  BY DEF StoreFile, StoredAs
<1>2. req' = [req EXCEPT ![r] = q]
  BY DEF StoreFile, Goto
<1>3. ReleaseRequestFits(q0) /\ AloneFits(q0) /\ q0 \in Request /\ q0.kind = "upload"
  BY <1>1 DEF ReleasesInv, RequestsFit, ReleaseRequestFits, Request
<1>4. /\ q.kind = "upload" /\ q.id = q0.id /\ q.at = "row" /\ q.was = q0.was /\ q.now = q0.now
      /\ q.page = q0.page /\ q.alone = q0.alone /\ q \in Request
      /\ q0.was \in Release /\ q0.now = [q0.was EXCEPT !.apk = file] /\ q0.id \in Ids
  BY <1>3 DEF Request, ReleaseRequestFits
<1>5. q.now.apk = file
  BY <1>4 DEF Release
<1> HIDE DEF file
<1>6. \A x \in Ids : \A f : ApkOf(x, f) => ApkOf(x, f)'
  <2> SUFFICES ASSUME NEW x \in Ids, NEW f, ApkOf(x, f) PROVE ApkOf(x, f)'
    OBVIOUS
  <2>1. CASE f = file /\ x # q0.id
    BY <1>1, <1>4, <2>1 DEF ApkOf
  <2>2. CASE f # file \/ x = q0.id
    BY <1>1, <1>4, <2>2 DEF ApkOf
  <2> QED
    BY <2>1, <2>2
<1>7. ReleaseRequestFits(q)'
  BY <1>1, <1>3, <1>4, <1>5 DEF ReleaseRequestFits, ApkOf
<1>8. AloneFits(q)' /\ PublishFits(q)'
  BY <1>1, <1>3, <1>4 DEF AloneFits, PublishFits
<1>9. RowsFit'
  <2>1. \A x \in DOMAIN release : x \in Ids /\ ApkOf(x, release[x].apk)
    BY DEF ReleasesInv, RowsFit
  <2>2. \A x \in DOMAIN release' : ApkOf(x, release[x].apk)'
    BY <1>1, <1>6, <2>1 DEF ApkOf
  <2> QED
    BY <1>1, <2>2 DEF ReleasesInv, RowsFit, Published
<1>10. /\ req[r] # NoRequest /\ raced' = raced /\ page' = page /\ release' = release
       /\ q.kind = req[r].kind /\ q.alone = req[r].alone /\ Published' = Published
  BY <1>1, <1>4 DEF Published
<1> QED
  BY <1>2, <1>6, <1>7, <1>8, <1>9, <1>10, RequestSteps

LEMMA ReadingKeeps ==
    ASSUME ReleasesInv, NEW r \in Requests, req[r] # NoRequest, NEW q,
           req' = [req EXCEPT ![r] = q],
           q # NoRequest => /\ q.kind = req[r].kind /\ q.alone = req[r].alone
                            /\ ReleaseRequestFits(q) /\ AloneFits(q) /\ PublishFits(q),
           UNCHANGED <<release, page, setting, files, launched, raced, stored>>
    PROVE  ReleasesInv'
<1>1. q # NoRequest => ReleaseRequestFits(q)' /\ AloneFits(q)' /\ PublishFits(q)'
  BY DEF ReleaseRequestFits, AloneFits, PublishFits, ApkOf, Published, PageOf
<1>2. RowsFit'
  BY DEF ReleasesInv, RowsFit, Published, ApkOf
<1>3. \A x \in Ids : \A f : ApkOf(x, f) => ApkOf(x, f)'
  BY DEF ApkOf
<1> QED
  BY <1>1, <1>2, <1>3, RequestSteps DEF Published

LEMMA RefreshKeeps ==
    ASSUME ReleasesInv, NEW r \in Requests, Refresh(r)
    PROVE  ReleasesInv'
<1> PICK q0 : q0 = req[r]
  OBVIOUS
<1> PICK q : q = IF release[q0.id].published
                 THEN [q0 EXCEPT !.at = "page", !.was = release[q0.id], !.now = release[q0.id]]
                 ELSE NoRequest
  OBVIOUS
<1>1. /\ req[r] # NoRequest /\ q0.at = "refresh"
      /\ UNCHANGED <<release, page, setting, files, launched, raced, stored>>
  BY DEF Refresh
<1>2. req' = [req EXCEPT ![r] = q]
  BY DEF Refresh, Refreshed, End
<1>3. ReleaseRequestFits(q0) /\ AloneFits(q0) /\ q0 \in Request /\ q0.kind = "update"
  BY <1>1 DEF ReleasesInv, RequestsFit, ReleaseRequestFits, Request
<1>4. release[q0.id] \in Release
  BY <1>3 DEF ReleasesInv, RowsFit, ReleaseRequestFits
<1>5. ASSUME q # NoRequest
      PROVE  /\ q.kind = "update" /\ q.id = q0.id /\ q.at = "page" /\ q.was = release[q0.id]
             /\ q.now = release[q0.id] /\ q.page = q0.page /\ q.alone = q0.alone /\ q \in Request
  BY <1>3, <1>4, <1>5 DEF Request
<1>6. q # NoRequest => ReleaseRequestFits(q) /\ AloneFits(q) /\ PublishFits(q)
  BY <1>3, <1>5 DEF ReleaseRequestFits, AloneFits, PublishFits
<1> QED
  BY <1>1, <1>2, <1>3, <1>5, <1>6, ReadingKeeps

LEMMA ReadPageKeeps ==
    ASSUME ReleasesInv, NEW r \in Requests, ReadPage(r)
    PROVE  ReleasesInv'
<1> PICK q0 : q0 = req[r]
  OBVIOUS
<1> PICK q : q = [q0 EXCEPT !.page = page, !.at = "commit"]
  OBVIOUS
<1>1. /\ req[r] # NoRequest /\ q0.at = "page" /\ req' = [req EXCEPT ![r] = q]
      /\ UNCHANGED <<release, page, setting, files, launched, raced, stored>>
  BY DEF ReadPage
<1>2. /\ ReleaseRequestFits(q0) /\ AloneFits(q0) /\ PublishFits(q0)
      /\ q0 \in Request /\ page \in Page \cup {NoPage}
  BY <1>1 DEF ReleasesInv, RequestsFit, RowsFit, ReleaseRequestFits
<1>3. /\ q.kind = q0.kind /\ q.id = q0.id /\ q.at = "commit" /\ q.was = q0.was
      /\ q.now = q0.now /\ q.page = page /\ q.alone = q0.alone /\ q \in Request
  BY <1>2 DEF Request
<1>4. ReleaseRequestFits(q) /\ AloneFits(q) /\ PublishFits(q)
  BY <1>1, <1>2, <1>3 DEF ReleaseRequestFits, AloneFits, PublishFits
<1> QED
  BY <1>1, <1>3, <1>4, ReadingKeeps

LEMMA ReloadKeeps ==
    ASSUME ReleasesInv, NEW r \in Requests, Reload(r)
    PROVE  ReleasesInv'
<1> PICK q0 : q0 = req[r]
  OBVIOUS
<1> PICK link : link = release[q0.id].apk
  OBVIOUS
<1> PICK q : q = IF link # NoFile THEN [q0 EXCEPT !.link = link, !.at = "setting"] ELSE NoRequest
  OBVIOUS
<1>1. /\ req[r] # NoRequest /\ q0.at = "reload"
      /\ UNCHANGED <<release, page, setting, files, launched, raced, stored>>
  BY DEF Reload
<1>2. /\ ReleaseRequestFits(q0) /\ AloneFits(q0) /\ PublishFits(q0) /\ q0 \in Request
      /\ q0.id \in DOMAIN release
  BY <1>1 DEF ReleasesInv, RequestsFit, ReleaseRequestFits
<1>3. q0.kind = "publish" => link # NoFile
  BY <1>2 DEF ReleaseRequestFits
<1>4. req' = [req EXCEPT ![r] = q]
  BY <1>3 DEF Reload, End, Goto
<1>5. link \in Files \cup {NoFile}
  BY <1>2 DEF ReleasesInv, RowsFit, Release
<1>6. ASSUME q # NoRequest
      PROVE  /\ q.kind = q0.kind /\ q.id = q0.id /\ q.at = "setting" /\ q.was = q0.was
             /\ q.now = q0.now /\ q.page = q0.page /\ q.link = link /\ q.alone = q0.alone /\ q \in Request
  BY <1>2, <1>5, <1>6 DEF Request
<1>7. q # NoRequest => ReleaseRequestFits(q) /\ AloneFits(q) /\ PublishFits(q)
  BY <1>1, <1>2, <1>6 DEF ReleaseRequestFits, AloneFits, PublishFits
<1> QED
  BY <1>1, <1>4, <1>6, <1>7, ReadingKeeps

LEMMA FailKeepsReleases ==
    ASSUME ReleasesInv, NEW r \in Requests, Fail(r)
    PROVE  ReleasesInv'
<1>1. /\ req[r] # NoRequest /\ req' = [req EXCEPT ![r] = NoRequest]
      /\ UNCHANGED <<release, page, setting, files, launched, raced, stored>>
  BY DEF Fail, End
<1> QED
  BY <1>1, ReadingKeeps

LEMMA CommitRowKeeps ==
    ASSUME ReleasesInv, NEW r \in Requests, CommitRow(r)
    PROVE  ReleasesInv'
<1> PICK q0 : q0 = req[r]
  OBVIOUS
<1> PICK old : old = release[q0.id]
  OBVIOUS
<1> PICK row : row = Written(old, q0.was, q0.now)
  OBVIOUS
<1> PICK q : q = IF q0.kind = "update" THEN [q0 EXCEPT !.at = "refresh"] ELSE NoRequest
  OBVIOUS
<1>1. /\ req[r] # NoRequest /\ q0.at = "row"
      /\ release' = [release EXCEPT ![q0.id] = row]
      /\ UNCHANGED <<page, setting, files, launched, raced, stored>>
  BY DEF CommitRow
<1>2. req' = [req EXCEPT ![r] = q]
  BY DEF CommitRow, Goto, End
<1>3. /\ ReleaseRequestFits(q0) /\ AloneFits(q0) /\ q0 \in Request /\ q0.kind # "publish"
      /\ q0.id \in DOMAIN release /\ q0.was \in Release /\ q0.now \in Release
  BY <1>1 DEF ReleasesInv, RequestsFit, ReleaseRequestFits, Request
<1>4. old \in Release /\ ApkOf(q0.id, old.apk) /\ q0.id \in Ids
  BY <1>3 DEF ReleasesInv, RowsFit
<1>5. /\ row \in Release
      /\ row.apk = IF q0.now.apk = q0.was.apk THEN old.apk ELSE q0.now.apk
      /\ row.published = IF q0.now.published = q0.was.published THEN old.published ELSE q0.now.published
      /\ old = q0.was => row = q0.now
  BY <1>3, <1>4, ReleaseFields
<1>6. /\ q0.now.apk = q0.was.apk \/ (q0.now.apk \in Files /\ ApkOf(q0.id, q0.now.apk))
      /\ q0.now.published = q0.was.published
  BY <1>1, <1>3, FilenameIsFunction DEF ReleaseRequestFits, Request, Release
<1>7. /\ ApkOf(q0.id, row.apk) /\ (old.apk # NoFile => row.apk # NoFile)
      /\ row.published = old.published
  BY <1>4, <1>5, <1>6, NoFileIsNone
<1>8. /\ DOMAIN release' = DOMAIN release /\ release'[q0.id] = row
      /\ \A x \in DOMAIN release : x # q0.id => release'[x] = release[x]
  BY <1>1, <1>3
<1>9. Published' = Published
  BY <1>7, <1>8 DEF Published
<1>10. \A x \in Ids : \A f : ApkOf(x, f) => ApkOf(x, f)'
  BY <1>1 DEF ApkOf
<1>11. \A x \in DOMAIN release : release[x].apk # NoFile => release'[x].apk # NoFile
  BY <1>7, <1>8
<1>12. RowsFit'
  <2>1. ASSUME NEW x \in DOMAIN release' PROVE release'[x] \in Release /\ ApkOf(x, release[x].apk)'
    <3>1. x \in Ids /\ release'[x] \in Release /\ ApkOf(x, release'[x].apk)
      BY <1>4, <1>5, <1>7, <1>8 DEF ReleasesInv, RowsFit
    <3> QED
      BY <1>1, <3>1 DEF ApkOf
  <2>2. \A x \in Published' : release'[x].apk # NoFile
    BY <1>9, <1>11 DEF ReleasesInv, RowsFit, Published
  <2> QED
    BY <1>1, <1>8, <1>9, <2>1, <2>2 DEF ReleasesInv, RowsFit
<1>13. ASSUME q # NoRequest
       PROVE  /\ q.kind = req[r].kind /\ q.alone = req[r].alone
              /\ ReleaseRequestFits(q)' /\ AloneFits(q)' /\ PublishFits(q)'
  <2>1. /\ q.kind = "update" /\ q0.kind = "update" /\ q.id = q0.id /\ q.at = "refresh" /\ q.was = q0.was
        /\ q.now = q0.now /\ q.page = q0.page /\ q.alone = q0.alone /\ q \in Request
    BY <1>3, <1>13 DEF Request
  <2>2. ReleaseRequestFits(q)'
    BY <1>1, <1>3, <1>8, <2>1 DEF ReleaseRequestFits
  <2>3. AloneFits(q)' /\ PublishFits(q)'
    BY <1>1, <1>3, <1>5, <1>8, <2>1 DEF AloneFits, PublishFits
  <2> QED
    BY <2>1, <2>2, <2>3
<1>14. req[r] # NoRequest /\ raced' = raced /\ page' = page
  BY <1>1
<1> QED
  BY <1>2, <1>8, <1>9, <1>10, <1>11, <1>12, <1>13, <1>14, RequestSteps

\* Publishing unpublishes the others with the page, so that a failure afterwards leaves
\* one release published.
LEMMA CommitPageKeeps ==
    ASSUME ReleasesInv, NEW r \in Requests, CommitPage(r)
    PROVE  ReleasesInv'
<1> PICK q0 : q0 = req[r]
  OBVIOUS
<1> PICK old : old = release[q0.id]
  OBVIOUS
<1> PICK row : row = Written(old, q0.was, q0.now)
  OBVIOUS
<1> PICK q : q = [q0 EXCEPT !.at = "reload"]
  OBVIOUS
<1>1. /\ req[r] # NoRequest /\ q0.at = "commit"
      /\ q0.page = NoPage => page = NoPage
      /\ page' = IF q0.page = NoPage THEN PageOf(q0.was) ELSE Written(page, q0.page, PageOf(q0.was))
      /\ launched' = (launched \/ q0.kind = "publish")
      /\ req' = [req EXCEPT ![r] = q]
      /\ UNCHANGED <<setting, files, raced, stored>>
  BY DEF CommitPage, Goto
<1>2. IF q0.kind = "publish"
      THEN release' = [y \in DOMAIN release |-> IF y = q0.id THEN row
                                                ELSE [release[y] EXCEPT !.published = FALSE]]
      ELSE release' = release
  BY DEF CommitPage, PublishedOnly
<1>3. /\ ReleaseRequestFits(q0) /\ AloneFits(q0) /\ PublishFits(q0) /\ q0 \in Request
      /\ q0.id \in DOMAIN release /\ q0.was \in Release /\ q0.now \in Release
      /\ q0.kind # "upload" /\ q0.now.apk = q0.was.apk
  BY <1>1 DEF ReleasesInv, RequestsFit, ReleaseRequestFits, Request, Release
<1>4. old \in Release /\ \A x \in DOMAIN release : release[x] \in Release /\ x \in Ids /\ ApkOf(x, release[x].apk)
  BY <1>3 DEF ReleasesInv, RowsFit
<1>5. /\ q.kind = q0.kind /\ q.id = q0.id /\ q.at = "reload" /\ q.was = q0.was
      /\ q.now = q0.now /\ q.page = q0.page /\ q.alone = q0.alone /\ q \in Request
  BY <1>3 DEF Request
<1>6. /\ row \in Release /\ row.apk = old.apk
      /\ row.published = IF q0.now.published = q0.was.published THEN old.published ELSE q0.now.published
      /\ old = q0.was => row = q0.now
  BY <1>3, <1>4, ReleaseFields
<1>7. q0.kind = "publish" =>
        /\ q0.now = [q0.was EXCEPT !.published = TRUE] /\ q0.now.published = TRUE /\ old.apk # NoFile
        /\ ~raced => row.published
  <2>1. q0.kind = "publish" => /\ q0.now = [q0.was EXCEPT !.published = TRUE] /\ old.apk # NoFile
                               /\ (~raced => (q0.was.published => old.published))
    BY <1>1, <1>3 DEF ReleaseRequestFits, PublishFits, Published
  <2>2. q0.was.published \in BOOLEAN
    BY <1>3 DEF Release
  <2> QED
    BY <1>3, <1>6, <2>1, <2>2 DEF Release
<1>8. /\ DOMAIN release' = DOMAIN release
      /\ \A x \in DOMAIN release : release'[x] \in Release /\ release'[x].apk = release[x].apk
  <2>1. CASE q0.kind = "publish"
    <3>1. DOMAIN release' = DOMAIN release
      BY <1>2, <2>1
    <3>2. ASSUME NEW x \in DOMAIN release, x # q0.id
          PROVE  release'[x] \in Release /\ release'[x].apk = release[x].apk
      <4>1. release'[x] = [release[x] EXCEPT !.published = FALSE] /\ release[x] \in Release
        BY <1>2, <1>4, <2>1, <3>2
      <4> QED
        BY <4>1 DEF Release
    <3>3. release'[q0.id] = row
      BY <1>2, <1>3, <2>1
    <3> QED
      BY <1>6, <3>1, <3>2, <3>3
  <2>2. CASE q0.kind # "publish"
    BY <1>2, <1>4, <2>2
  <2> QED
    BY <2>1, <2>2
<1>9. q0.kind = "publish" => release'[q0.id] = row /\ Published' \subseteq {q0.id}
  BY <1>2, <1>3, <1>4 DEF Published, Release
<1>10. q0.kind = "publish" /\ ~raced => Published' = {q0.id}
  BY <1>3, <1>7, <1>8, <1>9 DEF Published
<1>11. q0.kind # "publish" => release' = release /\ Published' = Published
  BY <1>2 DEF Published
<1>12. PageOf(q0.was) \in Page
  BY <1>3 DEF PageOf, Page, Release
<1>13. page' \in Page /\ (page = q0.page => page' = PageOf(q0.was))
  <2>1. CASE q0.page = NoPage
    BY <1>1, <1>12, <2>1
  <2>2. CASE q0.page # NoPage
    <3>1. page \in Page /\ q0.page \in Page
      BY <1>3, <2>2 DEF ReleaseRequestFits, Request
    <3> QED
      BY <1>1, <1>12, <2>2, <3>1, PageFields
  <2> QED
    BY <2>1, <2>2
<1>14. \A x \in Ids : \A f : ApkOf(x, f) => ApkOf(x, f)'
  BY <1>1 DEF ApkOf
<1>15. RowsFit'
  <2>1. ASSUME NEW x \in DOMAIN release' PROVE ApkOf(x, release[x].apk)'
    BY <1>1, <1>4, <1>8 DEF ApkOf
  <2>2. \A x \in Published' : release'[x].apk # NoFile
    BY <1>3, <1>7, <1>8, <1>9, <1>11 DEF ReleasesInv, RowsFit, Published
  <2>3. launched' /\ ~raced => \E x \in Ids : Published' = {x}
    BY <1>1, <1>3, <1>4, <1>10, <1>11 DEF ReleasesInv, RowsFit
  <2> QED
    BY <1>1, <1>4, <1>8, <1>13, <2>1, <2>2, <2>3 DEF RowsFit
<1>16. ReleaseRequestFits(q)'
  <2>1. q.kind = "publish" => release'[q.id].apk # NoFile
    BY <1>3, <1>5, <1>7, <1>8
  <2> QED
    BY <1>1, <1>3, <1>5, <1>8, <1>13, <2>1 DEF ReleaseRequestFits
<1>17. AloneFits(q)'
  <2>1. ASSUME q.alone PROVE page' = PageOf(release'[q.id])
    <3>1. old = q0.was /\ page = q0.page
      BY <1>1, <1>3, <1>5, <2>1 DEF AloneFits
    <3>2. PageOf(release'[q.id]) = PageOf(q0.was)
      <4>1. CASE q0.kind = "publish"
        <5>1. release'[q.id] = [q0.was EXCEPT !.published = TRUE]
          BY <1>5, <1>6, <1>7, <1>9, <3>1, <4>1
        <5> QED
          BY <1>3, <5>1 DEF PageOf, Release
      <4>2. CASE q0.kind # "publish"
        BY <1>5, <1>11, <3>1, <4>2
      <4> QED
        BY <4>1, <4>2
    <3> QED
      BY <1>13, <3>1, <3>2
  <2> QED
    BY <1>5, <2>1 DEF AloneFits, PageOf
<1>18. PublishFits(q)'
  BY <1>1, <1>5, <1>10 DEF PublishFits
<1>19. /\ req[r] # NoRequest /\ raced' = raced /\ req' = [req EXCEPT ![r] = q]
       /\ q.kind = req[r].kind /\ q.alone = req[r].alone
       /\ req[r].kind # "publish" => Published' = Published
       /\ \A x \in DOMAIN release : release[x].apk # NoFile => release'[x].apk # NoFile
  BY <1>1, <1>5, <1>8, <1>11
<1> QED
  BY <1>8, <1>13, <1>14, <1>15, <1>16, <1>17, <1>18, <1>19, RequestSteps

LEMMA CommitSettingKeeps ==
    ASSUME ReleasesInv, NEW r \in Requests, CommitSetting(r)
    PROVE  ReleasesInv'
<1> PICK q0 : q0 = req[r]
  OBVIOUS
<1> PICK q : q = IF q0.kind = "publish" THEN [q0 EXCEPT !.at = "final"] ELSE NoRequest
  OBVIOUS
<1>1. /\ req[r] # NoRequest /\ q0.at = "setting" /\ setting' = q0.link
      /\ UNCHANGED <<release, page, files, launched, raced, stored>>
  BY DEF CommitSetting, SettingFor
<1>2. req' = [req EXCEPT ![r] = q]
  BY DEF CommitSetting, Goto, End
<1>3. ReleaseRequestFits(q0) /\ AloneFits(q0) /\ PublishFits(q0) /\ q0 \in Request
  BY <1>1 DEF ReleasesInv, RequestsFit, ReleaseRequestFits
<1>4. ASSUME q # NoRequest
      PROVE  /\ q.kind = req[r].kind /\ q.alone = req[r].alone
             /\ ReleaseRequestFits(q)' /\ AloneFits(q)' /\ PublishFits(q)'
  <2>1. /\ q.kind = "publish" /\ q0.kind = "publish" /\ q.id = q0.id /\ q.at = "final" /\ q.was = q0.was
        /\ q.now = q0.now /\ q.page = q0.page /\ q.alone = q0.alone /\ q \in Request
    BY <1>3, <1>4 DEF Request
  <2>2. ReleaseRequestFits(q)'
    BY <1>1, <1>3, <2>1 DEF ReleaseRequestFits
  <2>3. AloneFits(q)'
    BY <1>1, <1>3, <2>1 DEF AloneFits, PageOf
  <2>4. PublishFits(q)'
    BY <1>1, <1>3, <2>1 DEF PublishFits, Published
  <2> QED
    BY <2>1, <2>2, <2>3, <2>4
<1>5. RowsFit' /\ Published' = Published /\ \A x \in Ids : \A f : ApkOf(x, f) => ApkOf(x, f)'
  BY <1>1 DEF ReleasesInv, RowsFit, Published, ApkOf
<1>6. req[r] # NoRequest /\ raced' = raced /\ page' = page /\ release' = release
  BY <1>1
<1> QED
  BY <1>2, <1>4, <1>5, <1>6, RequestSteps

LEMMA CommitPublishKeeps ==
    ASSUME ReleasesInv, NEW r \in Requests, CommitPublish(r)
    PROVE  ReleasesInv'
<1> PICK q0 : q0 = req[r]
  OBVIOUS
<1>1. /\ req[r] # NoRequest /\ q0.at = "final"
      /\ req' = [req EXCEPT ![r] = NoRequest]
      /\ release' = [release EXCEPT ![q0.id].published = TRUE]
      /\ UNCHANGED <<page, setting, files, launched, raced, stored>>
  BY DEF CommitPublish, End
<1>2. /\ ReleaseRequestFits(q0) /\ PublishFits(q0) /\ q0 \in Request /\ q0.kind = "publish"
      /\ q0.id \in DOMAIN release /\ release[q0.id].apk # NoFile
  BY <1>1 DEF ReleasesInv, RequestsFit, ReleaseRequestFits, Request
<1>3. \A x \in DOMAIN release : release[x] \in Release /\ x \in Ids /\ ApkOf(x, release[x].apk)
  BY DEF ReleasesInv, RowsFit
<1>4. /\ DOMAIN release' = DOMAIN release
      /\ \A x \in DOMAIN release :
           /\ release'[x] \in Release /\ release'[x].apk = release[x].apk
           /\ release'[x].published = (x = q0.id \/ release[x].published)
  BY <1>1, <1>2, <1>3 DEF Release
<1>5. Published' = Published \cup {q0.id}
  BY <1>2, <1>4 DEF Published
<1>6. \A x \in Ids : \A f : ApkOf(x, f) => ApkOf(x, f)'
  BY <1>1 DEF ApkOf
<1>7. RowsFit'
  <2>1. ASSUME NEW x \in DOMAIN release' PROVE ApkOf(x, release[x].apk)'
    BY <1>1, <1>3, <1>4 DEF ApkOf
  <2>2. \A x \in Published' : release'[x].apk # NoFile
    BY <1>2, <1>4, <1>5 DEF ReleasesInv, RowsFit, Published
  <2>3. ~raced => Published' = {q0.id}
    BY <1>1, <1>2, <1>5 DEF PublishFits
  <2> QED
    BY <1>1, <1>2, <1>3, <1>4, <2>1, <2>2, <2>3 DEF ReleasesInv, RowsFit
<1>8. /\ raced' = raced /\ page' = page /\ req[r].kind = "publish"
      /\ \A x \in DOMAIN release : release[x].apk # NoFile => release'[x].apk # NoFile
  BY <1>1, <1>2, <1>4
<1> QED
  BY <1>1, <1>4, <1>6, <1>7, <1>8, RequestSteps

LEMMA ReleasesInvStep == ReleasesInv /\ [Next]_vars => ReleasesInv'
<1> SUFFICES ASSUME ReleasesInv, [Next]_vars PROVE ReleasesInv'
  OBVIOUS
<1>1. ASSUME NEW p \in Page, EditPage(p) PROVE ReleasesInv'
  BY <1>1, EditsByHandKeep DEF EditPage
<1>2. ASSUME NEW f \in Files, EditSetting(f) PROVE ReleasesInv'
  BY <1>2, EditsByHandKeep DEF EditSetting
<1>3. ASSUME NEW r \in Requests, Finish(r) PROVE ReleasesInv'
  BY <1>3, RefreshKeeps, ReloadKeeps, CommitSettingKeeps, CommitPublishKeeps DEF Finish
<1>4. CASE UNCHANGED vars
  BY <1>4 DEF vars, ReleasesInv, RequestsFit, ReleaseRequestFits, AloneFits, PublishFits, AloneIsAlone,
       PublishesAlone, RowsFit, ApkOf, Published, PageOf
<1> QED
  BY <1>1, <1>2, <1>3, <1>4, CreateReleaseKeeps, BeginsKeep, StoreFileKeepsReleases, CommitRowKeeps,
     ReadPageKeeps, CommitPageKeeps, FailKeepsReleases DEF Next

LEMMA ReleasesInvariant == Spec => []ReleasesInv
BY ReleasesInvInit, ReleasesInvStep, PTL DEF Spec

\* Once a release has been published exactly one is, wherever a publication or an edit
\* has failed, unless publications overlap (publish_app_release).
THEOREM OneIsPublished == Spec => []OnePublished
<1>1. ReleasesInv => OnePublished
  <2> SUFFICES ASSUME ReleasesInv, launched, ~raced PROVE Cardinality(Published) = 1
    BY DEF OnePublished
  <2> PICK x \in Ids : Published = {x}
    BY DEF ReleasesInv, RowsFit
  <2> QED
    BY FS_Singleton
<1> QED
  BY <1>1, ReleasesInvariant, PTL

\* A release points to an APK that was uploaded for it, unless another upload took the
\* name (upload_app_release_apk).
THEOREM ApksAreOwn == Spec => []ApkIsOwn
<1>1. ReleasesInv => ApkIsOwn
  BY DEF ReleasesInv, RowsFit, ApkIsOwn, ApkOf
<1> QED
  BY <1>1, ReleasesInvariant, PTL

\* A publication or edit that nothing else ran beside leaves release, page and setting
\* in agreement, whatever had failed before (_sync_public_app_download).
THEOREM PageIsSynced == Spec => SyncedAtTheEnd
<1>1. ASSUME ReleasesInv, [Next]_vars, NEW r \in Requests, NEW x \in Ids,
             req[r] # NoRequest, req[r].id = x, req[r].alone, req[r].kind \in {"publish", "update"},
             Finish(r), req'[r] = NoRequest, Published' = {x}
      PROVE  Shown(x)'
  <2> PICK q : q = req[r]
    OBVIOUS
  <2>1. /\ ReleaseRequestFits(q) /\ AloneFits(q) /\ q.alone /\ q.id = x /\ q \in Request
        /\ x \in DOMAIN release /\ DOMAIN req = Requests
    BY <1>1 DEF ReleasesInv, RequestsFit, ReleaseRequestFits
  <2>2. release[x] \in Release /\ \A y \in Published : release[y].apk # NoFile
    BY <1>1, <2>1 DEF ReleasesInv, RowsFit
  \* A release that is published is not done with at this point.
  <2>3. CASE Refresh(r)
    <3>1. x \in Published /\ req' = [req EXCEPT ![r] = [q EXCEPT !.at = "page", !.was = release[x], !.now = release[x]]]
      BY <1>1, <2>1, <2>3 DEF Refresh, Refreshed, Published
    <3>2. [q EXCEPT !.at = "page", !.was = release[x], !.now = release[x]] \in Request
      BY <2>1, <2>2 DEF Request
    <3> QED
      BY <1>1, <2>1, <3>1, <3>2, NoRequestIsNone
  <2>4. CASE Reload(r)
    <3>1. UNCHANGED <<release, page, setting>> /\ q.at = "reload"
      BY <2>4 DEF Reload
    <3>2. x \in Published
      BY <1>1, <3>1 DEF Published
    <3>3. req' = [req EXCEPT ![r] = [q EXCEPT !.link = release[x].apk, !.at = "setting"]]
      BY <2>1, <2>2, <2>4, <3>2 DEF Reload
    <3>4. [q EXCEPT !.link = release[x].apk, !.at = "setting"] \in Request
      BY <2>1, <2>2 DEF Request, Release
    <3> QED
      BY <1>1, <2>1, <3>3, <3>4, NoRequestIsNone
  <2>5. CASE CommitSetting(r)
    BY <2>1, <2>5 DEF CommitSetting, SettingFor, Shown, AloneFits, PageOf
  <2>6. CASE CommitPublish(r)
    <3>1. /\ q.at = "final" /\ release' = [release EXCEPT ![x].published = TRUE]
          /\ UNCHANGED <<page, setting>>
      BY <2>1, <2>6 DEF CommitPublish
    <3>2. PageOf(release'[x]) = PageOf(release[x]) /\ release'[x].apk = release[x].apk
      BY <2>1, <2>2, <3>1 DEF PageOf, Release
    <3>3. page = PageOf(release[x]) /\ setting = release[x].apk
      BY <2>1, <3>1 DEF AloneFits
    <3> QED
      BY <3>1, <3>2, <3>3 DEF Shown, PageOf
  <2> QED
    BY <1>1, <2>3, <2>4, <2>5, <2>6 DEF Finish
<1>2. ReleasesInv /\ [Next]_vars =>
        [\A r \in Requests, x \in Ids :
           (/\ req[r] # NoRequest /\ req[r].id = x
            /\ req[r].alone /\ req[r].kind \in {"publish", "update"}
            /\ Finish(r) /\ req'[r] = NoRequest /\ Published' = {x})
             => Shown(x)']_vars
  BY <1>1
<1> QED
  BY <1>2, ReleasesInvariant, PTL DEF Spec, SyncedAtTheEnd

=============================================================================
