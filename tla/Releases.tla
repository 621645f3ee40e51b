------------------------------ MODULE Releases ------------------------------
(***************************************************************************)
(* Releases of the app, the public download page and the runtime setting   *)
(* that links to the APK (app/services/app_releases_service.py,            *)
(* app_download_service.py, runtime_settings_service.py).                  *)
(*                                                                         *)
(* Publishing a release, and editing one that is published, copies it to   *)
(* the page and its link to the setting: three tables in up to three       *)
(* transactions, between which other requests may run or the process may   *)
(* die.  As in Articles, a commit writes the columns that differ from what *)
(* was read; reading again after a commit gives the row as it is then.     *)
(***************************************************************************)
EXTENDS Naturals, FiniteSets, Functions

CONSTANTS Ids,          \* ids of releases
          Codes,        \* version codes
          Names,        \* version names
          Files,        \* names of stored APKs
          ApkFilename,  \* _apk_filename_for_version: [Names -> Files]
          Texts,        \* what a page says about a release otherwise
          BadText,      \* a text with a link that is none
          Patches,      \* the fields that are set in a PATCH, and to what
          Requests,     \* requests that may be under way at a time
          NoFile,
          NoPage,
          NoRequest,
          MaxRequests   \* bound: requests that are begun, edits by hand included

ASSUME FilenameIsFunction == ApkFilename \in [Names -> Files]
ASSUME BadTextIsText == BadText \in Texts
ASSUME NoFileIsNone == NoFile \notin Files

\* AppReleaseUpdateRequest has neither the APK nor whether it is published.
ASSUME PatchesAreUpdates ==
  \A p \in Patches : \A f \in DOMAIN p :
    p[f] \in CASE f = "name" -> Names [] f = "code" -> Codes [] f = "text" -> Texts [] OTHER -> {}

VARIABLES release,      \* app_releases, by id
          page,         \* the row of app_download_content
          setting,      \* the row apk_url of app_settings
          files,        \* stored APKs: name -> release it was uploaded for
          req,          \* requests under way
          launched,     \* history: a release has been published
          raced,        \* history: requests to publish have overlapped
          stored,       \* history: for which release which file was stored
          begun

vars == <<release, page, setting, files, req, launched, raced, stored, begun>>
----------------------------------------------------------------------------
Release == [name : Names, code : Codes, text : Texts, apk : Files \cup {NoFile},
            published : BOOLEAN]

Page == [code : Codes, text : Texts, link : Files \cup {NoFile}]

(* What a request knows: the release as read, as it is to be, the page as  *)
(* read, the link as read again, and whether another request ran meanwhile.*)
Request ==
  [kind : {"update", "upload", "publish"}, id : Ids,
   at : {"store", "row", "refresh", "page", "commit", "reload", "setting", "final"},
   was : Release, now : Release, page : Page \cup {NoPage},
   link : Files \cup {NoFile}, alone : BOOLEAN]

ASSUME NoRequestIsNone == NoRequest \notin Request

TypeOK ==
  /\ DOMAIN release \subseteq Ids
  /\ \A x \in DOMAIN release : release[x] \in Release
  /\ \A x, y \in DOMAIN release : release[x].code = release[y].code => x = y
  /\ page \in Page \cup {NoPage}
  /\ setting \in Files \cup {NoFile}
  /\ DOMAIN files \subseteq Files /\ \A f \in DOMAIN files : files[f] \in Ids
  /\ \A r \in Requests : req[r] = NoRequest \/ req[r] \in Request
  /\ launched \in BOOLEAN /\ raced \in BOOLEAN
  /\ stored \subseteq Ids \X Files
  /\ begun \in 0 .. MaxRequests

Init ==
  /\ release = <<>> /\ page = NoPage /\ setting = NoFile /\ files = <<>>
  /\ req = [r \in Requests |-> NoRequest]
  /\ launched = FALSE /\ raced = FALSE /\ stored = {} /\ begun = 0
----------------------------------------------------------------------------
Published == {x \in DOMAIN release : release[x].published}

CodeAvailable(c, x) == \A y \in DOMAIN release \ {x} : release[y].code # c

(* The columns in which `now` differs from `was`, written over `row`. *)
Written(row, was, now) ==
  [f \in DOMAIN row |-> IF now[f] = was[f] THEN row[f] ELSE now[f]]

CreateRelease(x, name, code) ==
  /\ x \notin DOMAIN release
  /\ CodeAvailable(code, x)
  /\ \E text \in Texts :
       LET row == [name |-> name, code |-> code, text |-> text, apk |-> NoFile,
                   published |-> FALSE]
       IN  release' = [y \in DOMAIN release \cup {x} |->
                         IF y = x THEN row ELSE release[y]]
  /\ UNCHANGED <<page, setting, files, req, launched, raced, stored, begun>>

(* What the page accepts of what a release may say: links have to be some. *)
AppDownloadSnapshot(text) == text # BadText

(* An administrator edits the page or the setting by hand; the fields he   *)
(* leaves out are as before.                                               *)
EditPage(p) ==
  /\ begun < MaxRequests /\ begun' = begun + 1
  /\ AppDownloadSnapshot(p.text)
  /\ page' = p
  /\ req' = [r \in Requests |-> IF req[r] = NoRequest THEN NoRequest
                                ELSE [req[r] EXCEPT !.alone = FALSE]]
  /\ UNCHANGED <<release, setting, files, launched, raced, stored>>

EditSetting(f) ==
  /\ begun < MaxRequests /\ begun' = begun + 1
  /\ setting' = f
  /\ req' = [r \in Requests |-> IF req[r] = NoRequest THEN NoRequest
                                ELSE [req[r] EXCEPT !.alone = FALSE]]
  /\ UNCHANGED <<release, page, files, launched, raced, stored>>
----------------------------------------------------------------------------
Begin(r, kind, x, at, now) ==
  /\ req[r] = NoRequest
  /\ begun < MaxRequests /\ begun' = begun + 1
  /\ LET others == {q \in Requests : req[q] # NoRequest}
         q      == [kind |-> kind, id |-> x, at |-> at, was |-> release[x],
                    now |-> now, page |-> NoPage, link |-> NoFile,
                    alone |-> others = {}]
     IN  /\ req' = [p \in Requests |->
                      IF p = r THEN q
                      ELSE IF p \in others THEN [req[p] EXCEPT !.alone = FALSE]
                      ELSE NoRequest]
         /\ raced' = (raced \/ (kind = "publish" /\
                       \E p \in others : req[p].kind = "publish"))
  /\ UNCHANGED <<release, page, setting, files, launched, stored>>

Goto(r, at) == req' = [req EXCEPT ![r].at = at]

End(r) == req' = [req EXCEPT ![r] = NoRequest]

BeginUpdate(r, x, p) ==
  Begin(r, "update", x, "row",
        [f \in DOMAIN release[x] |-> IF f \in DOMAIN p THEN p[f] ELSE release[x][f]])

BeginUpload(r, x) ==
  Begin(r, "upload", x, "store",
        [release[x] EXCEPT !.apk = ApkFilename[release[x].name]])

BeginPublish(r, x) ==
  /\ release[x].apk # NoFile
  /\ Begin(r, "publish", x, "page", [release[x] EXCEPT !.published = TRUE])

\* Mutant: the name the release has by the time the file is stored.
StoredAsNow(q) == ApkFilename[release[q.id].name]

StoredAs(q) == ApkFilename[q.was.name]

(* put_bytes, before the row is committed. *)
StoreFile(r) ==
  /\ req[r] # NoRequest /\ req[r].at = "store"
  /\ LET file == StoredAs(req[r])
     IN  /\ files' = [f \in DOMAIN files \cup {file} |->
                        IF f = file THEN req[r].id ELSE files[f]]
         /\ stored' = stored \cup {<<req[r].id, file>>}
  /\ Goto(r, "row")
  /\ UNCHANGED <<release, page, setting, launched, raced, begun>>

(* The commit of an edit or of an upload. *)
CommitRow(r) ==
  LET q   == req[r]
      row == Written(release[q.id], q.was, q.now)
  IN
  /\ q # NoRequest /\ q.at = "row"
  /\ CodeAvailable(row.code, q.id)
  /\ release' = [release EXCEPT ![q.id] = row]
  /\ IF q.kind = "update" THEN Goto(r, "refresh") ELSE End(r)
  /\ UNCHANGED <<page, setting, files, launched, raced, stored, begun>>

(* An edited release as it is after the commit. *)
Refreshed(r) == release[req[r].id]

(* An edit is done unless the release is published by now. *)
Refresh(r) ==
  /\ req[r] # NoRequest /\ req[r].at = "refresh"
  /\ IF Refreshed(r).published
     THEN req' = [req EXCEPT ![r].at = "page", ![r].was = Refreshed(r),
                             ![r].now = Refreshed(r)]
     ELSE End(r)
  /\ UNCHANGED <<release, page, setting, files, launched, raced, stored, begun>>

(* The page is read; what it is to say is validated. *)
ReadPage(r) ==
  /\ req[r] # NoRequest /\ req[r].at = "page"
  /\ AppDownloadSnapshot(req[r].was.text)
  /\ req' = [req EXCEPT ![r].page = page, ![r].at = "commit"]
  /\ UNCHANGED <<release, page, setting, files, launched, raced, stored, begun>>

PageOf(row) == [code |-> row.code, text |-> row.text, link |-> row.apk]

\* Mutant: the others stay published.
PublishedAlso(q) ==
  [release EXCEPT ![q.id] = Written(@, q.was, q.now)]

(* Publishing: no other release stays published. *)
PublishedOnly(q) ==
  [y \in DOMAIN release |->
     IF y = q.id THEN Written(release[y], q.was, q.now)
     ELSE [release[y] EXCEPT !.published = FALSE]]

(* update_app_download_content commits the page and, when publishing, what *)
(* has been done to the releases before.                                   *)
CommitPage(r) ==
  LET q == req[r] IN
  /\ q # NoRequest /\ q.at = "commit"
  /\ q.page = NoPage => page = NoPage
  /\ page' = IF q.page = NoPage THEN PageOf(q.was)
             ELSE Written(page, q.page, PageOf(q.was))
  /\ release' = IF q.kind = "publish" THEN PublishedOnly(q) ELSE release
  /\ launched' = (launched \/ q.kind = "publish")
  /\ Goto(r, "reload")
  /\ UNCHANGED <<setting, files, raced, stored, begun>>

(* The commit has expired what the session knows of the release. *)
Reload(r) ==
  LET q    == req[r]
      link == release[q.id].apk
  IN
  /\ q # NoRequest /\ q.at = "reload"
  /\ IF link # NoFile
     THEN req' = [req EXCEPT ![r].link = link, ![r].at = "setting"]
     ELSE IF q.kind = "publish" THEN Goto(r, "final") ELSE End(r)
  /\ UNCHANGED <<release, page, setting, files, launched, raced, stored, begun>>

\* Mutant: the setting is made once.
SettingKept(link) == IF setting = NoFile THEN link ELSE setting

SettingFor(link) == link

CommitSetting(r) ==
  /\ req[r] # NoRequest /\ req[r].at = "setting"
  /\ setting' = SettingFor(req[r].link)
  /\ IF req[r].kind = "publish" THEN Goto(r, "final") ELSE End(r)
  /\ UNCHANGED <<release, page, files, launched, raced, stored, begun>>

(* is_published is set again, on a row whose columns have expired, and so  *)
(* is written whatever it is now.                                          *)
CommitPublish(r) ==
  /\ req[r] # NoRequest /\ req[r].at = "final"
  /\ release' = [release EXCEPT ![req[r].id].published = TRUE]
  /\ End(r)
  /\ UNCHANGED <<page, setting, files, launched, raced, stored, begun>>

(* A unique key or the validation refuses, or the process dies.  What has  *)
(* been committed stays.                                                   *)
Fail(r) ==
  /\ req[r] # NoRequest
  /\ End(r)
  /\ UNCHANGED <<release, page, setting, files, launched, raced, stored, begun>>

Finish(r) == Refresh(r) \/ Reload(r) \/ CommitSetting(r) \/ CommitPublish(r)

Next ==
  \/ \E x \in Ids, name \in Names, code \in Codes : CreateRelease(x, name, code)
  \/ \E p \in Page : EditPage(p)
  \/ \E f \in Files : EditSetting(f)
  \/ \E r \in Requests, x \in DOMAIN release :
       \/ \E p \in Patches : BeginUpdate(r, x, p)
       \/ BeginUpload(r, x)
       \/ BeginPublish(r, x)
  \/ \E r \in Requests :
       \/ StoreFile(r) \/ CommitRow(r) \/ ReadPage(r) \/ CommitPage(r)
       \/ Finish(r) \/ Fail(r)

Spec == Init /\ [][Next]_vars
----------------------------------------------------------------------------
(* Once a release has been published, exactly one is, whatever fails half  *)
(* way, unless requests to publish overlap: the last commit of one may     *)
(* then put its release beside the other's.                                *)
OnePublished == launched /\ ~raced => Cardinality(Published) = 1

(* Page and setting are those of release x. *)
Shown(x) ==
  /\ page = PageOf(release[x])
  /\ setting = release[x].apk

(* When a publication, or an edit of a published release, ends and nothing *)
(* has run meanwhile, release, page and setting agree, whatever had gone   *)
(* wrong before.                                                           *)
SyncedAtTheEnd ==
  [][\A r \in Requests, x \in Ids :
       (/\ req[r] # NoRequest /\ req[r].id = x
        /\ req[r].alone /\ req[r].kind \in {"publish", "update"}
        /\ Finish(r) /\ req'[r] = NoRequest /\ Published' = {x})
         => Shown(x)']_vars

(* The APK a release points to was uploaded for it, unless one has been    *)
(* uploaded under the same file name for another release.                  *)
ApkIsOwn ==
  \A x \in DOMAIN release :
    LET f == release[x].apk
    IN  \/ f = NoFile
        \/ f \in DOMAIN files /\ files[f] = x
        \/ \E y \in Ids \ {x} : <<y, f>> \in stored
=============================================================================
