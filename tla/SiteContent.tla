----------------------------- MODULE SiteContent -----------------------------
(***************************************************************************)
(* What the admin publishes: releases and articles.  They have no table,   *)
(* file or lock in common, so that nothing comes of their interleavings:   *)
(* here the steps of one are taken while the other is as it was at first,  *)
(* and each of the two is explored in full.                                *)
(***************************************************************************)
EXTENDS Releases

CONSTANTS ArticleIds, Slugs, Categories, Authors, Headings, Others, Bodies, Payloads, ArticlePatches,
          NoImage, MaxEdits

VARIABLES article, redirect, images, categories, authors, edit, had, overlapped, edits
articleVars == <<article, redirect, images, categories, authors, edit, had, overlapped, edits>>

A == INSTANCE Articles WITH
       Ids <- ArticleIds, Patches <- ArticlePatches, files <- images, req <- edit, raced <- overlapped

NoArticles == article = <<>> /\ categories = {} /\ authors = {}

ReleasesNext == NoArticles /\ Next /\ UNCHANGED articleVars

NoReleases == release = <<>> /\ begun = 0

ArticlesNext == NoReleases /\ A!Next /\ UNCHANGED vars

ContentInit == Init /\ A!Init

ContentSpec == ContentInit /\ [][ReleasesNext \/ ArticlesNext]_<<vars, articleVars>>
-----------------------------------------------------------------------------
(* Links to a slug an article has had lead to it, unless another has it.   *)
OldLinksLeadHome == A!OldLinksLeadHome

(* The table of contents is that of the body, unless edits have overlapped. *)
TocFollowsBody == A!TocFollowsBody

(* No article is related to itself, unless edits of it have overlapped.    *)
NotRelatedToItself == A!NotRelatedToItself

(* An article shows an image of its own, unless another took the name.     *)
ImageIsOwn == A!ImageIsOwn

=============================================================================
