--------------------------- MODULE MCSiteContent ---------------------------
(***************************************************************************)
(* Values for checking SiteContent: two releases, whose version names      *)
(* differ in characters a file name does not keep, or altogether; two      *)
(* articles over three slugs; two requests.                                *)
(***************************************************************************)
EXTENDS SiteContent, TLC

CONSTANTS n1, n2, f1, f2, t1, h, prose

MCApkFilename == (n1 :> f1) @@ (n2 :> f2)

MCPatches == {[text |-> t1], [text |-> BadText], [name |-> n2], [code |-> 2]}

MCHeadings == {h}

MCOthers == {prose}

MCBodies == {<<h>>, <<prose>>, <<h, prose>>, <<h, h>>}

MCPayloads ==
  {[slug |-> s, status |-> "draft", body |-> <<h>>, related |-> {}] : s \in Slugs}
    \cup {[slug |-> s, status |-> "archived", body |-> <<h, h>>, related |-> {s}] : s \in Slugs}

MCArticlePatches ==
  {[slug |-> s] : s \in Slugs}
    \cup {[related |-> {s}] : s \in Slugs}
    \cup {[slug |-> s, related |-> {}] : s \in Slugs}
    \cup {[body |-> x] : x \in MCBodies}
    \cup {[status |-> "draft", image |-> NoImage, category |-> c, author |-> u] :
           c \in Categories, u \in Authors}

Symmetry == Permutations(Ids) \cup Permutations(Requests)
            \cup Permutations(ArticleIds) \cup Permutations(Slugs)

=============================================================================
