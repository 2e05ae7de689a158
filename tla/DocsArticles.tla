---------------------------- MODULE DocsArticles ----------------------------
(***************************************************************************)
(* DocsSite under names that do not collide with those of DocsAuth, so     *)
(* that one module can speak of both halves of the documentation site,     *)
(* which share no state; and what is assumed of its constants.             *)
(***************************************************************************)
EXTENDS Naturals, FiniteSets

CONSTANTS Seeded, OldSlugs, FreeSlugs, MaxId, MaxEvents
VARIABLES articles, nextId, running, list, sel, form, saving, load, upload, crossed, spent

Site == INSTANCE DocsSite WITH call <- saving

ASSUME SeedAssumption == Seeded \subseteq Site!canonicalArticleSlugs
\* The articles of an older release fit in the bound.
ASSUME ArticleAssumption ==
  /\ MaxId \in Nat /\ MaxEvents \in Nat
  /\ IsFiniteSet(OldSlugs) /\ Cardinality(OldSlugs \union Seeded) <= MaxId

SiteSpec == Site!Spec

\* The types of DocsSite; no two articles share an id or a slug.
SiteTypeOK == Site!TypeOK

\* Whatever the editor and older releases have made of the table, the seed
\* transaction of the next start succeeds, and a second one changes nothing more.
SeedSettles == Site!SeedSettles

\* A start keeps what editors have made of a starter article, unless they gave
\* it a slug the seed hides.
RestartKeepsEdits == Site!RestartKeepsEdits

\* No article is overwritten with the text of another one, as long as no image
\* upload ends in the form of an article it was not started from.
OwnText == Site!OwnText
=============================================================================
