---------------------------------- MODULE Site ----------------------------------
(***************************************************************************)
(* The documentation of a provider from its pages to a site: docs/tree.go  *)
(* (the files), docs/docs.go (what Build does for one provider) and        *)
(* docs/generate.go (Generate, Check).                                     *)
(*                                                                         *)
(* A path is a sequence of names, of directories or of markdown files; a   *)
(* tree maps the path of every file to the page it holds.  A provider is a *)
(* record: its summary, the tree it embeds and the directory in it that    *)
(* holds its pages, the kinds it serves, each with its singular and        *)
(* description, where it keeps a kind's page, and whether its pages may be *)
(* rewritten (SourceDir).  What is sorted for display is a set here, and   *)
(* kinds of one provider differ in name.                                   *)
(***************************************************************************)
EXTENDS Pages
Lists == INSTANCE SequencesExt

Dir(stem) == [stem |-> stem, md |-> FALSE]
Md(stem)  == [stem |-> stem, md |-> TRUE]

(* ResourcePage: where a kind's page is by default. *)
ResourcePage(singular) == <<Dir("resources"), Dir(singular), Md(singular)>>

-----------------------------------------------------------------------------
(* The tree. *)
Below(tree, dir) == {path \in DOMAIN tree : Lists!IsStrictPrefix(dir, path)}

(* ReadDir: each name in a directory once, as a file or a directory.        *)
ReadDir(tree, dir) ==
  {[name |-> path[Len(dir) + 1], dir |-> Len(path) > Len(dir) + 1] : path \in Below(tree, dir)}

Sub(tree, dir) ==
  [path \in {SubSeq(full, Len(dir) + 1, Len(full)) : full \in Below(tree, dir)} |-> tree[dir \o path]]

-----------------------------------------------------------------------------
(* Build. *)
(* readPage: a page that is not there is not an error, and reads as nothing *)
(* does.                                                                    *)
PageAt(tree, path) ==
  [exists |-> path \in DOMAIN tree, read |-> ReadPage(IF path \in DOMAIN tree THEN tree[path] ELSE <<>>)]

(* A page as it is shown, without its front matter. *)
Shown(page, default) ==
  [exists |-> page.exists, error |-> page.read.error, body |-> page.read.body,
   title |-> IF page.read.title = "" THEN default ELSE page.read.title]

(* readGuides: every markdown file of the directory, by its name. *)
ReadGuides(tree) ==
  {[slug |-> e.name.stem, page |-> Shown(PageAt(tree, <<Dir("guides"), e.name>>), e.name.stem)] :
     e \in {f \in ReadDir(tree, <<Dir("guides")>>) : ~f.dir /\ f.name.md}}

PagePath(p, singular) == IF singular \in DOMAIN p.layout THEN p.layout[singular] ELSE ResourcePage(singular)

(* Wrong: the page is looked for by default, wherever the provider keeps it. *)
BuildResourceByDefault(tree, p, kind) ==
  LET t    == p.kinds[kind]
      page == PageAt(tree, ResourcePage(t.singular))
  IN
  [slug |-> t.singular,
   subcategory |-> KeyOr(page.read.keys, "subcategory", "Resources"),
   description |-> KeyOr(page.read.keys, "description", t.description),
   page |-> Shown(page, kind)]

(* buildResource: what the page's front matter says of the kind, or what    *)
(* its handler does.                                                        *)
BuildResource(tree, p, kind) ==
  LET t    == p.kinds[kind]
      page == PageAt(tree, PagePath(p, t.singular))
  IN
  [slug |-> t.singular,
   subcategory |-> KeyOr(page.read.keys, "subcategory", "Resources"),
   description |-> KeyOr(page.read.keys, "description", t.description),
   page |-> Shown(page, kind)]

(* buildProvider: one page that cannot be read is an error of the provider. *)
BuildProvider(p) ==
  LET tree  == Sub(p.fs, p.dir)
      built == [summary |-> p.summary, sourceDir |-> p.sourceDir, layout |-> p.layout,
                overview |-> Shown(PageAt(tree, <<Md("index")>>), "Overview"),
                guides |-> ReadGuides(tree),
                resources |-> [k \in DOMAIN p.kinds |-> BuildResource(tree, p, k)]]
  IN  [built |-> built,
       error |-> \/ built.overview.error
                 \/ \E g \in built.guides : g.page.error
                 \/ \E k \in DOMAIN built.resources : built.resources[k].page.error]

-----------------------------------------------------------------------------
(* Generate and Check of a site's provider, against what is on disk.        *)
PagesOf(built) == [k \in DOMAIN built.resources |-> PagePath(built, built.resources[k].slug)]

GenerateProvider(built, disk) ==
  IF built.sourceDir THEN Generate(disk, Lists!SetToSeq(DOMAIN built.resources), PagesOf(built), 0) ELSE disk

If(condition, what) == IF condition THEN {what} ELSE {}

(* checkResource: what is wrong with the page of a kind. *)
CheckResource(built, k, disk) ==
  LET r == built.resources[k] IN
  If(r.description = "", "no description") \cup If(~r.page.exists, "no page")
    \cup If(built.sourceDir /\ Stale(disk, k, PagesOf(built)[k]), "out of date")

Check(built, disk) ==
  [provider  |-> If(~built.overview.exists, "no overview") \cup If(built.summary = "", "no summary"),
   resources |-> [k \in DOMAIN built.resources |-> CheckResource(built, k, disk)]]

-----------------------------------------------------------------------------
(* The pages of a provider's kinds are its kinds' alone: none is another    *)
(* kind's, a guide or the overview.                                         *)
PagesApart(p) ==
  \A k \in DOMAIN p.kinds :
    LET page == PagePath(p, p.kinds[k].singular) IN
    /\ page \notin {<<>>, <<Md("index")>>} /\ ~(Len(page) = 2 /\ page[1] = Dir("guides"))
    /\ \A l \in DOMAIN p.kinds : PagePath(p, p.kinds[l].singular) = page => l = k

(* A provider whose pages were generated, and then embedded. *)
Disk(p)        == Sub(p.fs, p.dir)
Generated(p)   == GenerateProvider(BuildProvider(p).built, Disk(p))
Regenerated(p) == [p EXCEPT !.fs = Generated(p), !.dir = <<>>]

(* Pages that were generated and then embedded are found again, one for     *)
(* each kind, filed as they were; nothing is left to report of them         *)
(* (generate.go:100), and the overview and the guides are as before.        *)
FoundAsBefore(kinds, before, disk, after, generated) ==
  /\ ~after.error
  /\ \A k \in kinds :
       LET old == before.built.resources[k]
           new == after.built.resources[k]
       IN
       /\ new.page.exists
       /\ new.page.title = old.page.title
       /\ new.subcategory = old.subcategory
       /\ new.description = old.description
       /\ Check(after.built, generated).resources[k] =
            Check(before.built, disk).resources[k] \ {"no page", "out of date"}
  /\ after.built.guides = before.built.guides /\ after.built.overview = before.built.overview

FoundAgain(p) ==
  ~BuildProvider(p).error /\ p.sourceDir /\ PagesApart(p) =>
    FoundAsBefore(DOMAIN p.kinds, BuildProvider(p), Disk(p), BuildProvider(Regenerated(p)), Generated(p))

(* Every guide is listed once, and no other file is. *)
GuidesAreListed(p) ==
  {g.slug : g \in BuildProvider(p).built.guides} =
  {path[2].stem : path \in {q \in DOMAIN Disk(p) : Len(q) = 2 /\ q[1] = Dir("guides") /\ q[2].md}}
=============================================================================
