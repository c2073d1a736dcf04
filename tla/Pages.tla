-------------------------------- MODULE Pages --------------------------------
(***************************************************************************)
(* The documentation pages of docs/sections.go, docs/generate.go and       *)
(* docs/docs.go: how a page is cut at the markers of its generated         *)
(* sections, how the sections are refreshed in place, how every page of a  *)
(* provider is generated and checked, and how a page's front matter and    *)
(* title are read.                                                         *)
(*                                                                         *)
(* A page is a sequence of pieces: lines of prose, blank lines, headings   *)
(* of the first level, lines of ---, lines that only begin with it, YAML   *)
(* keys, the marker that opens or closes a section, and the table that is  *)
(* generated for a section of a kind.  Files maps a page's name to what is *)
(* on disk; a kind's page is named by its slug, the kind's singular.       *)
(***************************************************************************)
EXTENDS Naturals, Sequences
LOCAL INSTANCE FiniteSetsExt
LOCAL INSTANCE SequencesExt

CONSTANT Word  \* the words, titles and names: strings

(* The scaffold's own. *)
ASSUME WordAssumption == {"subcategory", "Resources", "spec", "status", "columns"} \subseteq Word

Begin(section)      == [piece |-> "begin", of |-> section]
End(section)        == [piece |-> "end", of |-> section]
Table(section, r)   == [piece |-> "table", of |-> section, kind |-> r]
Prose(words)        == [piece |-> "prose", of |-> words]
Space               == [piece |-> "blank"]
Heading(title)      == [piece |-> "heading", of |-> title]
Rule                == [piece |-> "rule"]
Dashes              == [piece |-> "dashes"]
Key(key, value)     == [piece |-> "key", of |-> key, value |-> value]

Piece ==
  [piece : {"begin", "end", "prose", "heading"}, of : Word]
    \cup [piece : {"table"}, of : Word, kind : Word]
    \cup [piece : {"key"}, of : Word, value : Word]
    \cup [piece : {"blank", "rule", "dashes"}]

Page == Seq(Piece)

Begins(body) == {k \in DOMAIN body : body[k].piece = "begin"}

(* The rest of a page after the first marker that closes a section, or all  *)
(* of it when none does.                                                    *)
PastEnd(rest, section) ==
  LET ends == {k \in DOMAIN rest : rest[k] = End(section)} IN
  IF ends = {} THEN rest ELSE SubSeq(rest, Min(ends) + 1, Len(rest))

(* SplitSegments keeps the prose that is not blank, and the names of the    *)
(* sections; what sits in a region is dropped.                              *)
Segments(prose) ==
  IF \A k \in DOMAIN prose : prose[k] = Space THEN <<>> ELSE << [markdown |-> prose] >>

SplitSegments(body) ==
  LET split[b \in Page] ==
        IF Begins(b) = {} THEN Segments(b)
        ELSE LET k       == Min(Begins(b))
                 section == b[k].of
             IN  Segments(SubSeq(b, 1, k - 1)) \o << [section |-> section] >>
                   \o split[PastEnd(SubSeq(b, k + 1, Len(b)), section)]
  IN  split[body]

(* Wrong: a section nobody closed is left open. *)
RegionLeftOpen(rest, section, r) ==
  <<Begin(section), Table(section, r)>> \o (IF End(section) \in Range(rest) THEN <<End(section)>> ELSE <<>>)

Region(rest, section, r) == <<Begin(section), Table(section, r), End(section)>>

(* inject writes the regions of a page anew, and closes one left open.      *)
Inject(body, r) ==
  LET inject[b \in Page] ==
        IF Begins(b) = {} THEN b
        ELSE LET k       == Min(Begins(b))
                 section == b[k].of
                 rest    == SubSeq(b, k + 1, Len(b))
             IN  SubSeq(b, 1, k - 1) \o Region(rest, section, r) \o inject[PastEnd(rest, section)]
  IN  inject[body]

-----------------------------------------------------------------------------
(* The page a kind without one starts from. *)
Block(section) == <<Prose(section), Begin(section), End(section)>>

Scaffold(r) ==
  << Rule, Key("subcategory", "Resources"), Rule, Space, Heading(r), Space >>
    \o Block("spec") \o Block("status") \o Block("columns")

PageContent(files, r, slug) ==
  Inject(IF slug \in DOMAIN files THEN files[slug] ELSE Scaffold(r), r)

(* One kind's page is written when it differs from what it should be.       *)
Write(files, r, slug) ==
  [f \in DOMAIN files \cup {slug} |-> IF f = slug THEN PageContent(files, r, slug) ELSE files[f]]

(* Generate writes the pages of the kinds in order, and stops at the first  *)
(* that fails, fails being its place or 0.                                  *)
Reached(kinds, fails) == IF fails = 0 THEN Len(kinds) ELSE fails - 1

Generate(files, kinds, slugOf, fails) ==
  LET after[n \in 0..Reached(kinds, fails)] ==
        IF n = 0 THEN files ELSE Write(after[n - 1], kinds[n], slugOf[kinds[n]])
  IN  after[Reached(kinds, fails)]

(* Check reports a page that is missing or would be written differently.    *)
Stale(files, r, slug) == slug \notin DOMAIN files \/ files[slug] # PageContent(files, r, slug)

-----------------------------------------------------------------------------
(* Reading a page.                                                          *)

TrimLeft(body) ==
  LET told == {k \in DOMAIN body : body[k] # Space} IN
  IF told = {} THEN <<>> ELSE SubSeq(body, Min(told), Len(body))

(* The front matter is closed by the next line but one, or a later one,     *)
(* that begins with ---.                                                    *)
Closing(raw) == {k \in DOMAIN raw : k > 2 /\ raw[k].piece \in {"rule", "dashes"}}

(* YAML: keys that differ; a # begins a comment, and a first line of ---    *)
(* a document.                                                              *)
IsYAML(head) ==
  /\ \A k \in DOMAIN head : head[k].piece \in {"key", "blank", "heading"} \/ (k = 1 /\ head[k] = Rule)
  /\ \A j, k \in DOMAIN head : head[j].piece = "key" /\ head[k].piece = "key" /\ head[j].of = head[k].of => j = k

NoKeys == [key \in {} |-> ""]

KeysOf(head) ==
  LET keys == {head[k] : k \in {l \in DOMAIN head : head[l].piece = "key"}} IN
  [key \in {m.of : m \in keys} |-> (CHOOSE m \in keys : m.of = key).value]

(* splitFrontMatter: a page that does not begin with --- or closes nothing  *)
(* has none; one whose front matter is not YAML is an error.                *)
SplitFrontMatter(raw) ==
  IF Closing(raw) = {} \/ Head(raw) # Rule THEN [error |-> FALSE, body |-> raw, keys |-> NoKeys]
  ELSE LET end  == Min(Closing(raw))
           head == SubSeq(raw, 2, end - 1)
       IN  IF IsYAML(head)
           THEN [error |-> FALSE, body |-> TrimLeft(SubSeq(raw, end + 1, Len(raw))), keys |-> KeysOf(head)]
           ELSE [error |-> TRUE, body |-> raw, keys |-> NoKeys]

(* splitTitle lifts a leading heading off a page. *)
SplitTitle(body) ==
  LET trimmed == TrimLeft(body) IN
  IF trimmed # <<>> /\ Head(trimmed).piece = "heading"
  THEN [title |-> Head(trimmed).of, body |-> TrimLeft(Tail(trimmed))]
  ELSE [title |-> "", body |-> body]

(* The value of a key of the front matter, or what stands in for it. *)
KeyOr(keys, key, default) ==
  IF key \in DOMAIN keys /\ keys[key] # "" THEN keys[key] ELSE default

ReadPage(raw) ==
  LET split  == SplitFrontMatter(raw)
      titled == SplitTitle(split.body)
  IN  [error |-> split.error, body |-> titled.body, keys |-> split.keys,
       title |-> KeyOr(split.keys, "title", titled.title)]

-----------------------------------------------------------------------------
(* Refreshing a page changes nothing a reader sees but the tables: it has   *)
(* the same front matter, title and prose around the same sections          *)
(* (sections.go:82, generate.go:67), even where a region is left open,      *)
(* closed twice or overlaps another.                                        *)
ReadsTheSame(body, r) ==
  LET before == ReadPage(body)
      after  == ReadPage(Inject(body, r))
  IN  ~before.error =>
        /\ ~after.error
        /\ <<after.keys, after.title>> = <<before.keys, before.title>>
        /\ SplitSegments(after.body) = SplitSegments(before.body)

(* What Generate wrote Check finds in date, and so `docs generate' settles: *)
(* as far as it got, a page is stale only when a later kind of the same     *)
(* singular wrote its own tables over it; a page it did not reach is as it  *)
(* was.                                                                     *)
Settles(files, kinds, slugOf, fails) ==
  LET after == Generate(files, kinds, slugOf, fails)
      done  == Reached(kinds, fails)
  IN  /\ \A k \in 1..done :
           (\A l \in (k + 1)..done : slugOf[kinds[l]] # slugOf[kinds[k]]) => ~Stale(after, kinds[k], slugOf[kinds[k]])
      /\ \A f \in DOMAIN files : (\A k \in 1..done : slugOf[kinds[k]] # f) => after[f] = files[f]
=============================================================================
