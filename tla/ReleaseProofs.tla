---------------------------- MODULE ReleaseProofs ----------------------------
(***************************************************************************)
(* What versions say about trees: theorems about Versioneer that depend on *)
(* the style and on what the tags are called.                              *)
(***************************************************************************)
EXTENDS VersioneerSafetyProofs

\* The text of a tag reads as that of no other tag.
LEMMA TextsDiffer ==
  ASSUME NEW t \in Prefixed, NEW u \in Prefixed, Text(Stripped[t]) = Text(Stripped[u])
  PROVE  t = u
<1>1. /\ \A a, b \in Prefixed : Stripped[a] = Stripped[b] => a = b
      /\ \A a, b \in DOMAIN Suffixed : Suffixed[a] = Suffixed[b] => a = b
      /\ \A a \in DOMAIN Suffixed : Suffixed[a].form # "plain"
  BY LookupAssumption DEF LookupAssumption
<1>2. PICK m, n : m = Stripped[t] /\ n = Stripped[u]
  OBVIOUS
<1>3. Plain(m).form = "plain" /\ Plain(n).form = "plain" /\ Plain(m).base = m /\ Plain(n).base = n
  BY DEF Plain
<1>4. CASE m \in DOMAIN Suffixed
  BY <1>1, <1>2, <1>3, <1>4 DEF Text
<1>5. CASE m \notin DOMAIN Suffixed
  BY <1>1, <1>2, <1>3, <1>5 DEF Text
<1> QED
  BY <1>4, <1>5

\* The form of a style is a style's.
LEMMA FormType ==
  ASSUME NEW style \in Styles
  PROVE  Form(style) \in Styles /\ Form(style) # "plain"
  BY DEF Form, Styles

\* The text of a tag that is not ambiguous does not end like a suffix of the style.
LEMMA TextForm ==
  ASSUME NEW style \in Styles, NEW t \in (Tags \cap Prefixed) \ Ambiguous(style)
  PROVE  Text(Stripped[t]).form # Form(style)
<1>1. CASE Stripped[t] \in DOMAIN Suffixed
  BY <1>1 DEF Ambiguous, Text
<1>2. CASE Stripped[t] \notin DOMAIN Suffixed
  BY <1>2, FormType DEF Text, Plain
<1> QED
  BY <1>1, <1>2

\* NAME-dirty has the form of git-describe, whatever the name.
LEMMA TextDirtyForm ==
  ASSUME NEW name
  PROVE  TextDirty(name).form = "git-describe"
<1>1. CASE Text(name).form = "git-describe" /\ ~Text(name).mark
  <2>1. TextDirty(name) = [Text(name) EXCEPT !.mark = TRUE]
    BY <1>1 DEF TextDirty
  <2> QED
    BY <1>1, <2>1
<1>2. CASE ~(Text(name).form = "git-describe" /\ ~Text(name).mark)
  <2>1. TextDirty(name) = [Plain(name) EXCEPT !.form = "git-describe", !.mark = TRUE]
    BY <1>2 DEF TextDirty
  <2> QED
    BY <2>1 DEF Plain
<1> QED
  BY <1>1, <1>2

\* The pieces are those of the commit.
AreOf(p, c, tags, x) ==
  /\ p.short = c /\ p.long = c /\ p.dirty = x /\ p.error = "none"
  /\ \/ p.tag = NoTag /\ p.dist = c /\ Nearest(c, tags) = {}
     \/ \E t \in Nearest(c, tags) :
          /\ t \in Tags \cap Prefixed /\ tags[t] \in 1..c
          /\ p.tag = Stripped[t] /\ p.dist = c - tags[t]

\* What the pieces of a commit are (versioneer.py:1062-1117).
LEMMA PiecesOf ==
  ASSUME NEW c \in Nat \ {0}, NEW tags \in [Tags -> Nat], NEW x \in BOOLEAN
  PROVE  AreOf(PiecesAt(c, tags, x), c, tags, x)
<1> DEFINE tag == IF Nearest(c, tags) = {} THEN NoTag ELSE CHOOSE t \in Nearest(c, tags) : TRUE
           d == Describe(c, tags, x)
<1>1. d = [tag |-> tag, dist |-> IF tag = NoTag THEN 0 ELSE c - tags[tag], short |-> c,
           dirty |-> x]
  BY DEF Describe
<1>2. \A t \in Nearest(c, tags) : t \in Tags \cap Prefixed /\ tags[t] \in 1..c
  BY DEF Nearest
<1>3. NoTag \notin Prefixed
  BY LookupAssumption DEF LookupAssumption
<1>4. PiecesAt(c, tags, x) = Pieces(d, c, c)
  BY DEF PiecesAt
<1>5. CASE Nearest(c, tags) = {}
  <2>1. d.tag = NoTag /\ d.short = c /\ d.dirty = x
    BY <1>1, <1>5
  <2> HIDE DEF d
  <2> QED
    BY <1>3, <1>4, <1>5, <2>1 DEF Pieces, AreOf
<1>6. CASE Nearest(c, tags) # {}
  <2>1. tag \in Nearest(c, tags)
    BY <1>6
  <2>2. tag \in Prefixed /\ tag # NoTag
    BY <1>2, <1>3, <2>1
  <2>3. d.tag = tag /\ d.dist = c - tags[tag] /\ d.short = c /\ d.dirty = x
    BY <1>1, <2>2
  <2> HIDE DEF d, tag
  <2> QED
    BY <1>2, <1>4, <2>1, <2>2, <2>3 DEF Pieces, AreOf
<1> QED
  BY <1>5, <1>6

\* The tag and the distance of the pieces of a commit are those of the commit.
Tells(p, c, tags, x) ==
  /\ p.short = c /\ p.dirty = x /\ p.error = "none" /\ p.dist \in Nat
  /\ \/ ~HasTag(p) /\ p.dist = c
     \/ /\ HasTag(p)
        /\ \E t \in Tags \cap Prefixed :
             tags[t] # 0 /\ p.tag = Stripped[t] /\ tags[t] + p.dist = c

\* A distance and what it is counted from.
LEMMA Distances ==
  ASSUME NEW m \in Nat, NEW n \in 1..m
  PROVE  m - n \in Nat /\ n # 0 /\ n + (m - n) = m
  OBVIOUS

\* A commit is at no distance from itself.
LEMMA NoDistance == \A n \in Nat \ {0} : n - n = 0
  OBVIOUS

\* No distance is the mark of a hidden one.
LEMMA HiddenIsNone == Hidden \notin Nat
  BY DEF Hidden

\* What the pieces say of the distance, put the other way round.
LEMMA TellsIntro ==
  ASSUME NEW c \in Nat \ {0}, NEW tags \in [Tags -> Nat], NEW x, NEW p,
         \A t \in Tags \cap Prefixed : tags[t] # 0 => Stripped[t] # "",
         p.short = c, p.dirty = x, p.error = "none",
         \/ p.tag = NoTag /\ p.dist = c
         \/ \E t \in Tags \cap Prefixed :
              tags[t] \in 1..c /\ p.tag = Stripped[t] /\ p.dist = c - tags[t]
  PROVE  Tells(p, c, tags, x)
<1>1. CASE p.tag = NoTag /\ p.dist = c
  <2>1. ~HasTag(p)
    BY <1>1 DEF HasTag
  <2>2. p.dist \in Nat
    BY <1>1
  <2> QED
    BY <1>1, <2>1, <2>2 DEF Tells
<1>2. ASSUME NEW t \in Tags \cap Prefixed,
             tags[t] \in 1..c /\ p.tag = Stripped[t] /\ p.dist = c - tags[t]
      PROVE  Tells(p, c, tags, x)
  <2>1. c - tags[t] \in Nat /\ tags[t] # 0 /\ tags[t] + (c - tags[t]) = c
    BY <1>2, Distances
  <2>2. p.tag # "" /\ p.tag # NoTag
    BY <1>2, <2>1, LookupAssumption DEF LookupAssumption
  <2> QED
    BY <1>2, <2>1, <2>2 DEF Tells, HasTag
<1> QED
  BY <1>1, <1>2

\* The pieces of a commit tell the commit if no tag is the bare prefix.
LEMMA PiecesTell ==
  ASSUME NEW c \in Nat \ {0}, NEW tags \in [Tags -> Nat], NEW x \in BOOLEAN,
         \A t \in Tags \cap Prefixed : tags[t] # 0 => Stripped[t] # ""
  PROVE  Tells(PiecesAt(c, tags, x), c, tags, x)
<1>1. PICK p : p = PiecesAt(c, tags, x)
  OBVIOUS
<1>2. AreOf(p, c, tags, x)
  BY <1>1, PiecesOf
<1>3. \/ p.tag = NoTag /\ p.dist = c
      \/ \E t \in Tags \cap Prefixed :
           tags[t] \in 1..c /\ p.tag = Stripped[t] /\ p.dist = c - tags[t]
  BY <1>2 DEF AreOf
<1>4. p.short = c /\ p.dirty = x /\ p.error = "none"
  BY <1>2 DEF AreOf
<1>5. Tells(p, c, tags, x)
  BY <1>3, <1>4, TellsIntro, Zenon
<1> QED
  BY <1>1, <1>5

TellsApart(c, d, tags, x, y, style) ==
  Render(PiecesAt(c, tags, x), style).version = Render(PiecesAt(d, tags, y), style).version
    => c = d /\ (x = y \/ style = "pep440-pre")

\* No tag that was given reads like a distance, or like no tag.
TagsClear(tags, style) ==
  \A t \in Tags \cap Prefixed :
    tags[t] # 0 => Stripped[t] \notin {"", "0", "0+untagged"} /\ t \notin Ambiguous(style)

\* A release is the bare tag, whose text has not the form of the suffixes.
LEMMA TellsText ==
  ASSUME NEW c, NEW tags, NEW x, NEW p, NEW style \in Styles, TagsClear(tags, style),
         Tells(p, c, tags, x), HasTag(p)
  PROVE  /\ Text(p.tag).form # Form(style)
         /\ TextDirty(p.tag).rev = Hidden \/ style # "git-describe"
         /\ TextDirty(p.tag).base = p.tag \/ style # "git-describe"
<1>1. PICK t \in Tags \cap Prefixed : tags[t] # 0 /\ p.tag = Stripped[t]
  BY DEF Tells
<1>2. Text(p.tag).form # Form(style)
  BY <1>1, TextForm DEF TagsClear
<1>3. CASE style = "git-describe"
  <2>1. Text(p.tag).form # "git-describe"
    BY <1>2, <1>3 DEF Form
  <2>2. TextDirty(p.tag) = [Plain(p.tag) EXCEPT !.form = "git-describe", !.mark = TRUE]
    BY <2>1 DEF TextDirty
  <2> QED
    BY <1>2, <2>2 DEF Plain
<1> QED
  BY <1>2, <1>3

\* A version tells which commit it was rendered from, in every style.
LEMMA RenderTells ==
  ASSUME NEW c \in Nat \ {0}, NEW d \in Nat \ {0}, NEW tags \in [Tags -> Nat],
         NEW x \in BOOLEAN, NEW y \in BOOLEAN, NEW style \in Styles,
         TagsClear(tags, style)
  PROVE  TellsApart(c, d, tags, x, y, style)
<1> SUFFICES ASSUME Render(PiecesAt(c, tags, x), style).version
                      = Render(PiecesAt(d, tags, y), style).version
             PROVE  c = d /\ (x = y \/ style = "pep440-pre")
  BY DEF TellsApart
<1> DEFINE p == PiecesAt(c, tags, x)
           q == PiecesAt(d, tags, y)
<1>a. Tells(p, c, tags, x) /\ Tells(q, d, tags, y)
  BY PiecesTell DEF TagsClear
<1>v. Render(p, style).version = Render(q, style).version
  OBVIOUS
<1> HIDE DEF p, q
<1>p. /\ p.short = c /\ p.dirty = x /\ p.error = "none" /\ p.dist \in Nat
      /\ ~HasTag(p) => p.dist = c
  BY <1>a DEF Tells
<1>q. /\ q.short = d /\ q.dirty = y /\ q.error = "none" /\ q.dist \in Nat
      /\ ~HasTag(q) => q.dist = d
  BY <1>a DEF Tells
<1>n. Hidden \notin Nat /\ c \in Nat /\ d \in Nat
  BY HiddenIsNone
\* The texts of tags have not the form of the style.
<1>x. /\ HasTag(p) => Text(p.tag).form # Form(style)
      /\ HasTag(q) => Text(q.tag).form # Form(style)
  BY <1>a, TellsText
\* Two tagged ones with the same tag and the same distance are one commit.
<1>t. HasTag(p) /\ HasTag(q) /\ p.tag = q.tag /\ p.dist = q.dist => c = d
  BY <1>a, LookupAssumption DEF Tells, LookupAssumption
\* So are two at their tags, if these have the same text.
<1>r. HasTag(p) /\ HasTag(q) /\ Text(p.tag) = Text(q.tag) /\ p.dist = q.dist => c = d
  <2> SUFFICES ASSUME HasTag(p), HasTag(q), Text(p.tag) = Text(q.tag), p.dist = q.dist
               PROVE  c = d
    OBVIOUS
  <2>1. PICK t \in Tags \cap Prefixed : p.tag = Stripped[t]
    BY <1>a DEF Tells
  <2>2. PICK u \in Tags \cap Prefixed : q.tag = Stripped[u]
    BY <1>a DEF Tells
  <2>3. t = u
    BY <2>1, <2>2, TextsDiffer
  <2> QED
    BY <1>t, <2>1, <2>2, <2>3
\* So are any two with the same base and the same distance.
<1>b. ASSUME NEW default \in {"0", "0+untagged"},
             Base(p, default) = Base(q, default), p.dist = q.dist
      PROVE  c = d
  <2>1. HasTag(p) => p.tag \notin {"0", "0+untagged"}
    BY <1>a DEF Tells, TagsClear
  <2>2. HasTag(q) => q.tag \notin {"0", "0+untagged"}
    BY <1>a DEF Tells, TagsClear
  <2>3. HasTag(p) <=> HasTag(q)
    BY <1>b, <2>1, <2>2 DEF Base
  <2> QED
    BY <1>b, <1>p, <1>q, <1>t, <2>3 DEF Base
<1>1. CASE style = "pep440"
  <2>1. RenderPep440(p) = RenderPep440(q) /\ Form(style) = "pep440"
    BY <1>1, <1>v, <1>p, <1>q DEF Render, Form
  <2>2. /\ IsTagged(p) => RenderPep440(p) = Text(p.tag)
        /\ IsTagged(q) => RenderPep440(q) = Text(q.tag)
    BY DEF RenderPep440
  <2>3. /\ ~IsTagged(p) => RenderPep440(p).form = "pep440"
        /\ ~IsTagged(q) => RenderPep440(q).form = "pep440"
    BY DEF RenderPep440
  <2>4. IsTagged(p) <=> IsTagged(q)
    BY <2>1, <2>2, <2>3, <1>x DEF IsTagged
  <2>5. CASE IsTagged(p)
    BY <2>1, <2>2, <2>4, <2>5, <1>r, <1>p, <1>q DEF IsTagged
  <2>6. CASE ~IsTagged(p)
    BY <2>1, <2>4, <2>6, <1>p, <1>q DEF RenderPep440
  <2> QED
    BY <2>5, <2>6
<1>2. CASE style = "pep440-pre"
  <2>1. RenderPep440Pre(p) = RenderPep440Pre(q) /\ Form(style) = "pep440-pre"
    BY <1>2, <1>v, <1>p, <1>q DEF Render, Form
  <2>2. /\ (HasTag(p) /\ p.dist = 0) => RenderPep440Pre(p) = Text(p.tag)
        /\ (HasTag(q) /\ q.dist = 0) => RenderPep440Pre(q) = Text(q.tag)
    BY DEF RenderPep440Pre
  <2>3. /\ ~(HasTag(p) /\ p.dist = 0) => RenderPep440Pre(p).form = "pep440-pre"
        /\ ~(HasTag(q) /\ q.dist = 0) => RenderPep440Pre(q).form = "pep440-pre"
    BY DEF RenderPep440Pre
  <2>4. (HasTag(p) /\ p.dist = 0) <=> (HasTag(q) /\ q.dist = 0)
    BY <2>1, <2>2, <2>3, <1>x DEF IsTagged
  <2>5. CASE (HasTag(p) /\ p.dist = 0)
    BY <2>1, <2>2, <2>4, <2>5, <1>r, <1>p, <1>q, <1>2 DEF IsTagged
  <2>6. CASE ~(HasTag(p) /\ p.dist = 0)
    BY <2>1, <2>4, <2>6, <1>b, <1>2 DEF RenderPep440Pre
  <2> QED
    BY <2>5, <2>6
<1>3. CASE style = "pep440-post"
  <2>1. RenderPep440Post(p) = RenderPep440Post(q) /\ Form(style) = "pep440-post"
    BY <1>3, <1>v, <1>p, <1>q DEF Render, Form
  <2>2. /\ IsTagged(p) => RenderPep440Post(p) = Text(p.tag)
        /\ IsTagged(q) => RenderPep440Post(q) = Text(q.tag)
    BY DEF RenderPep440Post
  <2>3. /\ ~IsTagged(p) => RenderPep440Post(p).form = "pep440-post"
        /\ ~IsTagged(q) => RenderPep440Post(q).form = "pep440-post"
    BY DEF RenderPep440Post
  <2>4. IsTagged(p) <=> IsTagged(q)
    BY <2>1, <2>2, <2>3, <1>x DEF IsTagged
  <2>5. CASE IsTagged(p)
    BY <2>1, <2>2, <2>4, <2>5, <1>r, <1>p, <1>q DEF IsTagged
  <2>6. CASE ~IsTagged(p)
    BY <2>1, <2>4, <2>6, <1>p, <1>q DEF RenderPep440Post
  <2> QED
    BY <2>5, <2>6
<1>4. CASE style = "pep440-old"
  <2>1. RenderPep440Old(p) = RenderPep440Old(q) /\ Form(style) = "pep440-old"
    BY <1>4, <1>v, <1>p, <1>q DEF Render, Form
  <2>2. /\ IsTagged(p) => RenderPep440Old(p) = Text(p.tag)
        /\ IsTagged(q) => RenderPep440Old(q) = Text(q.tag)
    BY DEF RenderPep440Old
  <2>3. /\ ~IsTagged(p) => RenderPep440Old(p).form = "pep440-old"
        /\ ~IsTagged(q) => RenderPep440Old(q).form = "pep440-old"
    BY DEF RenderPep440Old
  <2>4. IsTagged(p) <=> IsTagged(q)
    BY <2>1, <2>2, <2>3, <1>x DEF IsTagged
  <2>5. CASE IsTagged(p)
    BY <2>1, <2>2, <2>4, <2>5, <1>r, <1>p, <1>q DEF IsTagged
  <2>6. CASE ~IsTagged(p)
    BY <2>1, <2>4, <2>6, <1>b, <1>p, <1>q DEF RenderPep440Old
  <2> QED
    BY <2>5, <2>6
<1>5. CASE style = "git-describe"
  <2> DEFINE at(o) == HasTag(o) /\ o.dist = 0
             w(o) == RenderGitDescribe(o)
  <2>1. w(p) = w(q) /\ Form(style) = "git-describe"
    BY <1>5, <1>v, <1>p, <1>q DEF Render, Form
  <2>2. /\ at(p) => w(p) = IF p.dirty THEN TextDirty(p.tag) ELSE Text(p.tag)
        /\ at(q) => w(q) = IF q.dirty THEN TextDirty(q.tag) ELSE Text(q.tag)
    BY DEF RenderGitDescribe
  <2>3. /\ ~at(p) => w(p).form = "git-describe" /\ w(p).rev = p.short /\ w(p).mark = p.dirty
        /\ ~at(q) => w(q).form = "git-describe" /\ w(q).rev = q.short /\ w(q).mark = q.dirty
    BY DEF RenderGitDescribe
  <2>4. /\ at(p) => TextDirty(p.tag).rev = Hidden /\ TextDirty(p.tag).base = p.tag
        /\ at(q) => TextDirty(q.tag).rev = Hidden /\ TextDirty(q.tag).base = q.tag
    BY <1>5, <1>a, TellsText
  <2>5. /\ TextDirty(p.tag).form = "git-describe"
        /\ TextDirty(q.tag).form = "git-describe"
    BY TextDirtyForm
  <2>6. /\ at(p) /\ ~p.dirty => w(p).form # "git-describe"
        /\ at(q) /\ ~q.dirty => w(q).form # "git-describe"
    BY <2>1, <2>2, <1>x
  <2> HIDE DEF w
  <2>7. at(p) <=> at(q)
    BY <2>1, <2>2, <2>3, <2>4, <2>5, <2>6, <1>n, <1>p, <1>q
  <2>8. CASE at(p)
    <3>1. p.dirty = q.dirty
      BY <2>1, <2>2, <2>5, <2>6, <2>7, <2>8, <1>p, <1>q
    <3>2. CASE p.dirty
      BY <2>1, <2>2, <2>4, <2>7, <2>8, <3>1, <3>2, <1>t, <1>p, <1>q
    <3>3. CASE ~p.dirty
      BY <2>1, <2>2, <2>7, <2>8, <3>1, <3>3, <1>r, <1>p, <1>q
    <3> QED
      BY <3>2, <3>3
  <2>9. CASE ~at(p)
    BY <2>1, <2>3, <2>7, <2>9, <1>p, <1>q
  <2> QED
    BY <2>8, <2>9
<1>6. CASE style = "git-describe-long"
  <2>1. RenderGitDescribeLong(p) = RenderGitDescribeLong(q)
    BY <1>6, <1>v, <1>p, <1>q DEF Render
  <2> QED
    BY <2>1, <1>p, <1>q DEF RenderGitDescribeLong
<1> QED
  BY <1>1, <1>2, <1>3, <1>4, <1>5, <1>6 DEF Styles

\* Commits are numbered from one.
LEMMA HistoryTypes ==
  ASSUME TypeOK
  PROVE  tagged \in [Tags -> Nat] /\ DOMAIN commits \subseteq Nat \ {0}
<1>1. commits \in Seq(Files) /\ tagged \in [Tags -> 0..Len(commits)]
  BY DEF TypeOK
<1>2. Len(commits) \in Nat /\ DOMAIN commits = 1..Len(commits)
  BY <1>1
<1> QED
  BY <1>1, <1>2

\* Two states of the checkout with the same version are the same commit, and
\* both or neither have local changes, in every style but pep440-pre, for all
\* tags but those that are called like no tag or like a distance from another
\* (versioneer.py:1248-1354).
THEOREM VersionsDiffer == Spec => []VersionsTellTreesApart
<1>1. ASSUME TypeOK PROVE VersionsTellTreesApart
  <2> SUFFICES ASSUME NEW style \in Styles, TagsClear(tagged, style),
                      NEW c \in DOMAIN commits, NEW d \in DOMAIN commits,
                      NEW x \in BOOLEAN, NEW y \in BOOLEAN
               PROVE  TellsApart(c, d, tagged, x, y, style)
    BY DEF VersionsTellTreesApart, TellsApart, TagsClear
  <2>1. c \in Nat \ {0} /\ d \in Nat \ {0} /\ tagged \in [Tags -> Nat]
    BY <1>1, HistoryTypes
  <2> QED
    BY <2>1, RenderTells
<1> QED
  BY <1>1, VersionTypesCorrect, PTL

-----------------------------------------------------------------------------
(* Archives *)

\* The styles that write a tagged commit without changes as the bare tag.
LEMMA TagRenders ==
  ASSUME NEW p, NEW style \in Styles \ {"git-describe-long"},
         p.error = "none", p.dist = 0, p.dirty = FALSE, HasTag(p)
  PROVE  Render(p, style) = [version |-> Text(p.tag), full |-> p.long,
                             dirty |-> "False", error |-> "none"]
<1>1. /\ RenderPep440(p) = Text(p.tag) /\ RenderPep440Post(p) = Text(p.tag)
      /\ RenderPep440Old(p) = Text(p.tag)
  BY DEF RenderPep440, RenderPep440Post, RenderPep440Old, IsTagged
<1>2. RenderPep440Pre(p) = Text(p.tag)
  BY DEF RenderPep440Pre
<1>3. RenderGitDescribe(p) = Text(p.tag)
  BY DEF RenderGitDescribe
<1>4. Render(p, style).version = Text(p.tag)
  BY <1>1, <1>2, <1>3 DEF Render, Styles
<1>5. Render(p, style) = [version |-> Render(p, style).version, full |-> p.long,
                          dirty |-> "False", error |-> "none"]
  BY DEF Render
<1> QED
  BY <1>4, <1>5

\* Of the matching tags of a commit the preferred one is the nearest.
LEMMA NearestHere ==
  ASSUME NEW c \in Nat \ {0}, tagged \in [Tags -> Nat], NEW t \in Here(c),
         \A u \in Here(c) : Preference[u] <= Preference[t]
  PROVE  Nearest(c, tagged) = {t} /\ tagged[t] = c
<1> DEFINE matching == {u \in Prefixed \cap DOMAIN tagged : tagged[u] \in 1..c}
<1>1. t \in Tags \cap Prefixed /\ tagged[t] = c
  BY DEF Here
<1>2. t \in matching /\ \A u \in matching : u \in Tags \cap Prefixed /\ tagged[u] \in 1..c
  BY <1>1
<1>3. \A u \in matching : tagged[u] \in Nat /\ (tagged[u] < c \/ u \in Here(c))
  BY <1>2 DEF Here
<1>4. Prefixed \subseteq Ref /\ Preference \in [Ref -> Nat]
  BY LookupAssumption DEF LookupAssumption
<1>5. \A r, u \in Ref : Preference[r] = Preference[u] => r = u
  BY LookupAssumption DEF LookupAssumption
<1>6. \A u \in matching : tagged[u] < tagged[t] \/ (tagged[u] = tagged[t] /\ Preference[u] <= Preference[t])
  BY <1>1, <1>3 DEF Here
<1>7. ASSUME NEW u \in matching, u # t
      PROVE  ~(tagged[t] < tagged[u] \/ (tagged[t] = tagged[u] /\ Preference[t] <= Preference[u]))
  <2>1. Preference[u] # Preference[t] /\ Preference[u] \in Nat /\ Preference[t] \in Nat
    BY <1>1, <1>2, <1>4, <1>5, <1>7
  <2> QED
    BY <1>1, <1>3, <1>6, <2>1
<1> QED
  BY <1>1, <1>2, <1>6, <1>7 DEF Nearest

\* Of the likely tags with the prefix the first is the version of the keywords.
LEMMA KeywordsOf ==
  ASSUME NEW refs, NEW full, NEW t \in LikelyTags(refs) \cap Prefixed,
         \A u \in LikelyTags(refs) \cap Prefixed : Rank[t] <= Rank[u]
  PROVE  FromKeywords(Expanded(refs, full)) =
           {[version |-> Text(Stripped[t]), full |-> full, dirty |-> "False", error |-> "none"]}
<1> DEFINE f == Expanded(refs, full)
           good == LikelyTags(f.refs) \cap Prefixed
           tag(r) == [version |-> Text(Stripped[r]), full |-> f.full,
                      dirty |-> "False", error |-> "none"]
<1>1. /\ Prefixed \subseteq Ref /\ Rank \in [Ref -> Nat]
      /\ \A r, u \in Ref : Rank[r] = Rank[u] => r = u
  BY LookupAssumption DEF LookupAssumption
<1>2. f.kind = "expanded" /\ f.refs = refs /\ f.full = full
  BY DEF Expanded
<1>3. good = LikelyTags(refs) \cap Prefixed /\ t \in good
  BY <1>2
<1> HIDE DEF f
<1>4. \A s \in good : Rank[t] <= Rank[s] /\ (s # t => ~(Rank[s] <= Rank[t]))
  <2> TAKE s \in good
  <2>1. Rank[t] <= Rank[s] /\ Rank[t] \in Nat /\ Rank[s] \in Nat
    BY <1>1, <1>3
  <2>2. s # t => Rank[s] # Rank[t]
    BY <1>1, <1>3
  <2> QED
    BY <2>1, <2>2
<1>5. {s \in good : \A o \in good : Rank[s] <= Rank[o]} = {t}
  BY <1>3, <1>4
<1>6. {tag(r) : r \in {s \in good : \A o \in good : Rank[s] <= Rank[o]}} = {tag(t)}
  BY <1>5
<1>7. FromKeywords(f) = {tag(t)}
  BY <1>2, <1>6 DEF FromKeywords, HasKeywords, OrElse
<1> QED
  BY <1>2, <1>7 DEF f

\* The names that git archive writes into the file at a commit.
RefsAt(c, marks) ==
  {[name |-> t, tag |-> marks] : t \in {u \in Tags : tagged[u] = c}}
    \union {[name |-> Branch, tag |-> FALSE] : b \in {Len(commits)} \cap {c}}

\* The likely tags of a commit are the likely names, if the branch is not one.
LEMMA LikelyHere ==
  ASSUME NEW c, NEW marks \in BOOLEAN, Likely(c, marks) # {},
         ~Rival(c, marks)
  PROVE  LikelyTags(RefsAt(c, marks)) \cap Prefixed = Likely(c, marks)
<1> DEFINE refs == RefsAt(c, marks)
           here == {u \in Tags : tagged[u] = c}
<1>1. /\ \A u \in here : [name |-> u, tag |-> marks] \in refs
      /\ \A r \in refs : \/ r.tag = FALSE /\ r.name = Branch /\ c = Len(commits)
                         \/ r.tag = marks /\ r.name \in here
  BY DEF RefsAt
<1>2. here \cap Prefixed = Here(c)
  BY DEF Here
<1>r. \A u \in here : \E r \in refs : r.name = u /\ r.tag = marks
  BY <1>1
<1> HIDE DEF refs, here
<1>4. CASE marks = TRUE
  <2>0. here # {}
    BY <1>2, <1>4 DEF Likely
  <2>1. \E r \in refs : r.tag
    BY <2>0, <1>4, <1>r
  <2>2. {r.name : r \in {s \in refs : s.tag}} = here
    BY <1>1, <1>4, <1>r
  <2> QED
    BY <1>2, <1>4, <2>1, <2>2 DEF LikelyTags, Likely, refs
<1>5. CASE marks = FALSE
  <2>1. ~\E r \in refs : r.tag
    BY <1>1, <1>5
  <2>2. here \subseteq {r.name : r \in refs}
    BY <1>5, <1>r
  <2>3. {r.name : r \in refs} \cap (Digits \cap Prefixed) \subseteq here
    BY <1>1, <1>5 DEF Rival
  <2>4. LikelyTags(refs) = {r.name : r \in refs} \cap Digits
    BY <2>1 DEF LikelyTags
  <2> QED
    BY <1>2, <1>5, <2>2, <2>3, <2>4 DEF Likely, refs
<1> QED
  BY <1>4, <1>5

\* An archive of a commit that marks _version.py for export-subst has the version
\* of the first of the commit's likely tags, and that of a clean checkout if
\* git-describe prefers this tag too (versioneer.py:963-1017), whatever other tags
\* and branches are there; if no tag is the bare prefix, and unless the style
\* writes a release with the distance 0.
THEOREM ArchiveHasTheTag ==
  ASSUME \A t \in Prefixed : Stripped[t] # "",
         Style # "git-describe-long"
  PROVE  Spec => []ArchiveKnowsItsTag
<1>1. ASSUME TypeOK PROVE ArchiveKnowsItsTag
  <2> SUFFICES ASSUME NEW c \in DOMAIN commits, NEW marks \in BOOLEAN,
                      commits[c].attr = "marked", commits[c].vf = Long, ~Rival(c, marks),
                      NEW t \in Likely(c, marks),
                      \A u \in Likely(c, marks) : Rank[t] <= Rank[u]
               PROVE  Says(Archive(c, marks), t, c)
    BY DEF ArchiveKnowsItsTag
  <2> DEFINE none == [git |-> {}, dirs |-> <<>>, file |-> TRUE]
  <2> DEFINE answer == [version |-> Text(Stripped[t]), full |-> c,
                        dirty |-> "False", error |-> "none"]
  <2>1. c \in Nat \ {0} /\ tagged \in [Tags -> Nat]
    BY <1>1, HistoryTypes
  <2>2. PICK refs, file : refs = RefsAt(c, marks) /\ file = Expanded(refs, c)
    OBVIOUS
  <2>3. Archive(c, marks) = file
    BY <2>2 DEF Archive, RefsAt
  <2>h. t \in Here(c) /\ t \in Tags \cap Prefixed
    BY DEF Likely, Here
  <2>4. LikelyTags(refs) \cap Prefixed = Likely(c, marks)
    BY <2>2, LikelyHere
  <2>5. FromKeywords(file) = {answer}
    BY <2>2, <2>4, KeywordsOf
  <2>k. file.kind = "expanded"
    BY <2>2 DEF Expanded
  <2>r. SetupVersions(file, none) = {answer} /\ RuntimeVersions(file, none) = {answer}
    BY <2>5, <2>k DEF SetupVersions, RuntimeVersions, OrElse
  <2>6. ASSUME \A u \in Here(c) : Preference[u] <= Preference[t]
        PROVE  answer = Render(PiecesAt(c, tagged, FALSE), Style)
    <3>1. PICK p : p = PiecesAt(c, tagged, FALSE)
      OBVIOUS
    <3>2. AreOf(p, c, tagged, FALSE)
      BY <2>1, <3>1, PiecesOf
    <3>3. Nearest(c, tagged) = {t} /\ tagged[t] = c
      BY <2>1, <2>6, <2>h, NearestHere
    <3>4. p.tag = Stripped[t] /\ p.dist = c - c /\ p.long = c /\ p.dirty = FALSE /\ p.error = "none"
      BY <3>2, <3>3 DEF AreOf
    <3>5. p.dist = 0
      BY <2>1, <3>4, NoDistance
    <3>6. HasTag(p)
      BY <2>h, <3>4, LookupAssumption DEF LookupAssumption, HasTag
    <3>7. Style \in Styles \ {"git-describe-long"}
      BY LookupAssumption DEF LookupAssumption
    <3>8. Render(p, Style) = [version |-> Text(p.tag), full |-> p.long,
                              dirty |-> "False", error |-> "none"]
      BY <3>4, <3>5, <3>6, <3>7, TagRenders
    <3> QED
      BY <3>1, <3>4, <3>8
  <2>7. answer.version = Text(Stripped[t]) /\ answer.full = c
    OBVIOUS
  <2> HIDE DEF answer
  <2> QED
    BY <2>3, <2>r, <2>6, <2>7 DEF Says
<1> QED
  BY <1>1, VersionTypesCorrect, PTL

-----------------------------------------------------------------------------
(* Releases *)

\* A version that is the text of a tag means the files of that tag.
NamesTree(v, f, tags, history) ==
  \A t \in (Tags \cap Prefixed) \ Ambiguous(Style) :
    v.error = "none" /\ v.version = Text(Stripped[t])
      => tags[t] # 0 /\ Holds(f, history[tags[t]])

\* So does the version of a tree, unless a short file answers for it.
TellsTree(v, f, vf, tags, history) ==
  IF vf.kind = "short" THEN v = vf.versions ELSE NamesTree(v, f, tags, history)

TreeSteps == {"unlinkRel", "openRel", "writeRel", "finish"}

\* What an undisturbed sdist or build looked up is the version of the files it
\* takes and, once it took them, of what it took.
WorkInv ==
  job.cmd \in {"sdist", "build"} /\ job.quiet =>
    /\ job.at \in ReleaseSteps => TellsTree(job.ver, files, files.vf, tagged, commits)
    /\ job.at \in TreeSteps => TellsTree(job.ver, rel.files, files.vf, tagged, commits)

ReleaseInv ==
  /\ WorkInv
  /\ \A d \in dist : d.quiet => TellsTree(d.ver, d.files, d.source, tagged, commits)

\* A tag stays where it is and a commit what it is (git).
LEMMA HistoryGrows ==
  ASSUME TypeOK, [Next]_vars, NEW v, NEW f, NEW vf, TellsTree(v, f, vf, tagged, commits)
  PROVE  TellsTree(v, f, vf, tagged', commits')
<1>1. commits \in Seq(Files) /\ \A t \in Tags : tagged[t] \in 0..Len(commits)
  BY DEF TypeOK
<1>2. CASE Commit
  <2>1. tagged' = tagged /\ \E c : commits' = Append(commits, c)
    BY <1>2 DEF Commit
  <2>2. \A t \in Tags : tagged[t] # 0 => commits'[tagged[t]] = commits[tagged[t]]
    BY <1>1, <2>1
  <2> QED
    BY <2>1, <2>2 DEF TellsTree, NamesTree
<1>3. ASSUME NEW t \in Tags, Tag(t) PROVE TellsTree(v, f, vf, tagged', commits')
  <2>1. commits' = commits /\ \A u \in Tags : tagged[u] # 0 => tagged'[u] = tagged[u]
    BY <1>3 DEF Tag, TypeOK
  <2> QED
    BY <2>1 DEF TellsTree, NamesTree
<1>4. Edit \/ Configure \/ (\E c \in DOMAIN commits : Checkout(c)) => UNCHANGED <<commits, tagged>>
  BY DEF Edit, Configure, Checkout, repo
<1>5. Start \/ Lookup \/ End \/ Kill \/ Rest \/ UNCHANGED vars => UNCHANGED <<commits, tagged>>
  BY DEF Start, Lookup, Require, ReadVersionFile, GitFails, GitDescribe, GitHead, GitCount,
         GitShow, End, Kill, Abort, Rest, vars, repo
<1>6. Release \/ FreezeSteps \/ Setup => UNCHANGED <<commits, tagged>>
  BY DEF Release, PrintVersion, WriteEggInfo, MakeReleaseTree, BuildPy, UnlinkRel, OpenRel,
         WriteRel, MakeArchive, CMakeBuild, FreezeSteps, UnlinkVf, OpenVf, WriteShort, BuildExe,
         Py2exe, OpenLong, WriteLong, Setup, ReadConfig, WriteSnippet, WriteManifest,
         OpenAttributes, WriteAttributes, GitAdd, Exit, Abort, repo
<1>7. CASE UNCHANGED <<commits, tagged>>
  BY <1>7
<1> QED
  BY <1>2, <1>3, <1>4, <1>5, <1>6, <1>7 DEF Next, Developer

\* What a commit holds is not in _version.py.
LEMMA HeldApart ==
  ASSUME NEW f \in Files, NEW content, NEW g
  PROVE  Holds([f EXCEPT !.vf = content], g) <=> Holds(f, g)
  BY DEF Files, Holds

\* Nor is it of importance there which version a tree is said to have.
LEMMA TreeApart ==
  ASSUME NEW f \in Files, NEW content, NEW v, NEW vf
  PROVE  TellsTree(v, [f EXCEPT !.vf = content], vf, tagged, commits)
           <=> TellsTree(v, f, vf, tagged, commits)
  BY HeldApart DEF TellsTree, NamesTree

\* A checkout without local changes has what HEAD holds.
LEMMA CleanHolds ==
  ASSUME TypeOK, ~IsDirty
  PROVE  Holds(files, commits[head])
<1>1. Tracked = commits[head]
  BY DEF IsDirty
<1>2. PICK g : g = Tracked
  OBVIOUS
<1>3. /\ g.src = files.src /\ g.ini = files.ini /\ g.cfg = files.cfg
      /\ g.man \in {{}, files.man} /\ g.attr \in {"absent", files.attr}
  BY <1>2, TrackedType
<1> QED
  BY <1>1, <1>2, <1>3 DEF Holds

\* Only a commit that is tagged and unchanged renders as something else than a
\* distance or a change.
LEMMA BareIsTagged ==
  ASSUME NEW p, NEW style \in Styles \ {"pep440-pre"}, p.error = "none",
         p.dirty \in BOOLEAN, Render(p, style).version.form # Form(style)
  PROVE  HasTag(p) /\ p.dist = 0 /\ ~p.dirty /\ Render(p, style).version = Text(p.tag)
<1> DEFINE w == Render(p, style).version
<1>3. CASE style = "pep440"
  <2>1. w = RenderPep440(p) /\ w.form # "pep440"
    BY <1>3 DEF Render, Form
  <2>2. ~IsTagged(p) => RenderPep440(p).form = "pep440"
    BY DEF RenderPep440
  <2> QED
    BY <2>1, <2>2 DEF RenderPep440, IsTagged
<1>4. CASE style = "pep440-post"
  <2>1. w = RenderPep440Post(p) /\ w.form # "pep440-post"
    BY <1>4 DEF Render, Form
  <2>2. ~IsTagged(p) => RenderPep440Post(p).form = "pep440-post"
    BY DEF RenderPep440Post
  <2> QED
    BY <2>1, <2>2 DEF RenderPep440Post, IsTagged
<1>5. CASE style = "pep440-old"
  <2>1. w = RenderPep440Old(p) /\ w.form # "pep440-old"
    BY <1>5 DEF Render, Form
  <2>2. ~IsTagged(p) => RenderPep440Old(p).form = "pep440-old"
    BY DEF RenderPep440Old
  <2> QED
    BY <2>1, <2>2 DEF RenderPep440Old, IsTagged
<1>6. CASE style = "git-describe"
  <2>1. w = RenderGitDescribe(p) /\ w.form # "git-describe"
    BY <1>6 DEF Render, Form
  <2>2. ~(HasTag(p) /\ p.dist = 0) => RenderGitDescribe(p).form = "git-describe"
    BY DEF RenderGitDescribe
  <2>3. HasTag(p) /\ p.dist = 0 /\ p.dirty => RenderGitDescribe(p).form = "git-describe"
    BY TextDirtyForm DEF RenderGitDescribe
  <2> QED
    BY <2>1, <2>2, <2>3 DEF RenderGitDescribe
<1>7. CASE style = "git-describe-long"
  <2>1. w = RenderGitDescribeLong(p) /\ w.form # "git-describe"
    BY <1>7 DEF Render, Form
  <2>2. RenderGitDescribeLong(p).form = "git-describe"
    BY DEF RenderGitDescribeLong
  <2> QED
    BY <2>1, <2>2
<1> QED
  BY <1>3, <1>4, <1>5, <1>6, <1>7 DEF Styles

\* The version of the checkout, if it is the text of a tag, is that of its files.
LEMMA CurrentNames ==
  ASSUME TypeOK, Style # "pep440-pre"
  PROVE  NamesTree(Render(PiecesAt(head, tagged, IsDirty), Style), files, tagged, commits)
<1>1. head \in Nat \ {0} /\ tagged \in [Tags -> Nat] /\ IsDirty \in BOOLEAN
  <2>1. head \in DOMAIN commits
    BY DEF TypeOK
  <2> QED
    BY <2>1, HistoryTypes DEF IsDirty
<1>2. Style \in Styles \ {"pep440-pre"}
  BY LookupAssumption DEF LookupAssumption
<1>3. PICK p, v : p = PiecesAt(head, tagged, IsDirty) /\ v = Render(p, Style)
  OBVIOUS
<1>4. AreOf(p, head, tagged, IsDirty)
  BY <1>1, <1>3, PiecesOf
<1>5. ASSUME NEW t \in (Tags \cap Prefixed) \ Ambiguous(Style), v.version = Text(Stripped[t])
      PROVE  tagged[t] # 0 /\ Holds(files, commits[tagged[t]])
  <2>0. v.version.form # Form(Style)
    BY <1>2, <1>5, TextForm
  <2>1. HasTag(p) /\ p.dist = 0 /\ ~p.dirty /\ v.version = Text(p.tag)
    BY <1>1, <1>2, <1>3, <1>4, <2>0, BareIsTagged DEF AreOf
  <2>2. PICK u \in Tags \cap Prefixed :
          tagged[u] \in 1..head /\ p.tag = Stripped[u] /\ p.dist = head - tagged[u]
    BY <1>4, <2>1 DEF AreOf, HasTag
  <2>t. u = t
    BY <1>5, <2>1, <2>2, TextsDiffer
  <2>3. tagged[t] # 0 /\ tagged[t] + (head - tagged[t]) = head
    BY <1>1, <2>2, <2>t, Distances
  <2>4. tagged[t] = head
    BY <2>1, <2>2, <2>t, <2>3, tagged[t] + 0 = tagged[t]
  <2>5. ~IsDirty
    BY <1>4, <2>1 DEF AreOf
  <2> QED
    BY <2>3, <2>4, <2>5, CleanHolds
<1>7. NamesTree(v, files, tagged, commits)
  BY <1>5 DEF NamesTree
<1> QED
  BY <1>3, <1>7

Working(j) == j.cmd \in {"sdist", "build"} /\ j.quiet /\ j.at \in ReleaseSteps

\* The answer of an undisturbed lookup names the files it was looked up for.
LEMMA WorkAnswered ==
  ASSUME UsesCmdclass, TypeOK, PlaceInv, job.at \in LookupSteps, NEW v, job' = Answered(v),
         UNCHANGED <<files, commits, tagged>>,
         job.cmd \in {"sdist", "build"} /\ job.quiet
           => TellsTree(v, files, files.vf, tagged, commits)
  PROVE  WorkInv'
<1>1. job.cmd \in Lookers /\ job \in Job
  BY LookerAt
<1>2. job'.cmd = job.cmd /\ job'.quiet = job.quiet
  BY <1>1, AnsweredFields
<1>3. job'.at = "read" \/ (job'.at = AfterLookup(job.cmd) /\ job'.ver = v)
  BY <1>1, AnsweredFields DEF Job
<1>4. job'.at \notin TreeSteps
  BY <1>1, <1>3, AfterLookupAt DEF TreeSteps
<1>5. "read" \notin ReleaseSteps
  BY DEF ReleaseSteps, NamedSteps
<1> QED
  BY <1>2, <1>3, <1>4, <1>5 DEF WorkInv

\* What was looked up stays the version of what is being released.
LEMMA WorkStep ==
  ASSUME UsesCmdclass, Style # "pep440-pre",
         TypeOK, PlaceInv, LinkInv, NameInv, WorkInv, [Next]_vars
  PROVE  WorkInv'
<1>f. files \in Files /\ rel.files \in Files /\ job \in Job
  BY DEF TypeOK
<1>s. TreeSteps \subseteq ReleaseSteps
  BY DEF TreeSteps, ReleaseSteps, NamedSteps
<1>i. ~Working(Idle)
  BY DEF Working, Idle
<1>w. ASSUME ~Working(job') PROVE WorkInv'
  BY <1>w, <1>s DEF Working, WorkInv
<1>a. Abort => ~Working(job')
  BY <1>i DEF Abort
<1>1. ASSUME Developer PROVE WorkInv'
  <2>1. (job' = job /\ job.cmd = "none") \/ ~job'.quiet
    BY <1>1, <1>f DEF Developer, Edit, Configure, Commit, Tag, Checkout, Disturb, Job
  <2> QED
    BY <1>w, <2>1 DEF Working
<1>2. Start \/ End \/ Kill => ~Working(job')
  BY <1>a, <1>i DEF Start, End, Kill, Working, Idle, ReleaseSteps, NamedSteps
<1>3. ASSUME Require PROVE ~Working(job')
  <2>1. (\E n \in egg : job' = Named(n)) \/ Goto("read")
    BY <1>3 DEF Require
  <2>2. \A n \in egg : Named(n).at = "read"
    BY <1>f, NamedFields
  <2>3. Goto("read") => job'.at = "read"
    BY <1>f DEF Goto, Job
  <2>4. job'.at = "read"
    BY <2>1, <2>2, <2>3
  <2> QED
    BY <2>4 DEF Working, ReleaseSteps, NamedSteps
<1>4. ASSUME ReadVersionFile PROVE WorkInv'
  <2>1. files.vf \in Content /\ job.at = "read"
    BY <1>4, <1>f DEF ReadVersionFile, Files
  <2>2. CASE files.vf.kind = "short" /\ job' = Answered(files.vf.versions)
              /\ UNCHANGED <<files, repo>>
    <3>1. job.at \in LookupSteps
      BY <2>1 DEF LookupSteps
    <3>2. TellsTree(files.vf.versions, files, files.vf, tagged, commits)
      BY <2>2 DEF TellsTree
    <3> QED
      BY <2>2, <3>1, <3>2, WorkAnswered DEF repo
  <2>3. CASE Goto("describe")
    BY <1>w, <1>f, <2>3 DEF Goto, Job, Working, ReleaseSteps, NamedSteps
  <2> QED
    BY <1>4, <1>a, <1>w, <2>1, <2>2, <2>3, FoundType DEF ReadVersionFile, Answer
<1>5. ASSUME GitFails PROVE ~Working(job')
  <2>1. Answered(Unknown) \in Job
    BY <1>f, AnsweredType, ConstantTypes
  <2> QED
    BY <1>5, <1>a, <2>1 DEF GitFails, Working, Job
<1>6. ASSUME GitDescribe \/ GitHead \/ GitCount PROVE ~Working(job')
  BY <1>6, <1>f
     DEF GitDescribe, GitHead, GitCount, Job, Working, ReleaseSteps, NamedSteps
<1>7. ASSUME GitShow PROVE WorkInv'
  <2> DEFINE v == Render(Pieces(job.out, job.full, job.total), Style)
  <2>1. job.at \in LookupSteps
    BY <1>7 DEF GitShow, LookupSteps, GitSteps
  <2>2. ASSUME job.cmd \in {"sdist", "build"}, job.quiet
        PROVE  v = Render(PiecesAt(head, tagged, IsDirty), Style)
    <3>1. /\ job.out = Describe(head, tagged, IsDirty)
          /\ job.full = head
          /\ job.out.tag = NoTag => job.total = head
      BY <1>7, <2>2 DEF GitShow, NameInv, GitSteps
    <3> DEFINE d == Describe(head, tagged, IsDirty)
    <3>2. d.tag = NoTag => job.total = head
      BY <3>1
    <3> HIDE DEF d
    <3>3. Pieces(d, head, job.total) = Pieces(d, head, head)
      BY <3>2 DEF Pieces
    <3> QED
      BY <3>1, <3>3 DEF PiecesAt, d
  <2>3. job' = Answered(v) /\ UNCHANGED <<files, commits, tagged>>
    BY <1>7 DEF GitShow, Answer, repo
  <2>k. job.cmd \in {"sdist", "build"} /\ job.quiet => files.vf.kind # "short"
    BY <1>7 DEF GitShow, NameInv, GitSteps
  <2>4. job.cmd \in {"sdist", "build"} /\ job.quiet
          => TellsTree(v, files, files.vf, tagged, commits)
    BY <2>2, <2>k, CurrentNames DEF TellsTree
  <2> HIDE DEF v
  <2> QED
    BY <2>1, <2>3, <2>4, WorkAnswered
<1>8. ASSUME WriteEggInfo PROVE WorkInv'
  <2>1. /\ job'.cmd = job.cmd /\ job'.quiet = job.quiet /\ job'.ver = job.ver
        /\ job'.at = "tree" /\ job.at \in ReleaseSteps
    BY <1>8, <1>f DEF WriteEggInfo, Job, ReleaseSteps
  <2>2. UNCHANGED <<files, commits, tagged>>
    BY <1>8 DEF WriteEggInfo, repo
  <2> QED
    BY <2>1, <2>2 DEF WorkInv, TreeSteps
<1>9. ASSUME MakeReleaseTree \/ BuildPy PROVE WorkInv'
  <2>1. /\ job'.cmd = job.cmd /\ job'.quiet = job.quiet /\ job'.ver = job.ver
        /\ job.at \in ReleaseSteps
    BY <1>9, <1>f DEF MakeReleaseTree, BuildPy, Goto, Job, ReleaseSteps, NamedSteps
  <2>2. UNCHANGED <<files, commits, tagged>> /\ rel'.files = files
    BY <1>9 DEF MakeReleaseTree, BuildPy, repo
  <2> QED
    BY <2>1, <2>2 DEF WorkInv
<1>10. ASSUME NEW content, job.at \in TreeSteps, UNCHANGED <<files, commits, tagged>>,
              rel'.files = [rel.files EXCEPT !.vf = content],
              job'.cmd = job.cmd, job'.quiet = job.quiet, job'.ver = job.ver
       PROVE  WorkInv'
  <2>1. TellsTree(job.ver, rel'.files, files.vf, tagged, commits)
          <=> TellsTree(job.ver, rel.files, files.vf, tagged, commits)
    BY <1>10, <1>f, TreeApart
  <2> QED
    BY <1>10, <1>s, <2>1 DEF WorkInv
<1>11. ASSUME UnlinkRel, ~Abort PROVE WorkInv'
  <2>1. /\ job.at \in TreeSteps /\ UNCHANGED <<files, commits, tagged>>
        /\ job'.cmd = job.cmd /\ job'.quiet = job.quiet /\ job'.ver = job.ver
    BY <1>11, <1>f DEF UnlinkRel, Goto, Job, TreeSteps, repo
  <2>2. rel'.files = [rel.files EXCEPT !.vf = Absent]
    BY <1>11 DEF UnlinkRel, Unlinked, TypeOK
  <2> QED
    BY <1>10, <2>1, <2>2
<1>12. ASSUME OpenRel \/ WriteRel PROVE WorkInv'
  <2>1. /\ job.at \in TreeSteps /\ UNCHANGED <<commits, tagged>>
        /\ job'.cmd = job.cmd /\ job'.quiet = job.quiet /\ job'.ver = job.ver
    BY <1>12, <1>f DEF OpenRel, WriteRel, Goto, Job, TreeSteps, repo
  <2>2. PICK content : WriteThrough(content)
    BY <1>12 DEF OpenRel, WriteRel
  <2>3. ~rel.linked
    BY <1>12 DEF OpenRel, WriteRel, LinkInv
  <2>4. rel'.files = [rel.files EXCEPT !.vf = content] /\ files' = files
    BY <2>2, <2>3 DEF WriteThrough, TypeOK
  <2> QED
    BY <1>10, <2>1, <2>4
<1>13. PrintVersion \/ MakeArchive \/ CMakeBuild => ~Working(job')
  BY <1>f DEF PrintVersion, MakeArchive, CMakeBuild, Goto, Job, Working, ReleaseSteps, NamedSteps
<1>14. ASSUME FreezeSteps PROVE ~Working(job')
  <2>1. job.cmd \notin {"sdist", "build"}
    BY <1>14
       DEF FreezeSteps, UnlinkVf, OpenVf, WriteShort, BuildExe, Py2exe, OpenLong, WriteLong,
           PlaceInv, Placed, ShortSteps, LongSteps
  <2>2. job'.cmd = job.cmd \/ Abort
    BY <1>14, <1>f
       DEF FreezeSteps, UnlinkVf, OpenVf, WriteShort, BuildExe, Py2exe, OpenLong, WriteLong,
           Goto, Job
  <2> QED
    BY <1>a, <2>1, <2>2 DEF Working
<1>15. ASSUME Setup PROVE ~Working(job')
  <2>1. job.cmd = "setup"
    BY <1>15
       DEF Setup, ReadConfig, WriteSnippet, WriteManifest, OpenAttributes, WriteAttributes,
           GitAdd, Exit, PlaceInv, Placed, ManifestSteps, AttributeSteps, AddSteps
  <2>2. job'.cmd = job.cmd
    BY <1>15, <1>f
       DEF Setup, ReadConfig, WriteSnippet, WriteManifest, OpenAttributes, WriteAttributes,
           GitAdd, Exit, Goto, Job
  <2> QED
    BY <2>1, <2>2 DEF Working
<1>16. UNCHANGED vars => WorkInv'
  BY DEF vars, WorkInv
<1> QED
  BY <1>a, <1>w, <1>1, <1>2, <1>3, <1>4, <1>5, <1>6, <1>7, <1>8, <1>9, <1>11, <1>12, <1>13,
     <1>14, <1>15, <1>16
     DEF Next, Lookup, Release, Rest

\* A release keeps the version and the files it was finished with.
LEMMA ReleaseStep ==
  ASSUME UsesCmdclass, Style # "pep440-pre",
         TypeOK, PlaceInv, LinkInv, NameInv, ReleaseInv, [Next]_vars
  PROVE  ReleaseInv'
<1>1. WorkInv'
  BY WorkStep DEF ReleaseInv
<1>2. ASSUME NEW d \in dist', d.quiet
      PROVE  TellsTree(d.ver, d.files, d.source, tagged', commits')
  <2>1. CASE d \in dist
    BY <1>2, <2>1, HistoryGrows DEF ReleaseInv
  <2>2. CASE MakeArchive \/ CMakeBuild
    <3>1. d.files = rel.files /\ d.ver = job.ver /\ d.quiet = job.quiet /\ d.source = files.vf
      BY <2>2 DEF MakeArchive, CMakeBuild, Finished
    <3>2. job.cmd \in {"sdist", "build"} /\ job.at \in TreeSteps
      BY <2>2 DEF MakeArchive, CMakeBuild, TreeSteps
    <3>3. TellsTree(job.ver, rel.files, files.vf, tagged, commits)
      BY <1>2, <3>1, <3>2 DEF ReleaseInv, WorkInv
    <3> QED
      BY <3>1, <3>3, HistoryGrows
  <2> QED
    BY <2>1, <2>2, DistChanges
<1> QED
  BY <1>1, <1>2 DEF ReleaseInv

\* With get_cmdclass(), a release that nobody disturbed has the version in the
\* short _version.py of its source tree, if it has one, and else, if the version
\* is the text of a tag, the files of that tag (versioneer.py:1532-1673): in every
\* style but pep440-pre, which leaves changes out, for every tag that does not end
\* like a suffix of the style.
THEOREM CleanReleases ==
  ASSUME UsesCmdclass, Style # "pep440-pre"
  PROVE  Spec => []CleanReleaseIsItsTag
<1> DEFINE I == TypeOK /\ PlaceInv /\ LinkInv /\ NameInv /\ ReleaseInv
<1>1. Init => I
  <2>1. Init => ReleaseInv
    BY DEF Init, ReleaseInv, WorkInv, Idle
  <2> QED
    BY <2>1, TypeInit, PartsInit
<1>2. I /\ [Next]_vars => I'
  BY TypeStep, PlaceStep, LinkStep, NameStep, ReleaseStep
<1>3. I => CleanReleaseIsItsTag
  BY DEF ReleaseInv, TellsTree, NamesTree, CleanReleaseIsItsTag
<1> QED
  BY <1>1, <1>2, <1>3, PTL DEF Spec
=============================================================================
